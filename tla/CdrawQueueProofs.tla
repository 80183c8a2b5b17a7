-------------------------- MODULE CdrawQueueProofs --------------------------
(***************************************************************************)
(* Proofs about CdrawQueue for every set of threads, every item type and   *)
(* every capacity, 0 included: its invariants, that it implements          *)
(* BoundedFifo, and that an answer of isEmpty or isFull stays true for the *)
(* only thread that could change it.                                       *)
(***************************************************************************)
EXTENDS CdrawQueue, SequenceTheorems, TLAPS

\* The inductive invariant: none of its parts is inductive alone.  count_
\* stays in range because a thread past its test is the only one inside and
\* the test still holds, which needs the mutex; and tail_ stays in range
\* because an enqueue past its test has a Capacity above 0.
IInv == TypeOK /\ MutualExclusion /\ RingInv

\* The code's (i + 1) % capacity_ is the wrap-around of RingInv.
LEMMA ModSucc == ASSUME Capacity \in Nat, NEW i \in 0 .. Capacity - 1
                 PROVE  (i + 1) % Capacity = Wrap(i + 1)
  BY DEF Wrap

\* Inside the critical section, "some thread is at l" speaks of the owner.
LEMMA OwnerAt == ASSUME MutualExclusion, NEW t \in Threads, Inside(t),
                        NEW l, l \notin {"idle", "lock"}
                 PROVE  At(l) <=> pc[t] = l
  BY DEF MutualExclusion, Inside, At

LEMMA InitInv == Init => IInv
  <1> SUFFICES ASSUME Init PROVE IInv
    OBVIOUS
  <1>1. TypeOK
    BY QueueAssumption DEF Init, TypeOK, Labels, Slots, LockedOps, Ops, NoItem
  <1>2. MutualExclusion
    BY QueueAssumption DEF Init, MutualExclusion, Inside
  <1>3. ~At("up") /\ ~At("down")
    BY DEF Init, At
  <1>4. RingInv
    BY <1>3, QueueAssumption DEF Init, RingInv, Span, Wrap
  <1>5. QED
    BY <1>1, <1>2, <1>4 DEF IInv

\* Every step keeps the invariant, one action at a time.
LEMMA QueryInv == ASSUME IInv, NEW t \in Threads, Query(t) PROVE IInv'
  <1> USE DEF IInv
  <1>1. TypeOK'
    BY DEF TypeOK, Query, ring, frame, Slots
  <1>2. MutualExclusion'
    BY DEF MutualExclusion, Inside, Query, ring, frame
  <1>3. RingInv'
    BY DEF RingInv, Span, At, Wrap, Query, ring, frame
  <1>4. QED
    BY <1>1, <1>2, <1>3

LEMMA CallInv == ASSUME IInv, NEW t \in Threads, AnyCall(t) PROVE IInv'
  <1>1. PICK o \in LockedOps, x \in Items \cup {NoItem} : Call(t, o, x)
    BY DEF AnyCall
  <1>2. pc[t] = "idle" /\ pc' = [pc EXCEPT ![t] = "lock"]
    BY <1>1 DEF Call, Goto
  <1>3. TypeOK'
    BY <1>1, <1>2 DEF IInv, TypeOK, Labels, Call, Answer, ring, Slots
  <1>4. MutualExclusion'
    BY <1>1, <1>2, QueueAssumption DEF IInv, TypeOK, MutualExclusion, Inside, Call
  <1>5. \A l \in {"up", "down"} : At(l)' <=> At(l)
    BY <1>2 DEF IInv, TypeOK, At
  <1>6. RingInv'
    BY <1>1, <1>2, <1>5 DEF IInv, TypeOK, RingInv, Span, Wrap, Call, ring
  <1>7. QED
    BY <1>3, <1>4, <1>6 DEF IInv

LEMMA AcquireInv == ASSUME IInv, NEW t \in Threads, Acquire(t) PROVE IInv'
  <1>1. pc[t] = "lock" /\ pc' = [pc EXCEPT ![t] = "body"]
    BY DEF Acquire, Goto
  <1>2. TypeOK'
    BY <1>1 DEF IInv, TypeOK, Labels, Acquire, ring, frame, Slots
  <1>3. MutualExclusion'
    BY <1>1, QueueAssumption DEF IInv, TypeOK, MutualExclusion, Inside, Acquire
  <1>4. \A l \in {"up", "down"} : At(l)' <=> At(l)
    BY <1>1 DEF IInv, TypeOK, At
  <1>5. RingInv'
    BY <1>1, <1>4 DEF IInv, TypeOK, RingInv, Span, Wrap, Acquire, ring
  <1>6. QED
    BY <1>2, <1>3, <1>5 DEF IInv

\* How far count_ is behind the slots in use when the owner is at l.
Skew(l) == IF l = "up" THEN 1 ELSE IF l = "down" THEN -1 ELSE 0

\* What the owner's steps share: the owner keeps the mutex and everybody
\* else stays outside.
LEMMA OwnerStep ==
    ASSUME IInv, NEW t \in Threads, Inside(t), UNCHANGED mtx_,
           NEW l, l \notin {"idle", "lock"}, pc' = [pc EXCEPT ![t] = l]
    PROVE  /\ MutualExclusion'
           /\ \A u \in Threads \ {t} : pc'[u] = pc[u] /\ pc[u] \in {"idle", "lock"}
           /\ pc'[t] = l
  <1>1. /\ \A u \in Threads \ {t} : pc'[u] = pc[u] /\ pc[u] \in {"idle", "lock"}
        /\ pc'[t] = l
    BY DEF IInv, TypeOK, MutualExclusion, Inside
  <1>2. MutualExclusion'
    BY <1>1 DEF IInv, MutualExclusion, Inside
  <1>3. QED
    BY <1>1, <1>2

\* RingInv as the owner sees it before its step ...
LEMMA RingBefore ==
    ASSUME IInv, NEW t \in Threads, Inside(t)
    PROVE  /\ Span = count_ + Skew(pc[t])
           /\ Span \in 0 .. Capacity
           /\ tail_ = Wrap(head_ + Span)
           /\ pc[t] \in {"store", "tail", "up"} => count_ < Capacity
           /\ pc[t] \in {"take", "head", "down"} => count_ > 0
  <1>1. (At("up") <=> pc[t] = "up") /\ (At("down") <=> pc[t] = "down")
    BY OwnerAt DEF IInv
  <1>2. count_ \in Nat
    BY QueueAssumption DEF IInv, TypeOK
  <1>3. Span = count_ + Skew(pc[t])
    BY <1>1, <1>2 DEF Span, Skew
  <1>4. QED
    BY <1>3 DEF IInv, RingInv

\* ... and what it has to re-establish after it: n slots are in use.
LEMMA RingAfter ==
    ASSUME IInv, TypeOK', NEW t \in Threads, Inside(t), UNCHANGED mtx_,
           NEW l, l \notin {"idle", "lock"}, pc' = [pc EXCEPT ![t] = l],
           NEW n \in 0 .. Capacity,
           n = count_' + Skew(l),
           tail_' = Wrap(head_' + n),
           l \in {"store", "tail", "up"} => count_' < Capacity,
           l \in {"take", "head", "down"} => count_' > 0
    PROVE  IInv'
  <1>1. /\ \A u \in Threads \ {t} : pc'[u] \in {"idle", "lock"}
        /\ pc'[t] = l
    BY OwnerStep
  <1>2. (At("up")' <=> l = "up") /\ (At("down")' <=> l = "down")
    BY <1>1 DEF At
  <1>3. count_' \in Nat
    BY QueueAssumption DEF TypeOK
  <1>4. Span' = n
    BY <1>2, <1>3 DEF Span, Skew
  <1>5. RingInv'
    BY <1>1, <1>4 DEF RingInv, Wrap
  <1>6. QED
    BY <1>5, OwnerStep DEF IInv

\* A step of the owner that leaves the ring alone.
LEMMA SameRing ==
    ASSUME IInv, TypeOK', NEW t \in Threads, Inside(t), UNCHANGED <<ring, mtx_>>,
           NEW l, l \notin {"idle", "lock"}, pc' = [pc EXCEPT ![t] = l],
           Skew(l) = Skew(pc[t]),
           l \in {"store", "tail", "up"} => count_ < Capacity,
           l \in {"take", "head", "down"} => count_ > 0
    PROVE  IInv'
  <1>1. UNCHANGED <<head_, tail_, count_>>
    BY DEF ring
  <1>2. Span \in 0 .. Capacity /\ Span = count_ + Skew(pc[t]) /\ tail_ = Wrap(head_ + Span)
    BY RingBefore
  <1>3. Span = count_' + Skew(l) /\ tail_' = Wrap(head_' + Span)
    BY <1>1, <1>2
  <1>4. Span \in 0 .. Capacity
    BY <1>2
  <1>5. QED
    BY <1>1, <1>3, <1>4, RingAfter

LEMMA EnqueueTestInv == ASSUME IInv, NEW t \in Threads, EnqueueTest(t) PROVE IInv'
  <1>1. Inside(t) /\ pc[t] = "body" /\ UNCHANGED <<ring, mtx_>>
    BY DEF EnqueueTest, Inside
  <1>2. UNCHANGED <<data_, head_, tail_, count_, mtx_, op, arg, seen>>
    BY DEF EnqueueTest, ring, frame
  <1>3. CASE isFull
    <2>1. pc' = [pc EXCEPT ![t] = "exit"] /\ ret' = [ret EXCEPT ![t] = <<0>>]
      BY <1>3 DEF EnqueueTest, Goto, Answer
    <2>2. TypeOK'
      BY <1>2, <2>1 DEF IInv, TypeOK, Labels, Slots
    <2>3. QED
      BY <1>1, <2>1, <2>2, SameRing DEF Skew
  <1>4. CASE ~isFull
    <2>1. pc' = [pc EXCEPT ![t] = "store"] /\ UNCHANGED ret
      BY <1>4 DEF EnqueueTest, Goto
    <2>2. TypeOK'
      BY <1>2, <2>1 DEF IInv, TypeOK, Labels, Slots
    <2>3. count_ < Capacity
      BY <1>4, QueueAssumption DEF isFull, IInv, TypeOK
    <2>4. QED
      BY <1>1, <2>1, <2>2, <2>3, SameRing DEF Skew
  <1>5. QED
    BY <1>3, <1>4

LEMMA StoreItemInv == ASSUME IInv, NEW t \in Threads, StoreItem(t) PROVE IInv'
  <1>1. /\ Inside(t) /\ pc[t] = "store" /\ pc' = [pc EXCEPT ![t] = "tail"]
        /\ UNCHANGED <<head_, tail_, count_, mtx_, op, arg, ret, seen>>
    BY DEF StoreItem, Inside, Goto, frame
  <1>2. /\ count_ < Capacity /\ Span = count_ + Skew("store")
        /\ Span \in 0 .. Capacity /\ tail_ = Wrap(head_ + Span)
    BY <1>1, RingBefore
  <1>3. TypeOK'
    BY <1>1 DEF StoreItem, IInv, TypeOK, Labels, Slots
  <1>4. Span = count_' + Skew("tail") /\ tail_' = Wrap(head_' + Span)
    BY <1>1, <1>2 DEF Skew
  <1>5. count_' < Capacity
    BY <1>1, <1>2
  <1>6. QED
    BY <1>1, <1>2, <1>3, <1>4, <1>5, RingAfter

LEMMA AdvanceTailInv == ASSUME IInv, NEW t \in Threads, AdvanceTail(t) PROVE IInv'
  <1>1. /\ Inside(t) /\ pc[t] = "tail" /\ pc' = [pc EXCEPT ![t] = "up"]
        /\ UNCHANGED <<data_, head_, count_, mtx_, op, arg, ret, seen>>
        /\ tail_' = (tail_ + 1) % Capacity
    BY DEF AdvanceTail, Inside, Goto, frame
  <1>2. count_ < Capacity /\ Span = count_ /\ tail_ = Wrap(head_ + Span)
    <2>1. Skew("tail") = 0 /\ count_ + 0 = count_
      BY QueueAssumption DEF Skew, IInv, TypeOK
    <2>2. QED
      BY <1>1, <2>1, RingBefore
  <1>3. Capacity \in Nat \ {0} /\ tail_ \in Slots /\ head_ \in Slots /\ count_ \in 0 .. Capacity
    BY <1>2, QueueAssumption DEF IInv, TypeOK, Slots
  <1>4. tail_' = Wrap(tail_ + 1)
    BY <1>1, <1>3, ModSucc DEF Slots
  <1>5. TypeOK'
    <2>1. tail_' \in Slots
      BY <1>3, <1>4 DEF Wrap, Slots
    <2>2. QED
      BY <1>1, <2>1 DEF IInv, TypeOK, Labels
  <1>6. count_ + 1 \in 0 .. Capacity /\ count_ + 1 = count_' + Skew("up") /\ count_' < Capacity
    BY <1>1, <1>2, <1>3 DEF Skew
  <1>7. tail_' = Wrap(head_' + (count_ + 1))
    BY <1>1, <1>2, <1>3, <1>4 DEF Wrap, Slots
  <1>8. QED
    BY <1>1, <1>5, <1>6, <1>7, RingAfter

LEMMA CountUpInv == ASSUME IInv, NEW t \in Threads, CountUp(t) PROVE IInv'
  <1>1. /\ Inside(t) /\ pc[t] = "up" /\ pc' = [pc EXCEPT ![t] = "exit"]
        /\ UNCHANGED <<data_, head_, tail_, mtx_, op, arg, seen>>
        /\ count_' = count_ + 1 /\ ret' = [ret EXCEPT ![t] = <<1>>]
    BY DEF CountUp, Inside, Goto, Answer, frame
  <1>2. count_ < Capacity /\ Span = count_ + 1 /\ tail_ = Wrap(head_ + Span) /\ Span \in 0 .. Capacity
    BY <1>1, RingBefore DEF Skew
  <1>3. count_' \in 0 .. Capacity
    BY <1>1, <1>2
  <1>4. TypeOK'
    BY <1>1, <1>3 DEF IInv, TypeOK, Labels, Slots
  <1>5. Span = count_' + Skew("exit") /\ tail_' = Wrap(head_' + Span)
    BY <1>1, <1>2, <1>3 DEF Skew
  <1>6. QED
    BY <1>1, <1>2, <1>4, <1>5, RingAfter

LEMMA DequeueTestInv == ASSUME IInv, NEW t \in Threads, DequeueTest(t) PROVE IInv'
  <1>1. Inside(t) /\ pc[t] = "body" /\ UNCHANGED <<ring, mtx_>>
    BY DEF DequeueTest, Inside
  <1>2. UNCHANGED <<data_, head_, tail_, count_, mtx_, op, arg, seen>>
    BY DEF DequeueTest, ring, frame
  <1>3. CASE pc' = [pc EXCEPT ![t] = "take"] /\ UNCHANGED ret /\ ~isEmpty
    <2>1. TypeOK'
      BY <1>2, <1>3 DEF IInv, TypeOK, Labels, Slots
    <2>2. count_ > 0
      BY <1>3, QueueAssumption DEF isEmpty, IInv, TypeOK
    <2>3. QED
      BY <1>1, <1>3, <2>1, <2>2, SameRing DEF Skew
  <1>4. CASE pc' = [pc EXCEPT ![t] = "sleep"] /\ UNCHANGED ret
    <2>1. TypeOK'
      BY <1>2, <1>4 DEF IInv, TypeOK, Labels, Slots
    <2>2. QED
      BY <1>1, <1>4, <2>1, SameRing DEF Skew
  <1>5. CASE /\ pc' = [pc EXCEPT ![t] = "exit"]
             /\ \/ ret' = [ret EXCEPT ![t] = <<NoItem>>]
                \/ ret' = [ret EXCEPT ![t] = <<>>]
    <2>1. <<NoItem>> \in Seq(Int) /\ <<>> \in Seq(Int)
      BY DEF NoItem
    <2>2. TypeOK'
      BY <1>2, <1>5, <2>1 DEF IInv, TypeOK, Labels, Slots
    <2>3. QED
      BY <1>1, <1>5, <2>2, SameRing DEF Skew
  <1>6. QED
    BY <1>3, <1>4, <1>5 DEF DequeueTest, Goto, Answer

LEMMA WakeUpInv == ASSUME IInv, NEW t \in Threads, WakeUp(t) PROVE IInv'
  <1>1. /\ Inside(t) /\ pc[t] = "sleep" /\ pc' = [pc EXCEPT ![t] = "body"]
        /\ UNCHANGED <<ring, mtx_>>
    BY DEF WakeUp, Inside, Goto
  <1>2. TypeOK'
    BY <1>1 DEF WakeUp, IInv, TypeOK, Labels, Slots, ring, frame
  <1>3. QED
    BY <1>1, <1>2, SameRing DEF Skew

\* A dequeue past its test reads an item.
LEMMA HeadIsItem ==
    ASSUME IInv, NEW t \in Threads, pc[t] = "take"
    PROVE  data_[head_] \in Int
  <1>1. count_ > 0
    BY RingBefore DEF Inside
  <1>2. head_ \in Slots
    BY <1>1, QueueAssumption DEF IInv, TypeOK, Slots
  <1>3. data_[head_] \in Items \cup {NoItem}
    BY <1>2 DEF IInv, TypeOK
  <1>4. \A i \in Items : i \in Int
    BY QueueAssumption
  <1>5. QED
    BY <1>3, <1>4 DEF NoItem

LEMMA TakeItemInv == ASSUME IInv, NEW t \in Threads, TakeItem(t) PROVE IInv'
  <1>1. /\ Inside(t) /\ pc[t] = "take" /\ pc' = [pc EXCEPT ![t] = "head"]
        /\ UNCHANGED <<ring, mtx_>>
        /\ ret' = [ret EXCEPT ![t] = Append(ret[t], data_[head_])]
    BY DEF TakeItem, Inside, Goto, Answer
  <1>2. count_ > 0
    BY <1>1, RingBefore
  <1>3. data_[head_] \in Int
    BY <1>1, HeadIsItem
  <1>4. Append(ret[t], data_[head_]) \in Seq(Int)
    BY <1>3 DEF IInv, TypeOK
  <1>5. TypeOK'
    BY <1>1, <1>4 DEF TakeItem, IInv, TypeOK, Labels, Slots, ring, frame
  <1>6. QED
    BY <1>1, <1>2, <1>5, SameRing DEF Skew

LEMMA AdvanceHeadInv == ASSUME IInv, NEW t \in Threads, AdvanceHead(t) PROVE IInv'
  <1>1. /\ Inside(t) /\ pc[t] = "head" /\ pc' = [pc EXCEPT ![t] = "down"]
        /\ UNCHANGED <<data_, tail_, count_, mtx_, op, arg, ret, seen>>
        /\ head_' = (head_ + 1) % Capacity
    BY DEF AdvanceHead, Inside, Goto, frame
  <1>2. count_ > 0 /\ Span = count_ /\ tail_ = Wrap(head_ + Span)
    <2>1. Skew("head") = 0 /\ count_ + 0 = count_
      BY QueueAssumption DEF Skew, IInv, TypeOK
    <2>2. QED
      BY <1>1, <2>1, RingBefore
  <1>3. Capacity \in Nat \ {0} /\ tail_ \in Slots /\ head_ \in Slots /\ count_ \in 0 .. Capacity
    BY <1>2, QueueAssumption DEF IInv, TypeOK, Slots
  <1>4. head_' = Wrap(head_ + 1)
    BY <1>1, <1>3, ModSucc DEF Slots
  <1>5. TypeOK'
    <2>1. head_' \in Slots
      BY <1>3, <1>4 DEF Wrap, Slots
    <2>2. QED
      BY <1>1, <2>1 DEF IInv, TypeOK, Labels
  <1>6. count_ - 1 \in 0 .. Capacity /\ count_ - 1 = count_' + Skew("down") /\ count_' > 0
    BY <1>1, <1>2, <1>3 DEF Skew
  <1>7. tail_' = Wrap(head_' + (count_ - 1))
    BY <1>1, <1>2, <1>3, <1>4 DEF Wrap, Slots
  <1>8. QED
    BY <1>1, <1>5, <1>6, <1>7, RingAfter

LEMMA CountDownInv == ASSUME IInv, NEW t \in Threads, CountDown(t) PROVE IInv'
  <1>1. /\ Inside(t) /\ pc[t] = "down" /\ count_' = count_ - 1
        /\ UNCHANGED <<data_, head_, tail_, mtx_, op, arg, ret, seen>>
    BY DEF CountDown, Inside, frame
  <1>2. count_ > 0 /\ Span = count_ - 1 /\ tail_ = Wrap(head_ + Span) /\ Span \in 0 .. Capacity
    BY <1>1, RingBefore DEF Skew
  <1>3. count_' \in 0 .. Capacity /\ tail_' = Wrap(head_' + Span)
    BY <1>1, <1>2
  <1>4. CASE pc' = [pc EXCEPT ![t] = "take"] /\ count_' # 0
    <2>1. TypeOK'
      BY <1>1, <1>3, <1>4 DEF IInv, TypeOK, Labels, Slots
    <2>2. Span = count_' + Skew("take") /\ count_' > 0
      <3>1. count_' \in Nat
        BY <1>3, QueueAssumption
      <3>2. count_' > 0
        BY <1>4, <3>1
      <3>3. Span = count_'
        BY <1>1, <1>2
      <3>4. Skew("take") = 0
        BY DEF Skew
      <3>5. QED
        BY <3>1, <3>2, <3>3, <3>4
    <2>3. QED
      BY <1>1, <1>2, <1>3, <1>4, <2>1, <2>2, RingAfter
  <1>5. CASE pc' = [pc EXCEPT ![t] = "exit"]
    <2>1. TypeOK'
      BY <1>1, <1>3, <1>5 DEF IInv, TypeOK, Labels, Slots
    <2>2. Span = count_' + Skew("exit")
      BY <1>1, <1>2, <1>3 DEF Skew
    <2>3. QED
      BY <1>1, <1>2, <1>3, <1>5, <2>1, <2>2, RingAfter
  <1>6. QED
    BY <1>4, <1>5 DEF CountDown, Goto

LEMMA ClearInv == ASSUME IInv, NEW t \in Threads, Clear(t) PROVE IInv'
  <1>1. /\ Inside(t) /\ pc[t] = "body" /\ pc' = [pc EXCEPT ![t] = "exit"]
        /\ UNCHANGED <<data_, mtx_, op, arg, ret, seen>>
        /\ head_' = 0 /\ tail_' = 0 /\ count_' = 0
    BY DEF Clear, Inside, Goto, frame
  <1>2. TypeOK'
    BY <1>1, QueueAssumption DEF IInv, TypeOK, Labels, Slots
  <1>3. 0 \in 0 .. Capacity /\ 0 = count_' + Skew("exit") /\ tail_' = Wrap(head_' + 0)
    BY <1>1, QueueAssumption DEF Skew, Wrap
  <1>4. QED
    BY <1>1, <1>2, <1>3, RingAfter

LEMMA ReleaseInv == ASSUME IInv, NEW t \in Threads, Release(t) PROVE IInv'
  <1>1. /\ Inside(t) /\ pc[t] = "exit" /\ pc' = [pc EXCEPT ![t] = "idle"]
        /\ UNCHANGED <<ring, op, arg, ret>> /\ mtx_' = NoThread
        /\ seen' = [seen EXCEPT ![t] = "nothing"]
    BY DEF Release, Inside, Goto, frame
  <1>2. TypeOK'
    BY <1>1 DEF IInv, TypeOK, Labels, Slots, ring
  <1>3. MutualExclusion'
    <2>1. \A u \in Threads : u # t => ~Inside(u) /\ pc'[u] = pc[u]
      BY <1>1 DEF IInv, TypeOK, MutualExclusion
    <2>2. \A u \in Threads : ~Inside(u)'
      BY <1>1, <2>1 DEF IInv, TypeOK, Inside
    <2>3. \A u \in Threads : mtx_' # u
      BY <1>1, QueueAssumption
    <2>4. QED
      BY <2>2, <2>3 DEF MutualExclusion
  <1>4. \A l \in {"up", "down"} : At(l)' <=> At(l)
    BY <1>1 DEF IInv, TypeOK, At
  <1>5. RingInv'
    BY <1>1, <1>4 DEF IInv, TypeOK, RingInv, Span, Wrap, ring
  <1>6. QED
    BY <1>2, <1>3, <1>5 DEF IInv

LEMMA NextInv == IInv /\ [Next]_vars => IInv'
  <1> SUFFICES ASSUME IInv, [Next]_vars PROVE IInv'
    OBVIOUS
  <1>1. CASE UNCHANGED vars
    BY <1>1 DEF IInv, TypeOK, MutualExclusion, Inside, RingInv, Span, At, Wrap,
                vars, ring, frame
  <1>2. ASSUME NEW t \in Threads, Query(t) \/ AnyCall(t) \/ Acquire(t) PROVE IInv'
    BY <1>2, QueryInv, CallInv, AcquireInv
  <1>3. ASSUME NEW t \in Threads, Body(t) PROVE IInv'
    BY <1>3, EnqueueTestInv, StoreItemInv, AdvanceTailInv, CountUpInv, DequeueTestInv,
       WakeUpInv, TakeItemInv, AdvanceHeadInv, CountDownInv, ClearInv, ReleaseInv DEF Body
  <1>4. QED
    BY <1>1, <1>2, <1>3 DEF Next

\* In every reachable state: the inductive invariant.
THEOREM Invariant == Spec => []IInv
  BY InitInv, NextInv, PTL DEF Spec

\* Whatever the threads call and however they interleave, the array index
\* and the count of CdrawQueue stay in their types (CdrawQueue.h:53-150).
THEOREM TypeCorrect == Spec => []TypeOK
  <1>1. IInv => TypeOK
    BY DEF IInv
  <1>2. QED
    BY <1>1, Invariant, PTL

\* The lock_guard of each operation keeps the critical sections apart.
THEOREM Exclusion == Spec => []MutualExclusion
  <1>1. IInv => MutualExclusion
    BY DEF IInv
  <1>2. QED
    BY <1>1, Invariant, PTL

\* head_, tail_ and count_ agree at every step of every operation: enqueue
\* never overwrites an item and a dequeue never reads a slot without one.
THEOREM RingCorrect == Spec => []RingInv
  <1>1. IInv => RingInv
    BY DEF IInv
  <1>2. QED
    BY <1>1, Invariant, PTL

\* A thread asleep in a blocking dequeue freezes the queue for ever: no step
\* of any thread changes the ring or passes the mutex on while it sleeps.
THEOREM SleeperFreezesQueue == Spec => SleeperHoldsQueue
  <1>1. IInv /\ [Next]_vars => (At("sleep") => UNCHANGED <<ring, mtx_>>)
    <2> SUFFICES ASSUME IInv, [Next]_vars, NEW u \in Threads, pc[u] = "sleep"
                 PROVE  UNCHANGED <<ring, mtx_>>
      BY DEF At
    <2>1. \A t \in Threads : t # u => pc[t] \in {"idle", "lock"}
      BY DEF IInv, MutualExclusion, Inside
    <2>2. mtx_ # NoThread
      BY QueueAssumption DEF IInv, MutualExclusion, Inside
    <2>3. ASSUME NEW t \in Threads, Query(t) \/ AnyCall(t) PROVE UNCHANGED <<ring, mtx_>>
      BY <2>3 DEF Query, AnyCall, Call
    <2>4. ASSUME NEW t \in Threads, Acquire(t) PROVE FALSE
      BY <2>2, <2>4 DEF Acquire
    <2>5. ASSUME NEW t \in Threads, Body(t) PROVE UNCHANGED <<ring, mtx_>>
      <3>1. t = u
        BY <2>1, <2>5 DEF Body, EnqueueTest, StoreItem, AdvanceTail, CountUp, DequeueTest,
           WakeUp, TakeItem, AdvanceHead, CountDown, Clear, Release
      <3>2. WakeUp(u)
        BY <2>5, <3>1 DEF Body, EnqueueTest, StoreItem, AdvanceTail, CountUp, DequeueTest,
           TakeItem, AdvanceHead, CountDown, Clear, Release
      <3>3. QED
        BY <3>2 DEF WakeUp
    <2>6. QED
      BY <2>3, <2>4, <2>5 DEF Next, vars
  <1>2. QED
    BY <1>1, Invariant, PTL DEF Spec, SleeperHoldsQueue

-----------------------------------------------------------------------------
\* Each place of the code is reached by the operations it belongs to, and only
\* by those the thread calls.
OpInv == \A t \in Threads :
           /\ pc[t] \in {"store", "tail", "up"} => op[t] = "enqueue"
           /\ pc[t] \in {"take", "head", "down"} => op[t] \in Dequeues
           /\ pc[t] = "sleep" => op[t] \in Blocking
           /\ pc[t] # "idle" => op[t] \in Calls[t]

\* What a call has read or stored so far: a single dequeue has read nothing
\* before "head" and one item from there on, a drain some, an enqueue past its
\* assignment has its item in the slot behind the last one.
RetInv == \A t \in Threads :
            /\ pc[t] \in {"lock", "body", "sleep", "store", "tail", "up"} => ret[t] = <<>>
            /\ pc[t] \in {"head", "down"} => ret[t] # <<>>
            /\ op[t] \in Removing =>
                 /\ pc[t] = "take" => ret[t] = <<>>
                 /\ pc[t] \in {"head", "down"} => Len(ret[t]) = 1
            /\ pc[t] \in {"tail", "up"} => data_[Wrap(head_ + count_)] = arg[t]

QInv == IInv /\ OpInv /\ RetInv

LEMMA QInitInv == Init => QInv
  BY InitInv DEF Init, QInv, OpInv, RetInv, Removing

\* In the steps of the owner the other threads are at "idle" or "lock", and
\* their op, arg and ret stay.
LEMMA OthersOutside ==
    ASSUME IInv, NEW t \in Threads, Inside(t)
    PROVE  \A u \in Threads : u # t => pc[u] \in {"idle", "lock"}
  BY DEF IInv, MutualExclusion, Inside

LEMMA OpStep == ASSUME QInv, [Next]_vars PROVE OpInv'
  <1> USE DEF QInv
  <1>1. TypeOK
    BY DEF IInv
  <1>2. CASE UNCHANGED vars
    BY <1>2 DEF OpInv, vars, frame
  <1>3. ASSUME NEW t \in Threads, Query(t) PROVE OpInv'
    BY <1>3 DEF OpInv, Query, frame
  <1>4. ASSUME NEW t \in Threads, AnyCall(t) PROVE OpInv'
    <2>1. PICK o \in Calls[t] \cap LockedOps, x \in Items \cup {NoItem} : Call(t, o, x)
      BY <1>4 DEF AnyCall
    <2>2. pc' = [pc EXCEPT ![t] = "lock"] /\ op' = [op EXCEPT ![t] = o]
      BY <2>1 DEF Call, Goto
    <2>3. QED
      BY <1>1, <2>2 DEF OpInv, TypeOK
  <1>5. ASSUME NEW t \in Threads, Acquire(t) PROVE OpInv'
    <2>1. pc[t] = "lock" /\ pc' = [pc EXCEPT ![t] = "body"] /\ UNCHANGED op
      BY <1>5 DEF Acquire, Goto, frame
    <2>2. QED
      BY <1>1, <2>1 DEF OpInv, TypeOK
  <1>6. ASSUME NEW t \in Threads, Body(t) PROVE OpInv'
    <2>1. UNCHANGED op /\ pc[t] # "idle"
      BY <1>6 DEF Body, EnqueueTest, StoreItem, AdvanceTail, CountUp, DequeueTest, WakeUp,
         TakeItem, AdvanceHead, CountDown, Clear, Release, frame
    <2>2. PICK l \in Labels :
            /\ pc' = [pc EXCEPT ![t] = l]
            /\ l \in {"store", "tail", "up"} => op[t] = "enqueue"
            /\ l \in {"take", "head", "down"} => op[t] \in Dequeues
            /\ l = "sleep" => op[t] \in Blocking
      <3>1. EnqueueTest(t) => \E l \in {"exit", "store"} :
                                pc' = [pc EXCEPT ![t] = l] /\ op[t] = "enqueue"
        BY DEF EnqueueTest, Goto
      <3>2. StoreItem(t) => pc' = [pc EXCEPT ![t] = "tail"] /\ op[t] = "enqueue"
        BY DEF StoreItem, Goto, OpInv
      <3>3. AdvanceTail(t) => pc' = [pc EXCEPT ![t] = "up"] /\ op[t] = "enqueue"
        BY DEF AdvanceTail, Goto, OpInv
      <3>4. CountUp(t) \/ Clear(t) => pc' = [pc EXCEPT ![t] = "exit"]
        BY DEF CountUp, Clear, Goto
      <3>5. DequeueTest(t) => \/ pc' = [pc EXCEPT ![t] = "take"] /\ op[t] \in Dequeues
                              \/ pc' = [pc EXCEPT ![t] = "sleep"] /\ op[t] \in Blocking
                              \/ pc' = [pc EXCEPT ![t] = "exit"]
        BY DEF DequeueTest, Goto
      <3>6. WakeUp(t) => pc' = [pc EXCEPT ![t] = "body"]
        BY DEF WakeUp, Goto
      <3>7. TakeItem(t) => pc' = [pc EXCEPT ![t] = "head"] /\ op[t] \in Dequeues
        BY DEF TakeItem, Goto, OpInv
      <3>8. AdvanceHead(t) => pc' = [pc EXCEPT ![t] = "down"] /\ op[t] \in Dequeues
        BY DEF AdvanceHead, Goto, OpInv
      <3>9. CountDown(t) => \E l \in {"take", "exit"} :
                              pc' = [pc EXCEPT ![t] = l] /\ op[t] \in Dequeues
        BY DEF CountDown, Goto, OpInv
      <3>10. Release(t) => pc' = [pc EXCEPT ![t] = "idle"]
        BY DEF Release, Goto
      <3>11. QED
        BY <1>6, <3>1, <3>2, <3>3, <3>4, <3>5, <3>6, <3>7, <3>8, <3>9, <3>10 DEF Body, Labels
    <2>3. QED
      BY <1>1, <2>1, <2>2 DEF OpInv, TypeOK
  <1>7. QED
    BY <1>2, <1>3, <1>4, <1>5, <1>6 DEF Next

\* Who stays outside keeps its part of RetInv: at "idle" and "lock" it speaks of
\* ret only.
LEMMA RetOthers ==
    ASSUME IInv, RetInv, NEW t \in Threads, Inside(t),
           NEW l \in Labels, pc' = [pc EXCEPT ![t] = l], UNCHANGED op,
           NEW r \in Seq(Int), ret' = [ret EXCEPT ![t] = r],
           l \in {"lock", "body", "sleep", "store", "tail", "up"} => r = <<>>,
           l \in {"head", "down"} => r # <<>>,
           op[t] \in Removing => /\ l = "take" => r = <<>>
                                 /\ l \in {"head", "down"} => Len(r) = 1,
           l \in {"tail", "up"} => (data_[Wrap(head_ + count_)] = arg[t])'
    PROVE  RetInv'
  <1>1. /\ pc'[t] = l /\ ret'[t] = r
        /\ \A u \in Threads : u # t => /\ pc'[u] = pc[u] /\ ret'[u] = ret[u]
                                       /\ pc[u] \in {"idle", "lock"}
    BY OthersOutside DEF IInv, TypeOK
  <1>2. QED
    BY <1>1 DEF RetInv

LEMMA RetStep == ASSUME QInv, [Next]_vars PROVE RetInv'
  <1> USE DEF QInv
  <1>1. TypeOK
    BY DEF IInv
  <1>2. CASE UNCHANGED vars
    BY <1>2 DEF RetInv, vars, ring, frame, Wrap
  <1>3. ASSUME NEW t \in Threads, Query(t) PROVE RetInv'
    BY <1>3 DEF RetInv, Query, ring, frame, Wrap
  <1>4. ASSUME NEW t \in Threads, AnyCall(t) PROVE RetInv'
    <2>1. PICK o \in Calls[t] \cap LockedOps, x \in Items \cup {NoItem} : Call(t, o, x)
      BY <1>4 DEF AnyCall
    <2>2. /\ pc' = [pc EXCEPT ![t] = "lock"] /\ op' = [op EXCEPT ![t] = o]
          /\ ret' = [ret EXCEPT ![t] = <<>>] /\ arg' = [arg EXCEPT ![t] = x]
          /\ UNCHANGED <<data_, head_, count_>>
      BY <2>1 DEF Call, Goto, Answer, ring
    <2>3. /\ pc'[t] = "lock" /\ ret'[t] = <<>>
          /\ \A u \in Threads : u # t => /\ pc'[u] = pc[u] /\ op'[u] = op[u]
                                         /\ ret'[u] = ret[u] /\ arg'[u] = arg[u]
      BY <1>1, <2>2 DEF TypeOK
    <2>4. QED
      BY <2>2, <2>3 DEF RetInv, Wrap
  <1>5. ASSUME NEW t \in Threads, Acquire(t) PROVE RetInv'
    <2>1. /\ pc[t] = "lock" /\ pc' = [pc EXCEPT ![t] = "body"]
          /\ UNCHANGED <<data_, head_, count_, op, arg, ret>>
      BY <1>5 DEF Acquire, Goto, ring, frame
    <2>2. pc'[t] = "body" /\ \A u \in Threads : u # t => pc'[u] = pc[u]
      BY <1>1, <2>1 DEF TypeOK
    <2>3. QED
      BY <2>1, <2>2 DEF RetInv, Wrap
  <1>6. ASSUME NEW t \in Threads, Body(t) PROVE RetInv'
    <2>0. \A u \in Threads : ret[u] \in Seq(Int) /\ ret = [ret EXCEPT ![u] = ret[u]]
      BY <1>1 DEF TypeOK
    <2>1. CASE EnqueueTest(t)
      <3>1. Inside(t) /\ pc[t] = "body" /\ UNCHANGED <<data_, head_, count_, op, arg>>
        BY <2>1 DEF EnqueueTest, Inside, ring, frame
      <3>2. CASE pc' = [pc EXCEPT ![t] = "exit"] /\ ret' = [ret EXCEPT ![t] = <<0>>]
        <4>1. <<0>> \in Seq(Int)
          OBVIOUS
        <4>2. QED
          BY <3>1, <3>2, <4>1, RetOthers DEF Labels
      <3>3. CASE pc' = [pc EXCEPT ![t] = "store"] /\ UNCHANGED ret
        <4>1. ret[t] = <<>> /\ ret' = [ret EXCEPT ![t] = ret[t]] /\ ret[t] \in Seq(Int)
          BY <2>0, <3>1, <3>3 DEF RetInv
        <4>2. QED
          BY <3>1, <3>3, <4>1, RetOthers DEF Labels
      <3>4. QED
        BY <2>1, <3>2, <3>3 DEF EnqueueTest, Goto, Answer
    <2>2. CASE StoreItem(t)
      <3>1. /\ Inside(t) /\ pc[t] = "store" /\ pc' = [pc EXCEPT ![t] = "tail"]
            /\ data_' = [data_ EXCEPT ![tail_] = arg[t]]
            /\ UNCHANGED <<head_, count_, op, arg, ret>>
        BY <2>2 DEF StoreItem, Inside, Goto, frame
      <3>2. count_ < Capacity /\ tail_ = Wrap(head_ + count_)
        <4>1. Skew("store") = 0 /\ count_ + 0 = count_
          BY <1>1, QueueAssumption DEF Skew, TypeOK
        <4>2. QED
          BY <3>1, <4>1, RingBefore
      <3>3. tail_ \in Slots
        BY <1>1, <3>2, QueueAssumption DEF TypeOK, Slots
      <3>4. (data_[Wrap(head_ + count_)] = arg[t])'
        BY <1>1, <3>1, <3>2, <3>3 DEF TypeOK, Wrap
      <3>5. ret[t] = <<>> /\ ret' = [ret EXCEPT ![t] = ret[t]] /\ ret[t] \in Seq(Int)
        BY <2>0, <3>1 DEF RetInv
      <3>6. QED
        BY <3>1, <3>4, <3>5, RetOthers DEF Labels
    <2>3. CASE AdvanceTail(t)
      <3>1. /\ Inside(t) /\ pc[t] = "tail" /\ pc' = [pc EXCEPT ![t] = "up"]
            /\ UNCHANGED <<data_, head_, count_, op, arg, ret>>
        BY <2>3 DEF AdvanceTail, Inside, Goto, frame
      <3>2. (data_[Wrap(head_ + count_)] = arg[t])'
        BY <3>1 DEF RetInv, Wrap
      <3>3. ret[t] = <<>> /\ ret' = [ret EXCEPT ![t] = ret[t]] /\ ret[t] \in Seq(Int)
        BY <2>0, <3>1 DEF RetInv
      <3>4. QED
        BY <3>1, <3>2, <3>3, RetOthers DEF Labels
    <2>4. CASE CountUp(t)
      <3>1. /\ Inside(t) /\ pc' = [pc EXCEPT ![t] = "exit"] /\ UNCHANGED op
            /\ ret' = [ret EXCEPT ![t] = <<1>>]
        BY <2>4 DEF CountUp, Inside, Goto, Answer, frame
      <3>2. <<1>> \in Seq(Int)
        OBVIOUS
      <3>3. QED
        BY <3>1, <3>2, RetOthers DEF Labels
    <2>5. CASE DequeueTest(t)
      <3>1. Inside(t) /\ pc[t] = "body" /\ UNCHANGED op /\ ret[t] = <<>>
        BY <2>5 DEF DequeueTest, Inside, frame, RetInv
      <3>2. ASSUME NEW l \in {"take", "sleep"}, pc' = [pc EXCEPT ![t] = l], UNCHANGED ret
            PROVE  RetInv'
        <4>1. ret' = [ret EXCEPT ![t] = ret[t]] /\ ret[t] \in Seq(Int)
          BY <2>0, <3>2
        <4>2. QED
          BY <3>1, <3>2, <4>1, RetOthers DEF Labels
      <3>3. ASSUME NEW r \in {<<NoItem>>, <<>>}, pc' = [pc EXCEPT ![t] = "exit"],
                   ret' = [ret EXCEPT ![t] = r]
            PROVE  RetInv'
        <4>1. <<NoItem>> \in Seq(Int) /\ <<>> \in Seq(Int)
          BY DEF NoItem
        <4>2. QED
          BY <3>1, <3>3, <4>1, RetOthers DEF Labels
      <3>4. QED
        BY <2>5, <3>2, <3>3 DEF DequeueTest, Goto, Answer
    <2>6. CASE WakeUp(t)
      <3>1. /\ Inside(t) /\ pc[t] = "sleep" /\ pc' = [pc EXCEPT ![t] = "body"]
            /\ UNCHANGED <<op, ret>>
        BY <2>6 DEF WakeUp, Inside, Goto, frame
      <3>2. ret[t] = <<>> /\ ret' = [ret EXCEPT ![t] = ret[t]] /\ ret[t] \in Seq(Int)
        BY <2>0, <3>1 DEF RetInv
      <3>3. QED
        BY <3>1, <3>2, RetOthers DEF Labels
    <2>7. CASE TakeItem(t)
      <3>1. /\ Inside(t) /\ pc[t] = "take" /\ pc' = [pc EXCEPT ![t] = "head"]
            /\ UNCHANGED op /\ ret' = [ret EXCEPT ![t] = Append(ret[t], data_[head_])]
        BY <2>7 DEF TakeItem, Inside, Goto, Answer, frame
      <3>2. data_[head_] \in Int
        BY <3>1, HeadIsItem
      <3>3. Append(ret[t], data_[head_]) \in Seq(Int)
        BY <2>0, <3>2
      <3>4. /\ Append(ret[t], data_[head_]) # <<>>
            /\ op[t] \in Removing => Len(Append(ret[t], data_[head_])) = 1
        BY <2>0, <3>1, <3>2 DEF RetInv
      <3>5. QED
        BY <3>1, <3>3, <3>4, RetOthers DEF Labels
    <2>8. CASE AdvanceHead(t)
      <3>1. /\ Inside(t) /\ pc[t] = "head" /\ pc' = [pc EXCEPT ![t] = "down"]
            /\ UNCHANGED <<op, ret>>
        BY <2>8 DEF AdvanceHead, Inside, Goto, frame
      <3>2. ret' = [ret EXCEPT ![t] = ret[t]] /\ ret[t] \in Seq(Int)
        BY <2>0, <3>1
      <3>3. ret[t] # <<>> /\ (op[t] \in Removing => Len(ret[t]) = 1)
        BY <3>1 DEF RetInv
      <3>4. QED
        BY <3>1, <3>2, <3>3, RetOthers DEF Labels
    <2>9. CASE CountDown(t)
      <3>1. Inside(t) /\ pc[t] = "down" /\ UNCHANGED <<op, ret>>
        BY <2>9 DEF CountDown, Inside, frame
      <3>2. ret' = [ret EXCEPT ![t] = ret[t]] /\ ret[t] \in Seq(Int)
        BY <2>0, <3>1
      <3>3. CASE pc' = [pc EXCEPT ![t] = "take"] /\ op[t] \in Draining
        <4>1. op[t] \notin Removing
          BY <3>3 DEF Draining, Removing
        <4>2. QED
          BY <3>1, <3>2, <3>3, <4>1, RetOthers DEF Labels
      <3>4. CASE pc' = [pc EXCEPT ![t] = "exit"]
        BY <3>1, <3>2, <3>4, RetOthers DEF Labels
      <3>5. QED
        BY <2>9, <3>3, <3>4 DEF CountDown, Goto
    <2>10. CASE Clear(t) \/ Release(t)
      <3>1. \E l \in {"exit", "idle"} : pc' = [pc EXCEPT ![t] = l]
        BY <2>10 DEF Clear, Release, Goto
      <3>2. Inside(t) /\ UNCHANGED <<op, ret>>
        BY <2>10 DEF Clear, Release, Inside, frame
      <3>3. ret' = [ret EXCEPT ![t] = ret[t]] /\ ret[t] \in Seq(Int)
        BY <2>0, <3>2
      <3>4. QED
        BY <3>1, <3>2, <3>3, RetOthers DEF Labels
    <2>11. QED
      BY <1>6, <2>1, <2>2, <2>3, <2>4, <2>5, <2>6, <2>7, <2>8, <2>9, <2>10 DEF Body
  <1>7. QED
    BY <1>2, <1>3, <1>4, <1>5, <1>6 DEF Next

LEMMA QNextInv == QInv /\ [Next]_vars => QInv'
  BY NextInv, OpStep, RetStep DEF QInv

\* The queue's inductive invariant with what each thread's call and answer are at
\* each place of enqueue, the dequeues and clear (CdrawQueue.h:53-150).
THEOREM QueueInvariant == Spec => []QInv
  BY QInitInv, QNextInv, PTL DEF Spec

-----------------------------------------------------------------------------
\* A sequence with one more element in front.
LEMMA ConsParts ==
    ASSUME NEW x \in Int, NEW s \in Seq(Int)
    PROVE  /\ <<x>> \o s \in Seq(Int)
           /\ Len(<<x>> \o s) = Len(s) + 1
           /\ <<x>> \o s # <<>>
           /\ (<<x>> \o s)[1] = x
           /\ \A i \in 1 .. Len(s) : (<<x>> \o s)[i + 1] = s[i]
           /\ Head(<<x>> \o s) = x
           /\ Tail(<<x>> \o s) = s
  <1>1. /\ <<x>> \in Seq(Int) /\ Len(<<x>>) = 1 /\ Len(s) \in Nat /\ <<x>>[1] = x
        /\ <<x>> \o s \in Seq(Int)
    BY ConcatProperties
  <1>2. /\ Len(<<x>> \o s) = Len(s) + 1
        /\ \A i \in 1 .. 1 + Len(s) : (<<x>> \o s)[i] = IF i <= 1 THEN <<x>>[i] ELSE s[i - 1]
    BY <1>1, ConcatProperties
  <1>3. \A i \in 1 .. Len(s) : i + 1 \in 1 .. 1 + Len(s) /\ ~(i + 1 <= 1) /\ (i + 1) - 1 = i
    BY <1>1
  <1>4. (<<x>> \o s)[1] = x /\ \A i \in 1 .. Len(s) : (<<x>> \o s)[i + 1] = s[i]
    BY <1>1, <1>2, <1>3
  <1>5. <<x>> \o s # <<>>
    BY <1>1, <1>2
  <1>6. /\ Len(Tail(<<x>> \o s)) = Len(s) /\ Tail(<<x>> \o s) \in Seq(Int)
        /\ \A i \in 1 .. Len(s) : Tail(<<x>> \o s)[i] = (<<x>> \o s)[i + 1]
    BY <1>1, <1>2, <1>5, HeadTailProperties
  <1>7. Tail(<<x>> \o s) = s
    BY <1>1, <1>4, <1>6, SeqEqual
  <1>8. QED
    BY <1>1, <1>2, <1>4, <1>5, <1>7

LEMMA Associative ==
    ASSUME NEW r \in Seq(Int), NEW s \in Seq(Int), NEW u \in Seq(Int)
    PROVE  (r \o s) \o u = r \o (s \o u)
  BY ConcatAssociative

LEMMA ConsUnique ==
    ASSUME NEW x \in Int, NEW s \in Seq(Int), NEW u \in Seq(Int), Len(u) = Len(s) + 1,
           u[1] = x, \A i \in 1 .. Len(s) : u[i + 1] = s[i]
    PROVE  u = <<x>> \o s
  <1>1. /\ <<x>> \o s \in Seq(Int) /\ Len(<<x>> \o s) = Len(u) /\ Len(s) \in Nat
        /\ (<<x>> \o s)[1] = x /\ \A i \in 1 .. Len(s) : (<<x>> \o s)[i + 1] = s[i]
    BY ConsParts
  <1>2. ASSUME NEW i \in 1 .. Len(u) PROVE u[i] = (<<x>> \o s)[i]
    <2>1. CASE i = 1
      BY <1>1, <2>1
    <2>2. CASE i # 1
      <3>1. i - 1 \in 1 .. Len(s) /\ (i - 1) + 1 = i
        BY <1>1, <2>2
      <3>2. QED
        BY <1>1, <3>1
    <2>3. QED
      BY <2>1, <2>2
  <1>3. QED
    BY <1>1, <1>2, SeqEqual

\* The queue of BoundedFifo: what a dequeue has read and not yet accounted for,
\* then the items from the head on.
Contents == InHand \o Unread

\* Contents as the owner sees it at place l: r is its ret, d, h and c are
\* data_, head_ and count_.
Skip(l) == IF l = "head" THEN 1 ELSE 0
Left(l, c) == IF l \in {"head", "down"} THEN c - 1 ELSE c
Rest(l, d, h, c) == [i \in 1 .. Left(l, c) |-> d[Wrap(h + Skip(l) + i - 1)]]
Held(l, r) == IF l \in {"take", "head", "down"} THEN r ELSE <<>>

\* The items from the head on are items of the ring.
LEMMA RestIsSeq ==
    ASSUME TypeOK, NEW l \in Labels, l \in {"take", "head", "down"} => count_ > 0
    PROVE  /\ Rest(l, data_, head_, count_) \in Seq(Int)
           /\ Len(Rest(l, data_, head_, count_)) = Left(l, count_)
           /\ \A i \in 1 .. Left(l, count_) :
                 Rest(l, data_, head_, count_)[i] = data_[Wrap(head_ + Skip(l) + i - 1)]
  <1>1. Left(l, count_) \in 0 .. Capacity /\ Skip(l) + Left(l, count_) <= Capacity
    BY QueueAssumption DEF TypeOK, Left, Skip
  <1>2. ASSUME NEW i \in 1 .. Left(l, count_)
        PROVE  data_[Wrap(head_ + Skip(l) + i - 1)] \in Int
    <2>1. Wrap(head_ + Skip(l) + i - 1) \in Slots
      BY <1>1, QueueAssumption DEF TypeOK, Wrap, Skip, Slots
    <2>2. data_[Wrap(head_ + Skip(l) + i - 1)] \in Items \cup {NoItem}
      BY <2>1 DEF TypeOK
    <2>3. \A x \in Items : x \in Int
      BY QueueAssumption
    <2>4. QED
      BY <2>2, <2>3 DEF NoItem
  <1>3. QED
    BY <1>1, <1>2, QueueAssumption DEF Rest

\* With an owner at l the contents are what it holds and the rest; with nobody
\* inside they are the items of the ring.
OwnerView == \A t \in Threads :
    Inside(t) => Contents = Held(pc[t], ret[t]) \o Rest(pc[t], data_, head_, count_)
FreeView == (\A t \in Threads : pc[t] \notin {"take", "head", "down"}) =>
                Contents = Rest("idle", data_, head_, count_)

LEMMA ContentsAt == IInv => OwnerView
  <1> SUFFICES ASSUME IInv, NEW t \in Threads, Inside(t)
               PROVE  Contents = Held(pc[t], ret[t]) \o Rest(pc[t], data_, head_, count_)
    BY DEF OwnerView
  <1>1. \A l \in {"take", "head", "down"} : At(l) <=> pc[t] = l
    BY OwnerAt DEF IInv
  <1>2. mtx_ = t
    BY DEF IInv, MutualExclusion
  <1>3. InHand = Held(pc[t], ret[t])
    BY <1>1, <1>2 DEF InHand, Held, At
  <1>4. Unread = Rest(pc[t], data_, head_, count_)
    BY <1>1 DEF Unread, Rest, Left, Skip
  <1>5. QED
    BY <1>3, <1>4 DEF Contents

LEMMA ContentsFree == IInv => FreeView
  <1> SUFFICES ASSUME IInv, \A t \in Threads : pc[t] \notin {"take", "head", "down"}
               PROVE  Contents = Rest("idle", data_, head_, count_)
    BY DEF FreeView
  <1>1. InHand = <<>>
    BY DEF InHand
  <1>2. Unread = Rest("idle", data_, head_, count_)
    BY DEF Unread, Rest, Left, Skip, At
  <1>3. Rest("idle", data_, head_, count_) \in Seq(Int)
    BY RestIsSeq DEF IInv, Labels
  <1>4. QED
    BY <1>1, <1>2, <1>3 DEF Contents

\* Both views, before and after a step.
LEMMA Views == QInv /\ QInv' => OwnerView /\ OwnerView' /\ FreeView /\ FreeView'
  <1>1. QInv => IInv
    BY DEF QInv
  <1>2. QED
    BY <1>1, ContentsAt, ContentsFree, PTL

LEMMA ContentsIsSeq == QInv => Contents \in Seq(Int)
  <1> SUFFICES ASSUME QInv PROVE Contents \in Seq(Int)
    OBVIOUS
  <1>1. TypeOK /\ OwnerView /\ FreeView
    BY ContentsAt, ContentsFree DEF QInv, IInv
  <1>2. CASE \E t \in Threads : pc[t] \in {"take", "head", "down"}
    <2>1. PICK t \in Threads : pc[t] \in {"take", "head", "down"}
      BY <1>2
    <2>2. Contents = ret[t] \o Rest(pc[t], data_, head_, count_)
      BY <1>1, <2>1 DEF OwnerView, Inside, Held
    <2>3. Rest(pc[t], data_, head_, count_) \in Seq(Int)
      BY <1>1, <2>1, RestIsSeq DEF Labels, QInv, IInv, RingInv
    <2>4. ret[t] \in Seq(Int)
      BY <1>1 DEF TypeOK
    <2>5. QED
      BY <2>2, <2>3, <2>4
  <1>3. CASE \A t \in Threads : pc[t] \notin {"take", "head", "down"}
    <2>1. Rest("idle", data_, head_, count_) \in Seq(Int)
      BY <1>1, RestIsSeq DEF Labels
    <2>2. QED
      BY <1>1, <1>3, <2>1 DEF FreeView
  <1>4. QED
    BY <1>2, <1>3

\* The owner is at none of the places of a dequeue: the contents are the count_
\* items of the ring.
LEMMA NoneHeld ==
    ASSUME QInv, NEW t \in Threads, Inside(t), pc[t] \notin {"take", "head", "down"}
    PROVE  /\ Contents = Rest("idle", data_, head_, count_)
           /\ Len(Contents) = count_
           /\ \A i \in 1 .. count_ : Contents[i] = data_[Wrap(head_ + i - 1)]
  <1>1. \A u \in Threads : pc[u] \notin {"take", "head", "down"}
    BY OthersOutside DEF QInv
  <1>2. Contents = Rest("idle", data_, head_, count_)
    BY <1>1, ContentsFree DEF QInv, FreeView
  <1>3. Left("idle", count_) = count_ /\ head_ + Skip("idle") = head_
    BY QueueAssumption DEF Left, Skip, QInv, IInv, TypeOK, Slots
  <1>4. /\ Len(Rest("idle", data_, head_, count_)) = count_
        /\ \A i \in 1 .. count_ : Rest("idle", data_, head_, count_)[i] = data_[Wrap(head_ + i - 1)]
    BY <1>3, RestIsSeq DEF QInv, IInv, Labels
  <1>5. QED
    BY <1>2, <1>4

\* A step that leaves the ring and whoever is in the middle of a dequeue alone
\* leaves the contents alone.
LEMMA KeepContents ==
    ASSUME QInv, QInv', UNCHANGED <<data_, head_, count_>>,
           \A u \in Threads : pc[u] \in {"take", "head", "down"} =>
                                 pc'[u] = pc[u] /\ ret'[u] = ret[u],
           \A u \in Threads : pc'[u] \in {"take", "head", "down"} =>
                                 pc[u] \in {"take", "head", "down"}
    PROVE  Contents' = Contents
  <1>1. OwnerView /\ OwnerView' /\ FreeView /\ FreeView'
    BY Views
  <1>2. CASE \E t \in Threads : pc[t] \in {"take", "head", "down"}
    <2>1. PICK t \in Threads : pc[t] \in {"take", "head", "down"}
      BY <1>2
    <2>2. Contents = Held(pc[t], ret[t]) \o Rest(pc[t], data_, head_, count_)
      BY <1>1, <2>1 DEF OwnerView, Inside
    <2>3. Contents' = Held(pc'[t], ret'[t]) \o Rest(pc'[t], data_', head_', count_')
      BY <1>1, <2>1 DEF OwnerView, Inside
    <2>4. QED
      BY <2>1, <2>2, <2>3
  <1>3. CASE \A t \in Threads : pc[t] \notin {"take", "head", "down"}
    BY <1>1, <1>3 DEF FreeView
  <1>4. QED
    BY <1>2, <1>3

\* In particular a call that begins, a query, and whatever happens outside.
LEMMA OutsideContents ==
    ASSUME QInv, QInv', UNCHANGED vars \/ \E t \in Threads : Query(t) \/ \E o, x : Call(t, o, x)
    PROVE  Contents' = Contents
  <1>1. UNCHANGED <<data_, head_, count_>>
    BY DEF vars, ring, Query, Call
  <1>2. TypeOK
    BY DEF QInv, IInv
  <1>3. CASE UNCHANGED vars \/ \E t \in Threads : Query(t)
    <2>1. UNCHANGED <<pc, ret>>
      BY <1>3 DEF vars, Query
    <2>2. QED
      BY <1>1, <2>1, KeepContents
  <1>4. ASSUME NEW t \in Threads, \E o, x : Call(t, o, x) PROVE Contents' = Contents
    <2>1. /\ pc[t] = "idle" /\ pc' = [pc EXCEPT ![t] = "lock"]
          /\ ret' = [ret EXCEPT ![t] = <<>>]
      BY <1>4 DEF Call, Goto, Answer
    <2>2. /\ pc'[t] = "lock"
          /\ \A u \in Threads : u # t => pc'[u] = pc[u] /\ ret'[u] = ret[u]
      BY <1>2, <2>1 DEF TypeOK
    <2>3. QED
      BY <1>1, <2>1, <2>2, KeepContents
  <1>5. QED
    BY <1>3, <1>4

\* A step of the owner as the contents see it.
LEMMA OwnerContents ==
    ASSUME QInv, QInv', NEW t \in Threads, Inside(t), UNCHANGED mtx_,
           NEW l, l \notin {"idle", "lock"}, pc' = [pc EXCEPT ![t] = l]
    PROVE  /\ Contents = Held(pc[t], ret[t]) \o Rest(pc[t], data_, head_, count_)
           /\ Contents' = Held(l, ret'[t]) \o Rest(l, data_', head_', count_')
  <1>1. OwnerView /\ OwnerView'
    BY Views
  <1>2. pc'[t] = l
    BY OwnerStep DEF QInv
  <1>3. QED
    BY <1>1, <1>2 DEF OwnerView, Inside

\* enqueue: the item stored behind the last one becomes the last one.
LEMMA CountUpContents ==
    ASSUME QInv, QInv', NEW t \in Threads, CountUp(t)
    PROVE  /\ Len(Contents) < Capacity
           /\ Contents' = Append(Contents, arg[t])
  <1>1. /\ Inside(t) /\ pc[t] = "up" /\ pc' = [pc EXCEPT ![t] = "exit"]
        /\ UNCHANGED <<data_, head_, mtx_>> /\ count_' = count_ + 1
    BY DEF CountUp, Inside, Goto
  <1>2. /\ Len(Contents) = count_ /\ Contents \in Seq(Int)
        /\ \A i \in 1 .. count_ : Contents[i] = data_[Wrap(head_ + i - 1)]
    BY <1>1, NoneHeld, ContentsIsSeq
  <1>3. count_ < Capacity /\ data_[Wrap(head_ + count_)] = arg[t]
    BY <1>1, RingBefore DEF QInv, RetInv
  <1>4. Contents' = Rest("idle", data_, head_, count_ + 1)
    <2>1. FreeView'
      BY Views
    <2>2. \A u \in Threads : pc'[u] \notin {"take", "head", "down"}
      BY <1>1, OwnerStep DEF QInv
    <2>3. QED
      BY <1>1, <2>1, <2>2 DEF FreeView
  <1>5. head_ \in Int /\ count_ \in Nat
    BY QueueAssumption DEF QInv, IInv, TypeOK, Slots
  <1>6. \A i \in 1 .. count_ + 1 : head_ + Skip("idle") + i - 1 = head_ + i - 1
    BY <1>5 DEF Skip
  <1>7. Contents' = [i \in 1 .. count_ + 1 |-> data_[Wrap(head_ + i - 1)]]
    BY <1>4, <1>6 DEF Rest, Left
  <1>8. (count_ + 1) - 1 = count_ /\ head_ + (count_ + 1) - 1 = head_ + count_
    BY <1>5
  <1>9. QED
    BY <1>2, <1>3, <1>5, <1>7, <1>8

\* Slots before the end of the contents are not the one enqueue stores to.
LEMMA StoreContents ==
    ASSUME QInv, QInv', NEW t \in Threads, StoreItem(t)
    PROVE  Contents' = Contents
  <1>1. /\ Inside(t) /\ pc[t] = "store" /\ pc' = [pc EXCEPT ![t] = "tail"]
        /\ UNCHANGED <<head_, count_, mtx_>> /\ data_' = [data_ EXCEPT ![tail_] = arg[t]]
    BY DEF StoreItem, Inside, Goto
  <1>2. Contents = Rest("idle", data_, head_, count_)
    BY <1>1, NoneHeld
  <1>3. Contents' = Rest("idle", data_', head_, count_)
    <2>1. FreeView'
      BY Views
    <2>2. \A u \in Threads : pc'[u] \notin {"take", "head", "down"}
      BY <1>1, OwnerStep DEF QInv
    <2>3. QED
      BY <1>1, <2>1, <2>2 DEF FreeView
  <1>4. /\ count_ \in Nat /\ count_ < Capacity /\ Capacity \in Nat
        /\ tail_ = Wrap(head_ + count_) /\ head_ \in Slots
    <2>1. Skew("store") = 0 /\ count_ \in Nat /\ count_ + 0 = count_ /\ Capacity \in Nat
      BY QueueAssumption DEF Skew, QInv, IInv, TypeOK
    <2>2. count_ < Capacity /\ tail_ = Wrap(head_ + count_)
      BY <1>1, <2>1, RingBefore DEF QInv
    <2>3. QED
      BY <2>1, <2>2 DEF QInv, IInv, TypeOK, Slots
  <1>5. ASSUME NEW i \in 1 .. count_
        PROVE  data_'[Wrap(head_ + 0 + i - 1)] = data_[Wrap(head_ + 0 + i - 1)]
    <2>1. Wrap(head_ + 0 + i - 1) \in Slots /\ Wrap(head_ + 0 + i - 1) # tail_
      BY <1>4 DEF Wrap, Slots
    <2>2. data_ \in [Slots -> Items \cup {NoItem}]
      BY DEF QInv, IInv, TypeOK
    <2>3. QED
      BY <1>1, <2>1, <2>2
  <1>6. QED
    BY <1>2, <1>3, <1>5 DEF Rest, Left, Skip

LEMMA TakeContents ==
    ASSUME QInv, QInv', NEW t \in Threads, TakeItem(t)
    PROVE  Contents' = Contents
  <1> DEFINE x == data_[head_]
             r == Rest("head", data_, head_, count_)
  <1>1. /\ Inside(t) /\ pc[t] = "take" /\ pc' = [pc EXCEPT ![t] = "head"]
        /\ UNCHANGED <<data_, head_, count_, mtx_>> /\ ret' = [ret EXCEPT ![t] = Append(ret[t], x)]
    BY DEF TakeItem, Inside, Goto, Answer, ring
  <1>2. TypeOK /\ count_ > 0
    BY <1>1, RingBefore DEF QInv, IInv
  <1>3. /\ Contents = ret[t] \o Rest("take", data_, head_, count_)
        /\ Contents' = Append(ret[t], x) \o r
    BY <1>1, <1>2, OwnerContents DEF Held, TypeOK
  <1>4. /\ x \in Int /\ r \in Seq(Int) /\ ret[t] \in Seq(Int)
        /\ Len(r) = count_ - 1 /\ \A i \in 1 .. count_ - 1 : r[i] = data_[Wrap(head_ + 1 + i - 1)]
    BY <1>1, <1>2, HeadIsItem, RestIsSeq DEF QInv, Labels, Left, Skip, TypeOK
  <1>5. Rest("take", data_, head_, count_) = <<x>> \o r
    <2>1. /\ Rest("take", data_, head_, count_) \in Seq(Int)
          /\ Len(Rest("take", data_, head_, count_)) = count_
          /\ \A i \in 1 .. count_ :
                Rest("take", data_, head_, count_)[i] = data_[Wrap(head_ + 0 + i - 1)]
      BY <1>2, RestIsSeq DEF Labels, Left, Skip
    <2>2. count_ \in Nat /\ head_ \in Nat /\ head_ < Capacity
      BY <1>2, QueueAssumption DEF TypeOK, Slots
    <2>3. Wrap(head_ + 0 + 1 - 1) = head_
      BY <2>2 DEF Wrap
    <2>4. \A i \in 1 .. count_ - 1 : head_ + 0 + (i + 1) - 1 = head_ + 1 + i - 1
      BY <2>2
    <2>5. /\ Rest("take", data_, head_, count_)[1] = x
          /\ \A i \in 1 .. count_ - 1 : Rest("take", data_, head_, count_)[i + 1] = r[i]
      <3>1. 1 \in 1 .. count_ /\ \A i \in 1 .. count_ - 1 : i + 1 \in 1 .. count_
        BY <1>2, <2>2
      <3>2. QED
        BY <1>4, <2>1, <2>3, <2>4, <3>1
    <2>6. QED
      BY <1>2, <1>4, <2>1, <2>2, <2>5, ConsUnique
  <1>6. Append(ret[t], x) \o r = ret[t] \o (<<x>> \o r)
    <2>1. <<x>> \in Seq(Int) /\ Append(ret[t], x) = ret[t] \o <<x>>
      BY <1>4, AppendIsConcat
    <2>2. (ret[t] \o <<x>>) \o r = ret[t] \o (<<x>> \o r)
      BY <1>4, <2>1, Associative
    <2>3. QED
      BY <2>1, <2>2
  <1>7. QED
    BY <1>3, <1>5, <1>6

LEMMA AdvanceHeadContents ==
    ASSUME QInv, QInv', NEW t \in Threads, AdvanceHead(t)
    PROVE  Contents' = Contents
  <1>1. /\ Inside(t) /\ pc[t] = "head" /\ pc' = [pc EXCEPT ![t] = "down"]
        /\ UNCHANGED <<data_, count_, mtx_, ret>> /\ head_' = (head_ + 1) % Capacity
    BY DEF AdvanceHead, Inside, Goto
  <1>2. TypeOK /\ count_ > 0
    BY <1>1, RingBefore DEF QInv, IInv
  <1>3. /\ Contents = ret[t] \o Rest("head", data_, head_, count_)
        /\ Contents' = ret[t] \o Rest("down", data_, head_', count_)
    BY <1>1, OwnerContents DEF Held
  <1>4. /\ head_ \in 0 .. Capacity - 1 /\ count_ \in 0 .. Capacity /\ Capacity \in Nat
        /\ head_' = Wrap(head_ + 1)
    BY <1>1, <1>2, QueueAssumption, ModSucc DEF TypeOK, Slots
  <1>5. \A i \in 1 .. count_ - 1 : Wrap(head_' + 0 + i - 1) = Wrap(head_ + 1 + i - 1)
    BY <1>2, <1>4 DEF Wrap
  <1>6. Rest("down", data_, head_', count_) = Rest("head", data_, head_, count_)
    BY <1>5 DEF Rest, Left, Skip
  <1>7. QED
    BY <1>3, <1>6

\* A dequeue's last step: a single dequeue has read the first item and takes it
\* out, a drain goes on or has read them all.
LEMMA CountDownContents ==
    ASSUME QInv, QInv', NEW t \in Threads, CountDown(t)
    PROVE  \/ Contents' = Contents /\ pc' = [pc EXCEPT ![t] = "take"]
           \/ /\ pc' = [pc EXCEPT ![t] = "exit"]
              /\ op[t] \in Removing /\ Contents # <<>>
              /\ ret[t] = <<Head(Contents)>> /\ Contents' = Tail(Contents)
           \/ /\ pc' = [pc EXCEPT ![t] = "exit"]
              /\ op[t] \in Draining /\ ret[t] = Contents /\ Contents' = <<>> /\ Contents # <<>>
  <1> DEFINE r == Rest("down", data_, head_, count_)
  <1>1. /\ Inside(t) /\ pc[t] = "down" /\ count_' = count_ - 1
        /\ UNCHANGED <<data_, head_, mtx_, ret, op>>
    BY DEF CountDown, Inside, frame
  <1>2. TypeOK /\ count_ > 0 /\ count_ \in Nat /\ head_ \in Int
    BY <1>1, RingBefore, QueueAssumption DEF QInv, IInv, TypeOK, Slots
  <1>3. r \in Seq(Int) /\ Len(r) = count_ - 1 /\ ret[t] \in Seq(Int)
    BY <1>2, RestIsSeq DEF Labels, Left, TypeOK
  <1>4. CASE pc' = [pc EXCEPT ![t] = "take"]
    <2>1. /\ Contents = ret[t] \o r
          /\ Contents' = ret[t] \o Rest("take", data_, head_, count_ - 1)
      BY <1>1, <1>4, OwnerContents DEF Held
    <2>2. Rest("take", data_, head_, count_ - 1) = r
      BY DEF Rest, Left, Skip
    <2>3. QED
      BY <1>4, <2>1, <2>2
  <1>5. CASE pc' = [pc EXCEPT ![t] = "exit"] /\ ~(op[t] \in Draining /\ count_' # 0)
    <2>1. Contents = ret[t] \o r
      BY <1>1, <1>5, OwnerContents DEF Held
    <2>2. Contents' = Rest("idle", data_, head_, count_ - 1)
      <3>1. FreeView'
        BY Views
      <3>2. \A u \in Threads : pc'[u] \notin {"take", "head", "down"}
        BY <1>1, <1>5, OwnerStep DEF QInv
      <3>3. QED
        BY <1>1, <3>1, <3>2 DEF FreeView
    <2>3. Contents' = r
      BY <2>2 DEF Rest, Left, Skip
    <2>4. CASE op[t] \in Removing
      <3>1. Len(ret[t]) = 1
        BY <1>1, <2>4 DEF QInv, RetInv
      <3>2. PICK y \in Int : ret[t] = <<y>>
        <4>1. ret[t][1] \in Int /\ ret[t] = <<ret[t][1]>>
          BY <1>3, <3>1
        <4>2. QED
          BY <4>1
      <3>3. /\ Contents # <<>> /\ Head(Contents) = y /\ Tail(Contents) = r
        <4>1. Contents = <<y>> \o r
          BY <2>1, <3>2
        <4>2. QED
          BY <1>3, <4>1, ConsParts
      <3>4. QED
        BY <1>5, <2>3, <2>4, <3>2, <3>3
    <2>5. CASE op[t] \in Draining
      <3>1. r = <<>>
        BY <1>1, <1>2, <1>3, <1>5, <2>5
      <3>2. Contents = ret[t]
        BY <1>3, <2>1, <3>1
      <3>3. ret[t] # <<>>
        BY <1>1 DEF QInv, RetInv
      <3>4. QED
        BY <1>5, <2>3, <2>5, <3>1, <3>2, <3>3
    <2>6. QED
      BY <1>1, <2>4, <2>5 DEF QInv, OpInv, Dequeues
  <1>6. QED
    BY <1>4, <1>5 DEF CountDown, Goto

\* The first test of an operation moves no item.
LEMMA TestContents ==
    ASSUME QInv, QInv', NEW t \in Threads, EnqueueTest(t) \/ DequeueTest(t)
    PROVE  Contents' = Contents /\ Len(Contents) = count_ /\ count_ \in Nat /\ ret[t] = <<>>
  <1>1. /\ TypeOK /\ pc[t] = "body" /\ Inside(t) /\ ret[t] = <<>>
        /\ UNCHANGED <<data_, head_, count_, mtx_>>
    BY DEF EnqueueTest, DequeueTest, Inside, ring, QInv, IInv, RetInv
  <1>2. Contents = Rest("idle", data_, head_, count_) /\ Len(Contents) = count_
    BY <1>1, NoneHeld
  <1>3. count_ \in Nat
    BY <1>1, QueueAssumption DEF TypeOK
  <1>4. CASE pc' = [pc EXCEPT ![t] = "take"] /\ UNCHANGED ret
    <2>1. Contents' = <<>> \o Rest("take", data_, head_, count_)
      BY <1>1, <1>4, OwnerContents DEF Held
    <2>2. Rest("take", data_, head_, count_) = Rest("idle", data_, head_, count_)
      BY DEF Rest, Left, Skip
    <2>3. <<>> \o Contents = Contents
      BY ContentsIsSeq
    <2>4. QED
      BY <1>1, <1>2, <1>3, <2>1, <2>2, <2>3
  <1>5. ASSUME NEW l, l \in {"exit", "store", "sleep"}, pc' = [pc EXCEPT ![t] = l]
        PROVE  Contents' = Contents
    <2>1. pc'[t] = l /\ \A u \in Threads : u # t => pc'[u] = pc[u]
      BY <1>1, <1>5 DEF TypeOK
    <2>2. \A u \in Threads : pc[u] \notin {"take", "head", "down"}
      BY <1>1, OthersOutside DEF QInv
    <2>3. QED
      BY <1>1, <1>5, <2>1, <2>2, KeepContents
  <1>6. QED
    BY <1>1, <1>2, <1>3, <1>4, <1>5 DEF EnqueueTest, DequeueTest, Goto

\* Nor do the steps that only move cursors, the mutex or a place.
LEMMA QuietContents ==
    ASSUME QInv, QInv', NEW t \in Threads,
           \/ Acquire(t) \/ StoreItem(t) \/ AdvanceTail(t) \/ WakeUp(t)
           \/ TakeItem(t) \/ AdvanceHead(t) \/ Release(t)
    PROVE  Contents' = Contents
  <1>1. TypeOK
    BY DEF QInv, IInv
  <1>2. CASE Acquire(t) \/ AdvanceTail(t) \/ WakeUp(t) \/ Release(t)
    <2>1. UNCHANGED <<data_, head_, count_, ret>> /\ pc[t] \in {"lock", "tail", "sleep", "exit"}
      BY <1>2 DEF Acquire, AdvanceTail, WakeUp, Release, ring
    <2>2. PICK l \in {"body", "up", "idle"} : pc' = [pc EXCEPT ![t] = l]
      BY <1>2 DEF Acquire, AdvanceTail, WakeUp, Release, Goto
    <2>3. pc'[t] = l /\ \A u \in Threads : u # t => pc'[u] = pc[u]
      BY <1>1, <2>2 DEF TypeOK
    <2>4. QED
      BY <2>1, <2>3, KeepContents
  <1>3. QED
    BY <1>2, StoreContents, TakeContents, AdvanceHeadContents

-----------------------------------------------------------------------------
\* The other variables of BoundedFifo, and how a step of thread t to place l
\* with result r shows in them.
PhaseAt(l) == IF l \in {"idle", "exit"} THEN IF l = "idle" THEN "idle" ELSE "done" ELSE "called"
AnswerAt(l, r) == IF l \in {"idle", "exit"} THEN r ELSE <<>>
Phase == [t \in Threads |-> IF pc[t] \in {"idle", "exit"}
                            THEN IF pc[t] = "idle" THEN "idle" ELSE "done"
                            ELSE "called"]
Request == [t \in Threads |-> <<op[t], arg[t]>>]
Answers == [t \in Threads |-> IF pc[t] \in {"idle", "exit"} THEN ret[t] ELSE <<>>]

LEMMA PlaceStep ==
    ASSUME TypeOK, NEW t \in Threads, NEW l, pc' = [pc EXCEPT ![t] = l],
           NEW r, ret' = [ret EXCEPT ![t] = r]
    PROVE  /\ Phase' = [Phase EXCEPT ![t] = PhaseAt(l)]
           /\ Answers' = [Answers EXCEPT ![t] = AnswerAt(l, r)]
           /\ Phase[t] = PhaseAt(pc[t]) /\ Answers[t] = AnswerAt(pc[t], ret[t])
  <1>1. /\ pc'[t] = l /\ ret'[t] = r
        /\ \A u \in Threads : u # t => pc'[u] = pc[u] /\ ret'[u] = ret[u]
    BY DEF TypeOK
  <1>2. Phase' = [Phase EXCEPT ![t] = PhaseAt(l)]
    BY <1>1 DEF Phase, PhaseAt
  <1>3. Answers' = [Answers EXCEPT ![t] = AnswerAt(l, r)]
    BY <1>1 DEF Answers, AnswerAt
  <1>4. Phase[t] = PhaseAt(pc[t]) /\ Answers[t] = AnswerAt(pc[t], ret[t])
    BY DEF Phase, PhaseAt, Answers, AnswerAt
  <1>5. QED
    BY <1>2, <1>3, <1>4

LEMMA Stutters ==
    ASSUME Contents' = Contents, Phase' = Phase, Request' = Request, Answers' = Answers
    PROVE  UNCHANGED Fifo!vars
  BY DEF Contents, Phase, Request, Answers, Fifo!vars

\* A step of t from one place inside its call to another, nothing returned.
LEMMA InnerStep ==
    ASSUME TypeOK, NEW t \in Threads, pc[t] \notin {"idle", "exit"},
           NEW l, l \notin {"idle", "exit"}, pc' = [pc EXCEPT ![t] = l],
           NEW r, ret' = [ret EXCEPT ![t] = r], UNCHANGED <<op, arg>>, Contents' = Contents
    PROVE  UNCHANGED Fifo!vars
  <1>1. Phase' = [Phase EXCEPT ![t] = Phase[t]] /\ Answers' = [Answers EXCEPT ![t] = Answers[t]]
    BY PlaceStep DEF PhaseAt, AnswerAt
  <1>2. Phase' = Phase /\ Answers' = Answers
    BY <1>1 DEF Phase, Answers
  <1>3. Request' = Request
    BY DEF Request
  <1>4. QED
    BY <1>2, <1>3, Stutters

\* The step with which t's operation takes effect.
Effects(t) == /\ Phase[t] = "called" /\ Phase' = [Phase EXCEPT ![t] = "done"]
              /\ Request[t] = <<op[t], arg[t]>> /\ Request' = Request
              /\ Answers' = [Answers EXCEPT ![t] = ret'[t]]

LEMMA EffectStep ==
    ASSUME TypeOK, NEW t \in Threads, pc[t] \notin {"idle", "exit"},
           pc' = [pc EXCEPT ![t] = "exit"],
           NEW r, ret' = [ret EXCEPT ![t] = r], UNCHANGED <<op, arg>>
    PROVE  Effects(t) /\ ret'[t] = r
  <1>1. /\ Phase' = [Phase EXCEPT ![t] = "done"] /\ Answers' = [Answers EXCEPT ![t] = r]
        /\ Phase[t] = "called"
    BY PlaceStep DEF PhaseAt, AnswerAt
  <1>2. Request' = Request /\ Request[t] = <<op[t], arg[t]>>
    BY DEF Request
  <1>3. ret'[t] = r
    BY DEF TypeOK
  <1>4. QED
    BY <1>1, <1>2, <1>3 DEF Effects

\* The step with which a call begins.
LEMMA StartShows ==
    ASSUME TypeOK, NEW t \in Threads, pc[t] = "idle", pc' = [pc EXCEPT ![t] = "lock"],
           ret' = [ret EXCEPT ![t] = <<>>]
    PROVE  /\ Phase' = [Phase EXCEPT ![t] = "called"] /\ Answers' = [Answers EXCEPT ![t] = <<>>]
           /\ Phase[t] = "idle"
  <1>1. /\ Phase' = [Phase EXCEPT ![t] = PhaseAt("lock")]
        /\ Answers' = [Answers EXCEPT ![t] = AnswerAt("lock", <<>>)]
        /\ Phase[t] = PhaseAt(pc[t])
    <2>1. ASSUME NEW r, ret' = [ret EXCEPT ![t] = r]
          PROVE  /\ Phase' = [Phase EXCEPT ![t] = PhaseAt("lock")]
                 /\ Answers' = [Answers EXCEPT ![t] = AnswerAt("lock", r)]
                 /\ Phase[t] = PhaseAt(pc[t]) /\ Answers[t] = AnswerAt(pc[t], ret[t])
      BY <2>1, PlaceStep
    <2>2. QED
      BY <2>1
  <1>2. PhaseAt("lock") = "called" /\ AnswerAt("lock", <<>>) = <<>> /\ PhaseAt("idle") = "idle"
    BY DEF PhaseAt, AnswerAt
  <1>3. QED
    BY <1>1, <1>2

LEMMA CallSimulates == ASSUME QInv, QInv', NEW t \in Threads, AnyCall(t) PROVE Fifo!Call(t)
  <1>1. PICK o \in Calls[t] \cap LockedOps, x \in Items \cup {NoItem} : Call(t, o, x)
    BY DEF AnyCall
  <1>2. /\ pc[t] = "idle" /\ pc' = [pc EXCEPT ![t] = "lock"] /\ ret' = [ret EXCEPT ![t] = <<>>]
        /\ op' = [op EXCEPT ![t] = o] /\ arg' = [arg EXCEPT ![t] = x]
        /\ UNCHANGED <<data_, head_, count_>>
    BY <1>1 DEF Call, Goto, Answer, ring
  <1>3. TypeOK
    BY DEF QInv, IInv
  <1>4. /\ Phase' = [Phase EXCEPT ![t] = "called"] /\ Answers' = [Answers EXCEPT ![t] = <<>>]
        /\ Phase[t] = "idle"
    BY <1>2, <1>3, StartShows
  <1>5. Request' = [Request EXCEPT ![t] = <<o, x>>]
    BY <1>2, <1>3 DEF Request, TypeOK
  <1>6. Contents' = Contents
    BY <1>2, <1>3, KeepContents DEF TypeOK
  <1>7. o \in Fifo!Ops /\ x \in Items \cup {Fifo!NoItem}
    BY DEF Fifo!Ops, Fifo!Removing, Fifo!Draining, Fifo!NoItem, LockedOps, Dequeues, Removing,
           Draining, NoItem
  <1>8. QED
    BY <1>4, <1>5, <1>6, <1>7 DEF Fifo!Call, Contents, Phase, Request, Answers

LEMMA ReleaseSimulates ==
    ASSUME QInv, QInv', NEW t \in Threads, Release(t) PROVE Fifo!Return(t)
  <1>1. /\ pc[t] = "exit" /\ pc' = [pc EXCEPT ![t] = "idle"]
        /\ UNCHANGED <<data_, head_, count_, op, arg, ret>>
    BY DEF Release, Goto, ring, frame
  <1>2. TypeOK
    BY DEF QInv, IInv
  <1>3. Contents' = Contents
    BY QuietContents
  <1>4. ret' = [ret EXCEPT ![t] = ret[t]]
    BY <1>1, <1>2 DEF TypeOK
  <1>5. /\ Phase' = [Phase EXCEPT ![t] = "idle"] /\ Answers' = [Answers EXCEPT ![t] = Answers[t]]
        /\ Phase[t] = "done"
    <2>1. /\ Phase' = [Phase EXCEPT ![t] = PhaseAt("idle")]
          /\ Answers' = [Answers EXCEPT ![t] = AnswerAt("idle", ret[t])]
          /\ Phase[t] = PhaseAt(pc[t]) /\ Answers[t] = AnswerAt(pc[t], ret[t])
      BY <1>1, <1>2, <1>4, PlaceStep
    <2>2. /\ PhaseAt("idle") = "idle" /\ PhaseAt("exit") = "done"
          /\ AnswerAt("idle", ret[t]) = AnswerAt("exit", ret[t])
      BY DEF PhaseAt, AnswerAt
    <2>3. QED
      BY <1>1, <2>1, <2>2
  <1>6. Answers' = Answers
    BY <1>5 DEF Answers
  <1>7. Request' = Request
    BY <1>1 DEF Request
  <1>8. QED
    BY <1>3, <1>5, <1>6, <1>7 DEF Fifo!Return, Contents, Phase, Request, Answers

\* The steps inside a call that have not yet taken effect are stutters.
LEMMA InsideStutters ==
    ASSUME QInv, QInv', NEW t \in Threads,
           \/ Acquire(t) \/ StoreItem(t) \/ AdvanceTail(t) \/ WakeUp(t)
           \/ TakeItem(t) \/ AdvanceHead(t)
    PROVE  UNCHANGED Fifo!vars
  <1>1. TypeOK /\ Contents' = Contents /\ ret = [ret EXCEPT ![t] = ret[t]]
    BY QuietContents DEF QInv, IInv, TypeOK
  <1>2. pc[t] \notin {"idle", "exit"} /\ UNCHANGED <<op, arg>>
    BY DEF Acquire, StoreItem, AdvanceTail, WakeUp, TakeItem, AdvanceHead, frame
  <1>3. PICK l \in {"body", "tail", "up", "head", "down"} : pc' = [pc EXCEPT ![t] = l]
    BY DEF Acquire, StoreItem, AdvanceTail, WakeUp, TakeItem, AdvanceHead, Goto
  <1>4. PICK r : ret' = [ret EXCEPT ![t] = r]
    BY <1>1 DEF Acquire, StoreItem, AdvanceTail, WakeUp, TakeItem, AdvanceHead, Answer
  <1>5. QED
    BY <1>1, <1>2, <1>3, <1>4, InnerStep

\* A query touches nothing the abstract queue has.
LEMMA QueryStutters == ASSUME NEW t \in Threads, Query(t) PROVE UNCHANGED Fifo!vars
  <1>1. UNCHANGED <<data_, head_, count_, mtx_, pc, op, arg, ret>>
    BY DEF Query, ring, frame
  <1>2. Contents' = Contents /\ Phase' = Phase /\ Request' = Request /\ Answers' = Answers
    BY <1>1 DEF Contents, InHand, Unread, At, Wrap, Phase, Request, Answers
  <1>3. QED
    BY <1>2, Stutters

\* The two names of Removing, Draining and Blocking are the same sets.
LEMMA SameOps == /\ Fifo!Removing = Removing /\ Fifo!Draining = Draining
                 /\ Fifo!Blocking = Blocking /\ Fifo!NoItem = NoItem
  BY DEF Fifo!Removing, Fifo!Draining, Fifo!Blocking, Fifo!NoItem, Removing, Draining,
         Blocking, NoItem

\* enqueue takes effect when it finds the queue full or when it counts up.
LEMMA EnqueueSimulates ==
    ASSUME QInv, QInv', NEW t \in Threads
    PROVE  /\ CountUp(t) => Fifo!Enqueue(t)
           /\ EnqueueTest(t) => Fifo!Enqueue(t) \/ UNCHANGED Fifo!vars
  <1>1. TypeOK
    BY DEF QInv, IInv
  <1>2. Request[t][2] = arg[t]
    BY DEF Request
  <1>3. ASSUME CountUp(t) PROVE Fifo!Enqueue(t)
    <2>1. /\ pc[t] = "up" /\ pc' = [pc EXCEPT ![t] = "exit"] /\ UNCHANGED <<op, arg>>
          /\ ret' = [ret EXCEPT ![t] = <<1>>]
      BY <1>3 DEF CountUp, Goto, Answer, frame
    <2>2. op[t] = "enqueue"
      BY <2>1 DEF QInv, OpInv
    <2>3. ASSUME NEW r, r = << 1 >> PROVE Effects(t) /\ ret'[t] = r
      <3>1. ret' = [ret EXCEPT ![t] = r]
        BY <2>1, <2>3
      <3>2. QED
        BY <1>1, <2>1, <3>1, EffectStep
    <2>4. Len(Contents) < Capacity /\ Contents' = Append(Contents, Request[t][2])
      BY <1>2, <1>3, CountUpContents
    <2>5. QED
      BY <2>2, <2>3, <2>4 DEF Effects, Fifo!Enqueue, Fifo!Effect, Contents, Phase, Request, Answers
  <1>4. ASSUME EnqueueTest(t) PROVE Fifo!Enqueue(t) \/ UNCHANGED Fifo!vars
    <2>1. /\ pc[t] = "body" /\ op[t] = "enqueue" /\ Inside(t)
          /\ UNCHANGED <<data_, head_, count_, op, arg>>
      BY <1>4 DEF EnqueueTest, Inside, ring, frame
    <2>2. Contents' = Contents /\ Len(Contents) = count_
      BY <1>4, TestContents
    <2>3. CASE isFull /\ pc' = [pc EXCEPT ![t] = "exit"] /\ ret' = [ret EXCEPT ![t] = <<0>>]
      <3>1. ASSUME NEW r, r = << 0 >> PROVE Effects(t) /\ ret'[t] = r
        <4>1. ret' = [ret EXCEPT ![t] = r]
          BY <2>3, <3>1
        <4>2. QED
          BY <1>1, <2>1, <2>3, <4>1, EffectStep
      <3>2. Len(Contents) = Capacity
        BY <2>2, <2>3 DEF isFull
      <3>3. QED
        BY <2>1, <2>2, <3>1, <3>2
           DEF Effects, Fifo!Enqueue, Fifo!Effect, Contents, Phase, Request, Answers
    <2>4. CASE pc' = [pc EXCEPT ![t] = "store"] /\ UNCHANGED ret
      <3>1. ret' = [ret EXCEPT ![t] = ret[t]]
        BY <1>1, <2>4 DEF TypeOK
      <3>2. QED
        BY <1>1, <2>1, <2>2, <2>4, <3>1, InnerStep
    <2>5. QED
      BY <1>4, <2>3, <2>4 DEF EnqueueTest, Goto, Answer
  <1>5. QED
    BY <1>3, <1>4

\* A dequeue takes effect when it finds the queue empty and does not wait, or
\* when it counts the last item it takes down.
LEMMA DequeueTestSimulates ==
    ASSUME QInv, QInv', NEW t \in Threads, DequeueTest(t)
    PROVE  Fifo!Dequeue(t) \/ Fifo!DequeueAll(t) \/ UNCHANGED Fifo!vars
  <1>1. TypeOK
    BY DEF QInv, IInv
  <1>2. /\ pc[t] = "body" /\ UNCHANGED <<op, arg>> /\ ret = [ret EXCEPT ![t] = ret[t]]
        /\ Contents' = Contents /\ Len(Contents) = count_ /\ Contents \in Seq(Int)
    BY <1>1, TestContents, ContentsIsSeq DEF DequeueTest, frame, TypeOK
  <1>3. CASE UNCHANGED ret /\ \E l \in {"take", "sleep"} : pc' = [pc EXCEPT ![t] = l]
    BY <1>1, <1>2, <1>3, InnerStep
  <1>4. ASSUME isEmpty, pc' = [pc EXCEPT ![t] = "exit"], NEW r, ret' = [ret EXCEPT ![t] = r]
        PROVE  Contents = <<>> /\ Contents' = <<>> /\ Effects(t) /\ ret'[t] = r
    <2>1. Contents = <<>>
      BY <1>2, <1>4 DEF isEmpty
    <2>2. Effects(t) /\ ret'[t] = r
      BY <1>1, <1>2, <1>4, EffectStep
    <2>3. QED
      BY <1>2, <2>1, <2>2
  <1>5. CASE /\ isEmpty /\ op[t] = "dequeueNotBlock" /\ pc' = [pc EXCEPT ![t] = "exit"]
             /\ ret' = [ret EXCEPT ![t] = <<NoItem>>]
    <2>1. Contents = <<>> /\ Contents' = <<>> /\ Effects(t) /\ ret'[t] = <<NoItem>>
      BY <1>4, <1>5
    <2>2. "dequeueNotBlock" \in Fifo!Removing /\ "dequeueNotBlock" \notin Fifo!Blocking
      BY DEF Fifo!Removing, Fifo!Blocking
    <2>3. QED
      BY <1>5, <2>1, <2>2, SameOps
         DEF Effects, Fifo!Dequeue, Fifo!Effect, Contents, Phase, Request, Answers
  <1>6. CASE /\ isEmpty /\ op[t] = "dequeueAllNotBlock" /\ pc' = [pc EXCEPT ![t] = "exit"]
             /\ ret' = [ret EXCEPT ![t] = <<>>]
    <2>1. Contents' = <<>> /\ Effects(t) /\ ret'[t] = Contents
      BY <1>4, <1>6
    <2>2. /\ "dequeueAllNotBlock" \in Fifo!Draining
          /\ "dequeueAllNotBlock" \notin Fifo!Blocking
      BY DEF Fifo!Draining, Fifo!Blocking
    <2>3. QED
      BY <1>6, <2>1, <2>2
         DEF Effects, Fifo!DequeueAll, Fifo!Effect, Contents, Phase, Request, Answers
  <1>7. QED
    BY <1>3, <1>5, <1>6 DEF DequeueTest, Goto, Answer

LEMMA CountDownSimulates ==
    ASSUME QInv, QInv', NEW t \in Threads, CountDown(t)
    PROVE  Fifo!Dequeue(t) \/ Fifo!DequeueAll(t) \/ UNCHANGED Fifo!vars
  <1>1. /\ TypeOK /\ pc[t] = "down" /\ UNCHANGED <<op, arg, ret>>
        /\ ret' = [ret EXCEPT ![t] = ret[t]]
    BY DEF CountDown, frame, QInv, IInv, TypeOK
  <1>2. CASE Contents' = Contents /\ pc' = [pc EXCEPT ![t] = "take"]
    BY <1>1, <1>2, InnerStep
  <1>3. ASSUME pc' = [pc EXCEPT ![t] = "exit"]
        PROVE  Effects(t) /\ ret'[t] = ret[t]
    BY <1>1, <1>3, EffectStep
  <1>4. CASE /\ pc' = [pc EXCEPT ![t] = "exit"] /\ op[t] \in Removing /\ Contents # <<>>
             /\ ret[t] = <<Head(Contents)>> /\ Contents' = Tail(Contents)
    <2>1. Effects(t) /\ ret'[t] = <<Head(Contents)>>
      BY <1>3, <1>4
    <2>2. op[t] \in Fifo!Removing
      BY <1>4, SameOps
    <2>3. QED
      BY <1>4, <2>1, <2>2
         DEF Effects, Fifo!Dequeue, Fifo!Effect, Contents, Phase, Request, Answers
  <1>5. CASE /\ pc' = [pc EXCEPT ![t] = "exit"] /\ op[t] \in Draining
             /\ ret[t] = Contents /\ Contents' = <<>> /\ Contents # <<>>
    <2>1. Effects(t) /\ ret'[t] = Contents
      BY <1>3, <1>5
    <2>2. op[t] \in Fifo!Draining
      BY <1>5, SameOps
    <2>3. QED
      BY <1>5, <2>1, <2>2
         DEF Effects, Fifo!DequeueAll, Fifo!Effect, Contents, Phase, Request, Answers
  <1>6. QED
    BY <1>2, <1>4, <1>5, CountDownContents

LEMMA ClearSimulates == ASSUME QInv, QInv', NEW t \in Threads, Clear(t) PROVE Fifo!Clear(t)
  <1>1. /\ TypeOK /\ pc[t] = "body" /\ op[t] = "clear" /\ pc' = [pc EXCEPT ![t] = "exit"]
        /\ count_' = 0 /\ UNCHANGED <<op, arg, ret>> /\ Inside(t) /\ UNCHANGED mtx_
    BY DEF Clear, Goto, frame, QInv, IInv, Inside
  <1>2. ret' = [ret EXCEPT ![t] = ret[t]] /\ ret[t] = <<>>
    BY <1>1 DEF TypeOK, QInv, RetInv
  <1>3. Contents' = <<>>
    <2>1. Contents' = Held("exit", ret'[t]) \o Rest("exit", data_', head_', count_')
      BY <1>1, OwnerContents
    <2>2. Held("exit", ret'[t]) = <<>> /\ Rest("exit", data_', head_', count_') = <<>>
      BY <1>1 DEF Held, Rest, Left
    <2>3. QED
      BY <2>1, <2>2
  <1>4. Effects(t) /\ ret'[t] = <<>>
    BY <1>1, <1>2, EffectStep
  <1>5. QED
    BY <1>1, <1>3, <1>4 DEF Effects, Fifo!Clear, Fifo!Effect, Contents, Phase, Request, Answers

LEMMA StepSimulates == QInv /\ QInv' /\ [Next]_vars => [Fifo!Next]_(Fifo!vars)
  <1> SUFFICES ASSUME QInv, QInv', [Next]_vars PROVE [Fifo!Next]_(Fifo!vars)
    OBVIOUS
  <1>1. CASE UNCHANGED vars
    <2>1. Contents' = Contents /\ Phase' = Phase /\ Request' = Request /\ Answers' = Answers
      BY <1>1 DEF vars, ring, frame, Contents, InHand, Unread, At, Wrap, Phase, Request, Answers
    <2>2. QED
      BY <2>1, Stutters
  <1>2. ASSUME NEW t \in Threads, Query(t) PROVE UNCHANGED Fifo!vars
    BY <1>2, QueryStutters
  <1>3. ASSUME NEW t \in Threads, AnyCall(t) \/ Acquire(t)
        PROVE  Fifo!Call(t) \/ UNCHANGED Fifo!vars
    BY <1>3, CallSimulates, InsideStutters
  <1>4. ASSUME NEW t \in Threads, Body(t)
        PROVE  \/ Fifo!Return(t) \/ Fifo!Enqueue(t) \/ Fifo!Dequeue(t) \/ Fifo!DequeueAll(t)
               \/ Fifo!Clear(t) \/ UNCHANGED Fifo!vars
    BY <1>4, EnqueueSimulates, DequeueTestSimulates, CountDownSimulates, ClearSimulates,
       ReleaseSimulates, InsideStutters DEF Body
  <1>5. QED
    BY <1>1, <1>2, <1>3, <1>4 DEF Next, Fifo!Next

LEMMA InitSimulates == Init => Fifo!Init
  <1> SUFFICES ASSUME Init PROVE Fifo!Init
    OBVIOUS
  <1>1. IInv /\ count_ = 0 /\ \A t \in Threads : pc[t] = "idle"
    BY InitInv DEF Init
  <1>2. Contents = <<>>
    <2>1. Contents = Rest("idle", data_, head_, count_)
      BY <1>1, ContentsFree DEF FreeView
    <2>2. QED
      BY <1>1, <2>1 DEF Rest, Left
  <1>3. Phase = [t \in Threads |-> "idle"] /\ Answers = [t \in Threads |-> <<>>]
    BY <1>1 DEF Phase, Answers, Init
  <1>4. Request = [t \in Threads |-> <<"clear", Fifo!NoItem>>]
    BY SameOps DEF Request, Init
  <1>5. QED
    BY <1>2, <1>3, <1>4 DEF Fifo!Init, Contents, Phase, Request, Answers

\* Every operation of CdrawQueue takes effect at one instant between its call
\* and its return, as if the queue were the first-in first-out queue of
\* BoundedFifo: for any number of threads, any items and any capacity.
THEOREM Refinement == Spec => Linearizable
  BY InitSimulates, StepSimulates, QueueInvariant, PTL DEF Spec, Linearizable, Fifo!Spec

-----------------------------------------------------------------------------
\* QueryTrusted is inductive with the sleep of the poll loop added: the caller
\* comes back from there to the loop's test.
SeenInv ==
    \A t \in Threads : pc[t] \in {"idle", "lock", "body", "sleep"} =>
       /\ seen[t] = "notEmpty" /\ Removers \subseteq {t} => count_ > 0
       /\ seen[t] = "notFull" /\ Adders \subseteq {t} => count_ < Capacity

\* A step of u that changes neither count_ nor seen and leaves u where SeenInv
\* speaks of it only if it was there before.
LEMMA SeenKept ==
    ASSUME QInv, SeenInv, NEW u \in Threads, UNCHANGED <<count_, seen>>,
           NEW l, pc' = [pc EXCEPT ![u] = l],
           l \in {"idle", "lock", "body", "sleep"} => pc[u] \in {"idle", "lock", "body", "sleep"}
    PROVE  SeenInv'
  <1>1. pc'[u] = l /\ \A t \in Threads : t # u => pc'[t] = pc[t]
    BY DEF QInv, IInv, TypeOK
  <1>2. QED
    BY <1>1 DEF SeenInv

\* The steps that change count_: only an adder raises it, only a remover lowers
\* it, and the thread itself is then past the places SeenInv speaks of.
LEMMA SeenCounted ==
    ASSUME QInv, SeenInv, NEW u \in Threads, CountUp(u) \/ CountDown(u) \/ Clear(u)
    PROVE  SeenInv'
  <1>1. TypeOK /\ count_ \in Nat /\ Capacity \in Nat
    BY QueueAssumption DEF QInv, IInv, TypeOK
  <1>2. \A t \in Threads : t # u => pc'[t] = pc[t]
    BY <1>1 DEF CountUp, CountDown, Clear, Goto, TypeOK
  <1>3. pc'[u] \notin {"idle", "lock", "body", "sleep"} /\ UNCHANGED seen
    BY <1>1 DEF CountUp, CountDown, Clear, Goto, TypeOK
  <1>4. op[u] \in Calls[u]
    BY DEF QInv, OpInv, CountUp, CountDown, Clear
  <1>5. CASE CountUp(u)
    <2>1. count_' = count_ + 1 /\ op[u] = "enqueue"
      BY <1>5 DEF CountUp, QInv, OpInv
    <2>2. \A t \in Threads : Adders \subseteq {t} => t = u
      BY <1>4, <2>1 DEF Adders
    <2>3. QED
      BY <1>1, <1>2, <1>3, <2>1, <2>2 DEF SeenInv
  <1>6. CASE CountDown(u) \/ Clear(u)
    <2>1. op[u] \in Dequeues \cup {"clear"}
      BY <1>6 DEF CountDown, Clear, QInv, OpInv
    <2>2. \A t \in Threads : Removers \subseteq {t} => t = u
      BY <1>4, <2>1 DEF Removers
    <2>3. count_ < Capacity => count_' < Capacity
      BY <1>1, <1>6 DEF CountDown, Clear
    <2>4. QED
      BY <1>1, <1>2, <1>3, <2>2, <2>3 DEF SeenInv
  <1>7. QED
    BY <1>5, <1>6

LEMMA SeenStep == ASSUME QInv, SeenInv, [Next]_vars PROVE SeenInv'
  <1>1. TypeOK /\ count_ \in Nat /\ Capacity \in Nat /\ count_ <= Capacity
    BY QueueAssumption DEF QInv, IInv, TypeOK
  <1>2. CASE UNCHANGED vars
    BY <1>2 DEF SeenInv, vars, ring
  <1>3. ASSUME NEW u \in Threads, Query(u) PROVE SeenInv'
    <2>1. UNCHANGED <<count_, pc>>
      BY <1>3 DEF Query, ring
    <2>2. /\ \A t \in Threads : t # u => seen'[t] = seen[t]
          /\ seen'[u] = "notEmpty" => count_ > 0
          /\ seen'[u] = "notFull" => count_ < Capacity
      BY <1>1, <1>3 DEF Query, TypeOK, isEmpty, isFull
    <2>3. QED
      BY <2>1, <2>2 DEF SeenInv
  <1>4. ASSUME NEW u \in Threads, AnyCall(u) \/ Acquire(u) PROVE SeenInv'
    <2>1. UNCHANGED <<count_, seen>> /\ pc[u] \in {"idle", "lock"}
      BY <1>4 DEF AnyCall, Call, Acquire, ring
    <2>2. PICK l : pc' = [pc EXCEPT ![u] = l]
      BY <1>4 DEF AnyCall, Call, Acquire, Goto
    <2>3. QED
      BY <2>1, <2>2, SeenKept
  <1>5. ASSUME NEW u \in Threads, Body(u) PROVE SeenInv'
    <2>1. CASE CountUp(u) \/ CountDown(u) \/ Clear(u)
      BY <2>1, SeenCounted
    <2>2. CASE Release(u)
      <3>1. /\ UNCHANGED count_ /\ seen'[u] = "nothing"
            /\ \A t \in Threads : t # u => pc'[t] = pc[t] /\ seen'[t] = seen[t]
        BY <1>1, <2>2 DEF Release, Goto, ring, TypeOK
      <3>2. QED
        BY <3>1 DEF SeenInv
    <2>3. CASE EnqueueTest(u) \/ DequeueTest(u) \/ WakeUp(u)
      <3>1. UNCHANGED <<count_, seen>> /\ pc[u] \in {"body", "sleep"}
        BY <2>3 DEF EnqueueTest, DequeueTest, WakeUp, ring
      <3>2. PICK l : pc' = [pc EXCEPT ![u] = l]
        BY <2>3 DEF EnqueueTest, DequeueTest, WakeUp, Goto
      <3>3. QED
        BY <3>1, <3>2, SeenKept
    <2>4. CASE StoreItem(u) \/ AdvanceTail(u) \/ TakeItem(u) \/ AdvanceHead(u)
      <3>1. UNCHANGED <<count_, seen>>
        BY <2>4 DEF StoreItem, AdvanceTail, TakeItem, AdvanceHead, ring
      <3>2. PICK l \in {"tail", "up", "head", "down"} : pc' = [pc EXCEPT ![u] = l]
        BY <2>4 DEF StoreItem, AdvanceTail, TakeItem, AdvanceHead, Goto
      <3>3. QED
        BY <3>1, <3>2, SeenKept
    <2>5. QED
      BY <1>5, <2>1, <2>2, <2>3, <2>4 DEF Body
  <1>6. QED
    BY <1>2, <1>3, <1>4, <1>5 DEF Next

\* isEmpty and isFull read count_ without the mutex; the answer "not empty" stays
\* true for a thread that is the only one to remove, "not full" for a thread
\* that is the only one to add, until the thread's next operation takes effect.
THEOREM QueryStaysTrue == Spec => []QueryTrusted
  <1>1. Init => SeenInv
    BY DEF Init, SeenInv
  <1>2. QInv /\ SeenInv /\ [Next]_vars => SeenInv'
    BY SeenStep
  <1>3. SeenInv => QueryTrusted
    BY DEF SeenInv, QueryTrusted
  <1>4. QED
    BY <1>1, <1>2, <1>3, QueueInvariant, PTL DEF Spec

-----------------------------------------------------------------------------
\* What the pumps need to know of a queue they use: how a step inside it moves
\* items, when nobody clears it.
Moves(t) ==
    \/ /\ pc[t] = "up" /\ pc'[t] = "exit" /\ op[t] = "enqueue"
       /\ ret'[t] = <<1>> /\ Contents' = Append(Contents, arg[t])
    \/ /\ pc[t] = "body" /\ pc'[t] = "exit" /\ op[t] = "enqueue"
       /\ ret'[t] = <<0>> /\ Contents' = Contents
    \/ /\ pc[t] = "down" /\ pc'[t] = "exit" /\ op[t] \in Removing /\ Contents # <<>>
       /\ ret'[t] = <<Head(Contents)>> /\ Contents' = Tail(Contents)
    \/ /\ pc[t] = "down" /\ pc'[t] = "exit" /\ op[t] \in Draining
       /\ ret'[t] = Contents /\ Contents' = <<>>
    \/ /\ pc[t] = "body" /\ pc'[t] = "exit" /\ op[t] \in Dequeues \ Blocking
       /\ Contents' = Contents
       /\ ret'[t] = IF op[t] = "dequeueNotBlock" THEN <<NoItem>> ELSE <<>>
    \/ pc[t] = "exit" /\ pc'[t] = "idle" /\ ret'[t] = ret[t] /\ Contents' = Contents
    \/ /\ pc[t] \notin {"idle", "exit", "up"} /\ pc'[t] \notin {"idle", "exit"}
       /\ Contents' = Contents /\ (op[t] = "enqueue" => ret'[t] = <<>>)

LEMMA StepMoves ==
    ASSUME QInv, QInv', NEW t \in Threads, Acquire(t) \/ Body(t), op[t] # "clear"
    PROVE  /\ Moves(t) /\ UNCHANGED <<op, arg>>
           /\ \A u \in Threads : u # t => pc'[u] = pc[u] /\ ret'[u] = ret[u]
  <1>1. TypeOK
    BY DEF QInv, IInv
  <1>2. /\ UNCHANGED <<op, arg>>
        /\ \A u \in Threads : u # t => pc'[u] = pc[u] /\ ret'[u] = ret[u]
    BY <1>1 DEF Acquire, Body, EnqueueTest, StoreItem, AdvanceTail, CountUp, DequeueTest, WakeUp,
       TakeItem, AdvanceHead, CountDown, Clear, Release, Goto, Answer, frame, TypeOK
  <1>3. Moves(t)
    <2>1. CASE CountUp(t)
      BY <1>1, <2>1, CountUpContents DEF CountUp, Goto, Answer, TypeOK, QInv, OpInv, Moves
    <2>2. CASE EnqueueTest(t)
      BY <1>1, <2>2, TestContents DEF EnqueueTest, Goto, Answer, TypeOK, Moves
    <2>3. CASE DequeueTest(t)
      <3>1. Contents' = Contents /\ pc[t] = "body" /\ op[t] \in Dequeues /\ op[t] # "enqueue"
        BY <2>3, TestContents DEF DequeueTest, Dequeues, Removing, Draining
      <3>2. CASE pc'[t] \in {"take", "sleep"}
        BY <3>1, <3>2 DEF Moves
      <3>3. CASE pc' = [pc EXCEPT ![t] = "exit"]
        BY <1>1, <2>3, <3>1, <3>3 DEF DequeueTest, Answer, Goto, TypeOK, Blocking, Moves
      <3>4. QED
        BY <1>1, <2>3, <3>2, <3>3 DEF DequeueTest, Goto, TypeOK
    <2>4. CASE CountDown(t)
      <3>1. pc[t] = "down" /\ ret'[t] = ret[t] /\ op[t] # "enqueue"
        BY <2>4 DEF CountDown, QInv, OpInv, Dequeues, Removing, Draining
      <3>2. QED
        BY <1>1, <2>4, <3>1, CountDownContents DEF TypeOK, Moves
    <2>5. CASE Release(t)
      BY <1>1, <2>5, QuietContents DEF Release, Goto, TypeOK, Moves
    <2>6. CASE \/ Acquire(t) \/ StoreItem(t) \/ AdvanceTail(t) \/ WakeUp(t)
               \/ TakeItem(t) \/ AdvanceHead(t)
      <3>1. Contents' = Contents
        BY <2>6, QuietContents
      <3>2. pc[t] \notin {"idle", "exit", "up"} /\ pc'[t] \notin {"idle", "exit"}
        BY <1>1, <2>6 DEF Acquire, StoreItem, AdvanceTail, WakeUp, TakeItem, AdvanceHead, Goto,
           TypeOK
      <3>3. op[t] = "enqueue" => ret'[t] = <<>>
        BY <1>1, <2>6 DEF Acquire, StoreItem, AdvanceTail, WakeUp, TakeItem, AdvanceHead, QInv,
           OpInv, RetInv, Dequeues, Removing, Draining, Blocking
      <3>4. QED
        BY <3>1, <3>2, <3>3 DEF Moves
    <2>7. CASE Clear(t)
      BY <2>7 DEF Clear
    <2>8. QED
      BY <2>1, <2>2, <2>3, <2>4, <2>5, <2>6, <2>7 DEF Body
  <1>4. QED
    BY <1>2, <1>3
=============================================================================
