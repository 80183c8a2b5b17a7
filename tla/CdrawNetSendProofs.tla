-------------------------- MODULE CdrawNetSendProofs --------------------------
(***************************************************************************)
(* Proofs about the send pump and the queue it uses, for any number of     *)
(* producers and items, any capacity, package size and counter width.      *)
(***************************************************************************)
EXTENDS CdrawNetSend, CdrawQueueProofs, FiniteSetTheorems

LEMMA Who == /\ Pump \in Threads /\ Pump \notin Producers /\ Producers \subseteq Threads
             /\ \A t \in Threads : t # Pump => t \in Producers
             /\ "enqueue" \in LockedOps /\ "dequeueBlock" \in LockedOps
             /\ \A p \in Producers : "enqueue" \in Calls[p] \cap LockedOps
             /\ "dequeueBlock" \in Calls[Pump] \cap LockedOps
  BY SendAssumption DEF LockedOps, Dequeues, Removing, Draining

-----------------------------------------------------------------------------
\* The queue below is used as CdrawQueue's specification says, so that whatever
\* is proved of CdrawQueue holds here.
MadeInRange == made \in 0 .. MaxItems

LEMMA MadeStep == MadeInRange /\ [SendNext]_allVars => MadeInRange'
  BY SendAssumption DEF MadeInRange, SendNext, allVars, history, Produce, QueueStep,
     setIsWork, PumpStep, Start, Ask, Take, Nap, Send, Look

LEMMA StepBelow == MadeInRange /\ [SendNext]_allVars => [Next]_vars
  <1> SUFFICES ASSUME MadeInRange, [SendNext]_allVars PROVE [Next]_vars
    OBVIOUS
  <1>1. ASSUME NEW t \in Producers, Produce(t) PROVE Next
    <2>1. made + 1 \in Items /\ Call(t, "enqueue", made + 1)
      BY <1>1, SendAssumption DEF Produce, MadeInRange
    <2>2. AnyCall(t)
      BY <2>1, Who DEF AnyCall
    <2>3. QED
      BY <2>2, Who DEF Next
  <1>2. CASE Ask
    <2>1. AnyCall(Pump)
      BY <1>2, Who DEF Ask, AnyCall
    <2>2. QED
      BY <2>1, Who DEF Next
  <1>3. ASSUME NEW t \in Producers, Look(t) PROVE Next
    BY <1>3, Who DEF Look, Next
  <1>4. ASSUME NEW t \in Threads, QueueStep(t) PROVE Next
    BY <1>4 DEF QueueStep, Next
  <1>5. CASE \/ UNCHANGED allVars \/ \E b \in Settings : setIsWork(b)
             \/ Start \/ Take \/ Nap \/ Send
    BY <1>5 DEF allVars, setIsWork, Start, Take, Nap, Send
  <1>6. QED
    BY <1>1, <1>2, <1>3, <1>4, <1>5 DEF SendNext, PumpStep

\* Producers, pump and setIsWork together make the queue behave as CdrawQueue.
THEOREM QueueBelow == SendSpec => Spec
  <1>1. SendInit => Init /\ MadeInRange
    BY SendAssumption DEF SendInit, MadeInRange
  <1>2. QED
    BY <1>1, MadeStep, StepBelow, PTL DEF SendSpec, Spec

LEMMA QueueBelowInv == SendSpec => []QInv
  BY QueueBelow, QueueInvariant, PTL

-----------------------------------------------------------------------------
\* After the read of is_work_ there is one send at most, and a new read before
\* the next: late is 0 whenever is_work_ is true and whenever the pump is about
\* to send.
LateInv == /\ late \in {0, 1}
           /\ is_work_ \/ pump \in {"test", "start"} => late = 0

\* Whatever is asked of setIsWork and whenever, at most one item goes out after
\* the pump was told to stop (CdrawNet.cc:96-105).
THEOREM StopsInTime == SendSpec => []StopsSoon
  <1>1. SendInit => LateInv
    BY DEF SendInit, LateInv
  <1>2. LateInv /\ [SendNext]_allVars => LateInv'
    <2> SUFFICES ASSUME LateInv, [SendNext]_allVars PROVE LateInv'
      OBVIOUS
    <2>1. CASE UNCHANGED allVars
      BY <2>1 DEF LateInv, allVars, control
    <2>2. ASSUME NEW t \in Threads, Produce(t) \/ Look(t) \/ QueueStep(t) PROVE LateInv'
      BY <2>2 DEF LateInv, Produce, Look, QueueStep, control
    <2>3. ASSUME NEW b \in Settings, setIsWork(b) PROVE LateInv'
      BY <2>3 DEF LateInv, setIsWork
    <2>4. CASE Start \/ Ask \/ Take \/ Nap
      BY <2>4 DEF LateInv, Start, Ask, Take, Nap, control
    <2>5. CASE Send
      BY <2>5 DEF LateInv, Send, control
    <2>6. QED
      BY <2>1, <2>2, <2>3, <2>4, <2>5, Who DEF SendNext, PumpStep
  <1>3. LateInv => StopsSoon
    BY DEF LateInv, StopsSoon
  <1>4. QED
    BY <1>1, <1>2, <1>3, PTL DEF SendSpec

-----------------------------------------------------------------------------
\* The pump's own variables are in their types, every call is the one its
\* caller makes, and the pump is in the queue only when it waits there.
SendTyping == /\ is_work_ \in BOOLEAN /\ isWork \in BOOLEAN
              /\ pump \in {"start", "ask", "wait", "test", "nap"}
              /\ get_count \in 0 .. CounterMod - 1
              /\ made \in 0 .. MaxItems
              /\ accepted \in Seq(Items) /\ wire \in Seq(Items)
              /\ send_data \in Items \cup {NoItem}
              /\ wish \in {"none", "work", "stop"}

SendTurn == /\ \A p \in Producers : pc[p] # "idle" => op[p] = "enqueue"
            /\ pc[Pump] # "idle" => op[Pump] = "dequeueBlock" /\ pump = "wait"

\* An item is new when its enqueue has not taken effect.
Entering(p) == pc[p] \notin {"idle", "exit"}
SendEntry == /\ \A p \in Producers : Entering(p) =>
                   /\ arg[p] \in 1 .. made
                   /\ \A k \in DOMAIN accepted : accepted[k] # arg[p]
                   /\ \A q \in Producers : q # p /\ Entering(q) => arg[q] # arg[p]
             /\ \A k \in DOMAIN accepted : accepted[k] \in 1 .. made
             /\ IsInjective(accepted)

\* The first Taken items that enqueue accepted have left the queue, the others
\* are in it; the one the pump has in its hand is the last that left.
Taken == Len(accepted) - Len(Contents)
Holding == pump = "test" \/ (pump = "wait" /\ pc[Pump] \in {"idle", "exit"})
Hand == IF pump = "test" THEN send_data ELSE Head(ret[Pump])
SendFlow == /\ Taken >= 0
            /\ \A i \in 1 .. Len(Contents) : Contents[i] = accepted[Taken + i]
            /\ Holding => Taken > 0 /\ Hand = accepted[Taken]

\* What is on the wire left the queue before what is in the hand.
Past == IF Holding THEN Taken - 1 ELSE Taken
SendWire == /\ \A i \in DOMAIN wire : \E k \in 1 .. Past : wire[i] = accepted[k]
            /\ \A i, j \in DOMAIN wire : i < j =>
                  \E k, l \in DOMAIN accepted :
                     k < l /\ wire[i] = accepted[k] /\ wire[j] = accepted[l]

SendInv == SendTyping /\ SendTurn /\ SendEntry /\ SendFlow /\ SendWire

LEMMA SendInitInv == SendInit => SendInv
  <1> SUFFICES ASSUME SendInit PROVE SendInv
    OBVIOUS
  <1>1. Init /\ QInv
    BY QInitInv DEF SendInit
  <1>2. Contents = <<>>
    <2>1. Contents = Rest("idle", data_, head_, count_)
      BY <1>1, ContentsFree DEF FreeView, QInv, Init
    <2>2. QED
      BY <1>1, <2>1 DEF Rest, Left, Init
  <1>3. SendTyping
    BY SendAssumption DEF SendInit, SendTyping
  <1>4. SendTurn
    BY <1>1, Who DEF SendTurn, Init
  <1>5. SendEntry
    BY <1>1, Who DEF SendEntry, Entering, Init, SendInit, IsInjective
  <1>6. SendFlow /\ SendWire
    BY <1>1, <1>2 DEF SendFlow, SendWire, Taken, Holding, SendInit
  <1>7. QED
    BY <1>3, <1>4, <1>5, <1>6 DEF SendInv

\* The pump goes on with what it has, or lets it go; nothing enters or leaves.
LEMMA FlowStays ==
    ASSUME SendFlow, SendWire, UNCHANGED <<Contents, accepted, wire>>,
           Holding' => Holding /\ Hand' = Hand, Taken \in Int
    PROVE  SendFlow' /\ SendWire'
  <1>1. Taken' = Taken /\ Past <= Past'
    BY DEF Taken, Past
  <1>2. SendFlow'
    BY <1>1 DEF SendFlow
  <1>3. SendWire'
    BY <1>1 DEF SendWire, Past
  <1>4. QED
    BY <1>2, <1>3

\* enqueue takes effect.
LEMMA FlowIn ==
    ASSUME SendFlow, SendWire, accepted \in Seq(Items), Contents \in Seq(Int),
           NEW x \in Items, x \in Int,
           accepted' = Append(accepted, x), Contents' = Append(Contents, x), UNCHANGED wire,
           Holding' <=> Holding, Hand' = Hand
    PROVE  SendFlow' /\ SendWire'
  <1>1. /\ Len(accepted') = Len(accepted) + 1 /\ accepted'[Len(accepted) + 1] = x
        /\ \A k \in 1 .. Len(accepted) : accepted'[k] = accepted[k]
        /\ DOMAIN accepted = 1 .. Len(accepted) /\ DOMAIN accepted' = 1 .. Len(accepted) + 1
        /\ Len(accepted) \in Nat
    OBVIOUS
  <1>2. /\ Len(Contents') = Len(Contents) + 1 /\ Contents'[Len(Contents) + 1] = x
        /\ \A k \in 1 .. Len(Contents) : Contents'[k] = Contents[k]
        /\ Len(Contents) \in Nat
    OBVIOUS
  <1>3. Taken' = Taken /\ Taken \in Int /\ Taken + Len(Contents) = Len(accepted)
    BY <1>1, <1>2 DEF Taken
  <1>4. SendFlow'
    <2>1. ASSUME NEW i \in 1 .. Len(Contents) + 1 PROVE Contents'[i] = accepted'[Taken + i]
      <3>1. CASE i = Len(Contents) + 1
        BY <1>1, <1>2, <1>3, <3>1
      <3>2. CASE i # Len(Contents) + 1
        <4>1. i \in 1 .. Len(Contents) /\ Taken + i \in 1 .. Len(accepted)
          BY <1>2, <1>3, <3>2 DEF SendFlow
        <4>2. QED
          BY <1>1, <1>2, <4>1 DEF SendFlow
      <3>3. QED
        BY <3>1, <3>2
    <2>2. Holding => Taken \in 1 .. Len(accepted)
      BY <1>2, <1>3 DEF SendFlow
    <2>3. QED
      BY <1>1, <1>2, <1>3, <2>1, <2>2 DEF SendFlow
  <1>5. SendWire'
    <2>1. Past' = Past /\ \A k \in 1 .. Past : k \in 1 .. Len(accepted)
      BY <1>1, <1>2, <1>3 DEF Past
    <2>2. QED
      BY <1>1, <2>1 DEF SendWire
  <1>6. QED
    BY <1>4, <1>5

\* The pump's dequeue takes effect.
LEMMA FlowOut ==
    ASSUME SendFlow, SendWire, accepted \in Seq(Items), Contents \in Seq(Int),
           UNCHANGED <<accepted, wire>>, ~Holding,
           Contents # <<>>, Contents' = Tail(Contents), Holding', Hand' = Head(Contents)
    PROVE  SendFlow' /\ SendWire'
  <1>1. /\ Len(Contents) \in Nat /\ Len(Contents) > 0 /\ Len(Contents') = Len(Contents) - 1
        /\ \A i \in 1 .. Len(Contents) - 1 : Contents'[i] = Contents[i + 1]
        /\ Head(Contents) = Contents[1] /\ Len(accepted) \in Nat
    BY HeadTailProperties
  <1>2. Taken' = Taken + 1 /\ Taken \in Int
    BY <1>1 DEF Taken
  <1>3. SendFlow'
    <2>1. ASSUME NEW i \in 1 .. Len(Contents) - 1 PROVE Contents'[i] = accepted[Taken + 1 + i]
      <3>1. i + 1 \in 1 .. Len(Contents) /\ Taken + (i + 1) = Taken + 1 + i
        BY <1>1, <1>2
      <3>2. QED
        BY <1>1, <3>1 DEF SendFlow
    <2>2. Hand' = accepted[Taken + 1] /\ Taken + 1 > 0
      BY <1>1, <1>2 DEF SendFlow
    <2>3. QED
      BY <1>1, <1>2, <2>1, <2>2 DEF SendFlow
  <1>4. SendWire'
    <2>1. Past' = Past
      BY <1>2 DEF Past
    <2>2. QED
      BY <2>1 DEF SendWire
  <1>5. QED
    BY <1>3, <1>4

\* The item in the hand goes out.
LEMMA FlowSent ==
    ASSUME SendFlow, SendWire, accepted \in Seq(Items), wire \in Seq(Items),
           Contents \in Seq(Int), Hand \in Items,
           UNCHANGED <<accepted, Contents>>, Holding, ~Holding', wire' = Append(wire, Hand)
    PROVE  SendFlow' /\ SendWire'
  <1>1. PICK n \in Nat :
           /\ Len(Contents) \in Nat /\ Len(accepted) \in Nat
           /\ DOMAIN accepted = 1 .. Len(accepted)
           /\ DOMAIN wire = 1 .. n /\ DOMAIN wire' = 1 .. n + 1
           /\ wire'[n + 1] = Hand /\ \A i \in 1 .. n : wire'[i] = wire[i]
    <2>1. /\ Len(wire) \in Nat
          /\ DOMAIN wire = 1 .. Len(wire) /\ DOMAIN wire' = 1 .. Len(wire) + 1
          /\ wire'[Len(wire) + 1] = Hand /\ \A i \in 1 .. Len(wire) : wire'[i] = wire[i]
      OBVIOUS
    <2>2. /\ Len(Contents) \in Nat /\ Len(accepted) \in Nat
          /\ DOMAIN accepted = 1 .. Len(accepted)
      OBVIOUS
    <2>3. QED
      BY <2>1, <2>2
  <1>2. Taken' = Taken /\ Taken \in 1 .. Len(accepted) /\ Hand = accepted[Taken]
    BY <1>1 DEF Taken, SendFlow
  <1>3. Past = Taken - 1 /\ Past' = Taken
    BY <1>2 DEF Past
  <1>4. SendFlow'
    BY <1>2 DEF SendFlow
  <1>5. ASSUME NEW i \in 1 .. n + 1
        PROVE  \E k \in 1 .. Taken : wire'[i] = accepted[k] /\ (i < n + 1 => k < Taken)
    <2>1. CASE i = n + 1
      BY <1>1, <1>2, <2>1
    <2>2. CASE i # n + 1
      <3>1. i \in 1 .. n
        BY <1>1, <2>2
      <3>2. PICK k \in 1 .. Taken - 1 : wire[i] = accepted[k]
        BY <1>1, <1>3, <3>1 DEF SendWire
      <3>3. k \in 1 .. Taken /\ k < Taken
        BY <1>2
      <3>4. QED
        BY <1>1, <3>1, <3>2, <3>3
    <2>3. QED
      BY <2>1, <2>2
  <1>6. ASSUME NEW i \in 1 .. n + 1, NEW j \in 1 .. n + 1, i < j
        PROVE  \E k, l \in DOMAIN accepted :
                  k < l /\ wire'[i] = accepted[k] /\ wire'[j] = accepted[l]
    <2>1. CASE j = n + 1
      <3>1. PICK k \in 1 .. Taken : wire'[i] = accepted[k] /\ k < Taken
        BY <1>5, <1>6, <2>1
      <3>2. k \in DOMAIN accepted /\ Taken \in DOMAIN accepted
        BY <1>1, <1>2
      <3>3. QED
        BY <1>1, <1>2, <2>1, <3>1, <3>2
    <2>2. CASE j # n + 1
      <3>1. i \in 1 .. n /\ j \in 1 .. n
        BY <1>6, <2>2
      <3>2. PICK k \in DOMAIN accepted, l \in DOMAIN accepted :
               k < l /\ wire[i] = accepted[k] /\ wire[j] = accepted[l]
        <4>1. i \in DOMAIN wire /\ j \in DOMAIN wire
          BY <1>1, <3>1
        <4>2. QED
          BY <1>6, <4>1 DEF SendWire
      <3>3. QED
        BY <1>1, <3>1, <3>2
    <2>3. QED
      BY <2>1, <2>2
  <1>7. SendWire'
    <2>1. \A i \in DOMAIN wire' : \E k \in 1 .. Past' : wire'[i] = accepted'[k]
      BY <1>1, <1>3, <1>5
    <2>2. ASSUME NEW i \in DOMAIN wire', NEW j \in DOMAIN wire', i < j
          PROVE  \E k, l \in DOMAIN accepted' :
                    k < l /\ wire'[i] = accepted'[k] /\ wire'[j] = accepted'[l]
      <3>1. i \in 1 .. n + 1 /\ j \in 1 .. n + 1
        BY <1>1
      <3>2. PICK k \in DOMAIN accepted, l \in DOMAIN accepted :
               k < l /\ wire'[i] = accepted[k] /\ wire'[j] = accepted[l]
        BY <1>6, <2>2, <3>1
      <3>3. QED
        BY <3>2
    <2>3. QED
      BY <2>1, <2>2 DEF SendWire
  <1>8. QED
    BY <1>4, <1>7

-----------------------------------------------------------------------------
\* What a step of a thread inside the queue does here: producers only enqueue,
\* the pump only dequeues, and waits if it must.
LEMMA QueueStepMoves ==
    ASSUME SendInv, QInv, QInv', NEW t \in Threads, QueueStep(t)
    PROVE  /\ Moves(t) /\ UNCHANGED <<op, arg>>
           /\ \A u \in Threads : u # t => pc'[u] = pc[u] /\ ret'[u] = ret[u]
           /\ t # Pump => op[t] = "enqueue"
           /\ t = Pump => op[t] = "dequeueBlock" /\ pump = "wait"
           /\ accepted' = IF pc[t] = "up" THEN Append(accepted, arg[t]) ELSE accepted
           /\ UNCHANGED <<is_work_, wish, pump, package_size, isWork, get_count, send_data, made,
                          wire, late>>
  <1>1. pc[t] # "idle" /\ (Acquire(t) \/ Body(t))
    BY DEF QueueStep, Acquire, Body, EnqueueTest, StoreItem, AdvanceTail, CountUp, DequeueTest,
       WakeUp, TakeItem, AdvanceHead, CountDown, Clear, Release
  <1>2. /\ t # Pump => op[t] = "enqueue"
        /\ t = Pump => op[t] = "dequeueBlock" /\ pump = "wait"
    BY <1>1, Who DEF SendInv, SendTurn
  <1>3. op[t] # "clear"
    BY <1>2
  <1>4. QED
    BY <1>1, <1>2, <1>3, StepMoves DEF QueueStep, control, args

\* The two ways in which the queue can be used, as Moves has them.
LEMMA EnqueueMoves ==
    ASSUME NEW t, op[t] = "enqueue", Moves(t)
    PROVE  \/ /\ pc[t] = "up" /\ pc'[t] = "exit" /\ ret'[t] = <<1>>
              /\ Contents' = Append(Contents, arg[t])
           \/ /\ pc[t] # "up" /\ pc[t] # "idle" /\ Contents' = Contents
              /\ pc[t] = "exit" => pc'[t] = "idle"
  BY DEF Moves, Removing, Draining, Dequeues

LEMMA DequeueMoves ==
    ASSUME NEW t, op[t] = "dequeueBlock", Moves(t)
    PROVE  \/ /\ pc[t] = "down" /\ pc'[t] = "exit" /\ Contents # <<>>
              /\ ret'[t] = <<Head(Contents)>> /\ Contents' = Tail(Contents)
           \/ pc[t] = "exit" /\ pc'[t] = "idle" /\ ret'[t] = ret[t] /\ Contents' = Contents
           \/ /\ pc[t] \notin {"idle", "exit", "up"} /\ pc'[t] \notin {"idle", "exit"}
              /\ Contents' = Contents
  BY DEF Moves, Removing, Draining, Blocking, Dequeues

LEMMA SendQueueStep ==
    ASSUME SendInv, QInv, QInv', NEW t \in Threads, QueueStep(t)
    PROVE  SendInv'
  <1>1. /\ Moves(t) /\ UNCHANGED <<op, arg>>
        /\ \A u \in Threads : u # t => pc'[u] = pc[u] /\ ret'[u] = ret[u]
        /\ accepted' = IF pc[t] = "up" THEN Append(accepted, arg[t]) ELSE accepted
        /\ UNCHANGED <<is_work_, wish, pump, isWork, get_count, send_data, made, wire>>
    BY QueueStepMoves
  <1>2. /\ SendTyping /\ SendTurn /\ SendEntry /\ SendFlow /\ SendWire
        /\ Contents \in Seq(Int) /\ accepted \in Seq(Items)
    BY ContentsIsSeq DEF SendInv, SendTyping
  <1>3. Taken \in Int
    BY <1>2 DEF Taken
  <1>4. CASE t # Pump /\ pc[t] = "up"
    <2>1. /\ t \in Producers /\ op[t] = "enqueue" /\ pc'[t] = "exit"
          /\ accepted' = Append(accepted, arg[t]) /\ Contents' = Append(Contents, arg[t])
      BY <1>1, <1>4, Who, QueueStepMoves, EnqueueMoves
    <2>2. arg[t] \in Items /\ arg[t] \in Int /\ arg[t] \in 1 .. made
      <3>1. arg[t] \in 1 .. made
        BY <1>2, <1>4, <2>1 DEF SendEntry, Entering
      <3>2. made \in 0 .. MaxItems /\ MaxItems \in Nat /\ Items = 1 .. MaxItems
        BY <1>2, SendAssumption DEF SendTyping
      <3>3. QED
        BY <3>1, <3>2
    <2>3. Holding' <=> Holding
      BY <1>1, <1>4, Who DEF Holding
    <2>4. Hand' = Hand
      BY <1>1, <1>4, Who DEF Hand
    <2>5. SendFlow' /\ SendWire'
      BY <1>1, <1>2, <2>1, <2>2, <2>3, <2>4, FlowIn
    <2>6. /\ accepted' \in Seq(Items) /\ Len(accepted) \in Nat
          /\ DOMAIN accepted = 1 .. Len(accepted) /\ DOMAIN accepted' = 1 .. Len(accepted) + 1
          /\ accepted'[Len(accepted) + 1] = arg[t]
          /\ \A k \in 1 .. Len(accepted) : accepted'[k] = accepted[k]
      BY <1>2, <2>1, <2>2
    <2>7. SendTyping'
      BY <1>1, <1>2, <2>6 DEF SendTyping
    <2>8. SendTurn'
      BY <1>1, <1>2, <2>1, Who DEF SendTurn
    <2>9. /\ \A k \in DOMAIN accepted' :
                accepted'[k] = arg[t] \/ \E i \in DOMAIN accepted : accepted'[k] = accepted[i]
          /\ \A i, k \in DOMAIN accepted' : accepted'[i] = accepted'[k] => i = k
      <3>1. /\ \A k \in DOMAIN accepted : accepted[k] # arg[t]
            /\ \A i, k \in DOMAIN accepted : accepted[i] = accepted[k] => i = k
        BY <1>2, <1>4, <2>1 DEF SendEntry, Entering, IsInjective
      <3>2. \A k \in DOMAIN accepted' : k = Len(accepted) + 1 \/ k \in DOMAIN accepted
        BY <2>6
      <3>3. QED
        BY <2>6, <3>1, <3>2
    <2>10. \A p \in Producers : Entering(p)' => Entering(p) /\ p # t
      BY <1>1, <2>1, Who DEF Entering
    <2>11. SendEntry'
      <3>1. IsInjective(accepted')
        BY <2>9 DEF IsInjective
      <3>2. \A k \in DOMAIN accepted' : accepted'[k] \in 1 .. made'
        BY <1>1, <1>2, <2>2, <2>9 DEF SendEntry
      <3>3. ASSUME NEW p \in Producers, Entering(p)'
            PROVE  /\ arg'[p] \in 1 .. made'
                   /\ \A k \in DOMAIN accepted' : accepted'[k] # arg'[p]
                   /\ \A q \in Producers : q # p /\ Entering(q)' => arg'[q] # arg'[p]
        <4>1. Entering(p) /\ Entering(t) /\ p # t
          BY <1>4, <2>10, <3>3 DEF Entering
        <4>2. arg[p] \in 1 .. made /\ arg[t] # arg[p]
          BY <1>2, <2>1, <4>1 DEF SendEntry
        <4>3. \A i \in DOMAIN accepted : accepted[i] # arg[p]
          BY <1>2, <4>1 DEF SendEntry
        <4>4. \A q \in Producers : q # p /\ Entering(q) => arg[q] # arg[p]
          BY <1>2, <4>1 DEF SendEntry
        <4>5. QED
          BY <1>1, <2>9, <2>10, <4>2, <4>3, <4>4
      <3>4. QED
        BY <3>1, <3>2, <3>3 DEF SendEntry
    <2>12. QED
      BY <2>5, <2>7, <2>8, <2>11 DEF SendInv
  <1>5. CASE ~(t # Pump /\ pc[t] = "up")
    <2>1. UNCHANGED <<accepted, wire>> /\ pc[t] # "idle"
      BY <1>1, <1>5, QueueStepMoves, EnqueueMoves, DequeueMoves
    <2>2. SendTyping' /\ SendTurn'
      BY <1>1, <1>2, <2>1, Who, QueueStepMoves DEF SendTyping, SendTurn
    <2>3. \A p \in Producers : Entering(p)' => Entering(p)
      BY <1>1, <1>5, Who, QueueStepMoves, EnqueueMoves DEF Entering
    <2>4. SendEntry'
      BY <1>1, <1>2, <2>1, <2>3 DEF SendEntry
    <2>5. SendFlow' /\ SendWire'
      <3>1. CASE t # Pump
        <4>1. Contents' = Contents
          BY <1>5, <3>1, QueueStepMoves, EnqueueMoves
        <4>2. Holding' => Holding /\ Hand' = Hand
          BY <1>1, <3>1, Who DEF Holding, Hand
        <4>3. QED
          BY <1>2, <1>3, <2>1, <4>1, <4>2, FlowStays
      <3>2. CASE /\ t = Pump /\ pc[t] = "down" /\ pc'[t] = "exit" /\ Contents # <<>>
                 /\ ret'[t] = <<Head(Contents)>> /\ Contents' = Tail(Contents)
        <4>1. pump = "wait" /\ pump' = "wait"
          BY <1>1, <3>2, QueueStepMoves
        <4>2. Hand' = Head(Contents) /\ Holding' /\ ~Holding
          BY <3>2, <4>1 DEF Hand, Holding
        <4>3. QED
          BY <1>2, <2>1, <3>2, <4>2, FlowOut
      <3>3. CASE /\ t = Pump /\ Contents' = Contents
                 /\ \/ pc[t] = "exit" /\ pc'[t] = "idle" /\ ret'[t] = ret[t]
                    \/ pc'[t] \notin {"idle", "exit"}
        <4>1. Holding' => Holding /\ Hand' = Hand
          BY <1>1, <3>3, QueueStepMoves DEF Holding, Hand
        <4>2. QED
          BY <1>2, <1>3, <2>1, <3>3, <4>1, FlowStays
      <3>4. QED
        BY <3>1, <3>2, <3>3, QueueStepMoves, DequeueMoves
    <2>6. QED
      BY <2>2, <2>4, <2>5 DEF SendInv
  <1>6. QED
    BY <1>4, <1>5

\* A producer makes an item nobody else has.
LEMMA ProduceStep ==
    ASSUME SendInv, QInv, QInv', NEW t \in Producers, Produce(t) PROVE SendInv'
  <1>1. /\ pc[t] = "idle" /\ pc' = [pc EXCEPT ![t] = "lock"] /\ op' = [op EXCEPT ![t] = "enqueue"]
        /\ arg' = [arg EXCEPT ![t] = made + 1] /\ ret' = [ret EXCEPT ![t] = <<>>]
        /\ made' = made + 1 /\ made < MaxItems
        /\ UNCHANGED <<is_work_, wish, pump, isWork, get_count, send_data, accepted, wire>>
    BY DEF Produce, Call, Goto, Answer, control, args
  <1>2. /\ pc'[t] = "lock" /\ op'[t] = "enqueue" /\ arg'[t] = made + 1
        /\ \A u \in Threads : u # t => /\ pc'[u] = pc[u] /\ op'[u] = op[u]
                                       /\ arg'[u] = arg[u] /\ ret'[u] = ret[u]
    BY <1>1, Who DEF QInv, IInv, TypeOK
  <1>3. Contents' = Contents
    BY Who, OutsideContents DEF Produce
  <1>4. SendTyping /\ SendTurn /\ SendEntry /\ SendFlow /\ SendWire
    BY DEF SendInv
  <1>5. made \in Nat /\ made + 1 \in 0 .. MaxItems
    BY <1>1, <1>4, SendAssumption DEF SendTyping
  <1>6. SendTyping' /\ SendTurn'
    BY <1>1, <1>2, <1>4, <1>5, Who DEF SendTyping, SendTurn
  <1>7. SendFlow' /\ SendWire'
    <2>1. Holding' => Holding /\ Hand' = Hand
      BY <1>1, <1>2, Who DEF Holding, Hand
    <2>2. Taken \in Int
      BY <1>4, ContentsIsSeq DEF Taken, SendTyping
    <2>3. QED
      BY <1>1, <1>3, <1>4, <2>1, <2>2, FlowStays
  <1>8. SendEntry'
    <2>1. \A p \in Producers : p # t => (Entering(p)' <=> Entering(p)) /\ arg'[p] = arg[p]
      BY <1>2, Who DEF Entering
    <2>2. \A x \in 1 .. made : x \in 1 .. made + 1 /\ x # made + 1
      BY <1>5
    <2>3. made + 1 \in 1 .. made + 1
      BY <1>5
    <2>4. \A p \in Producers : p # t /\ Entering(p) => arg[p] \in 1 .. made
      BY <1>4 DEF SendEntry
    <2>5. \A k \in DOMAIN accepted : accepted[k] \in 1 .. made
      BY <1>4 DEF SendEntry
    <2>6. ASSUME NEW p \in Producers, Entering(p)'
          PROVE  /\ arg'[p] \in 1 .. made + 1
                 /\ \A k \in DOMAIN accepted : accepted[k] # arg'[p]
                 /\ \A q \in Producers : q # p /\ Entering(q)' => arg'[q] # arg'[p]
      <3>1. CASE p = t
        BY <1>2, <2>1, <2>2, <2>3, <2>4, <2>5, <3>1
      <3>2. CASE p # t
        <4>1. /\ arg[p] \in 1 .. made /\ arg'[p] = arg[p]
              /\ \A k \in DOMAIN accepted : accepted[k] # arg[p]
              /\ \A q \in Producers : q # p /\ Entering(q) => arg[q] # arg[p]
          BY <1>4, <2>1, <2>6, <3>2 DEF SendEntry
        <4>2. QED
          BY <1>2, <2>1, <2>2, <3>2, <4>1
      <3>3. QED
        BY <3>1, <3>2
    <2>7. IsInjective(accepted)
      BY <1>4 DEF SendEntry
    <2>8. QED
      BY <1>1, <2>2, <2>5, <2>6, <2>7 DEF SendEntry
  <1>9. QED
    BY <1>6, <1>7, <1>8 DEF SendInv

LEMMA AskStep == ASSUME SendInv, QInv, QInv', Ask PROVE SendInv'
  <1>1. /\ pc[Pump] = "idle" /\ pump = "ask" /\ pump' = "wait"
        /\ pc' = [pc EXCEPT ![Pump] = "lock"] /\ op' = [op EXCEPT ![Pump] = "dequeueBlock"]
        /\ arg' = [arg EXCEPT ![Pump] = NoItem]
        /\ UNCHANGED <<is_work_, wish, isWork, get_count, send_data, made, accepted, wire>>
    BY DEF Ask, Call, Goto, control, args, history
  <1>2. /\ pc'[Pump] = "lock" /\ op'[Pump] = "dequeueBlock"
        /\ \A u \in Producers : pc'[u] = pc[u] /\ op'[u] = op[u] /\ arg'[u] = arg[u]
    BY <1>1, Who DEF QInv, IInv, TypeOK
  <1>3. Contents' = Contents
    BY Who, OutsideContents DEF Ask
  <1>4. SendTyping /\ SendTurn /\ SendEntry /\ SendFlow /\ SendWire
    BY DEF SendInv
  <1>5. SendTyping' /\ SendTurn'
    BY <1>1, <1>2, <1>4 DEF SendTyping, SendTurn
  <1>6. SendEntry'
    BY <1>1, <1>2, <1>4 DEF SendEntry, Entering
  <1>7. SendFlow' /\ SendWire'
    <2>1. ~Holding'
      BY <1>1, <1>2 DEF Holding
    <2>2. Taken \in Int
      BY <1>4, ContentsIsSeq DEF Taken, SendTyping
    <2>3. QED
      BY <1>1, <1>3, <1>4, <2>1, <2>2, FlowStays
  <1>8. QED
    BY <1>5, <1>6, <1>7 DEF SendInv

\* The steps that leave the queue alone.
LEMMA OutsideStep ==
    ASSUME SendInv, QInv, QInv',
           \/ UNCHANGED allVars \/ Start \/ Take \/ Nap \/ Send
           \/ \E b \in Settings : setIsWork(b)
           \/ \E t \in Producers : Look(t)
    PROVE  SendInv'
  <1>1. UNCHANGED <<pc, op, arg, ret, made, accepted, isWork>>
    BY DEF allVars, vars, frame, history, args, Start, Take, Nap, Send, setIsWork, Look, Query
  <1>2. Contents' = Contents
    <2>1. UNCHANGED vars \/ \E t \in Threads : Query(t)
      BY Who DEF allVars, Start, Take, Nap, Send, setIsWork, Look
    <2>2. QED
      BY <2>1, OutsideContents
  <1>3. /\ SendTyping /\ SendTurn /\ SendEntry /\ SendFlow /\ SendWire
        /\ Contents \in Seq(Int) /\ Taken \in Int
    BY ContentsIsSeq DEF SendInv, SendTyping, Taken
  <1>4. SendEntry'
    BY <1>1, <1>3 DEF SendEntry, Entering
  <1>5. Holding => Hand \in Items
    <2>1. Holding => Taken \in DOMAIN accepted /\ Hand = accepted[Taken]
      BY <1>3 DEF SendFlow, Taken, SendTyping
    <2>2. QED
      BY <1>3, <2>1 DEF SendTyping
  <1>6. CASE UNCHANGED allVars \/ (\E b \in Settings : setIsWork(b)) \/ \E t \in Producers : Look(t)
    <2>1. UNCHANGED <<pump, get_count, send_data, wire>>
      BY <1>6 DEF allVars, setIsWork, Look
    <2>2. is_work_' \in BOOLEAN /\ wish' \in {"none", "work", "stop"}
      BY <1>3, <1>6, SendAssumption DEF allVars, control, setIsWork, Look, SendTyping
    <2>3. SendTyping' /\ SendTurn'
      BY <1>1, <1>3, <2>1, <2>2 DEF SendTyping, SendTurn
    <2>4. Holding' = Holding /\ Hand' = Hand
      BY <1>1, <2>1 DEF Holding, Hand
    <2>5. QED
      BY <1>1, <1>2, <1>3, <1>4, <2>1, <2>3, <2>4, FlowStays DEF SendInv
  <1>7. CASE Start \/ Nap
    <2>1. /\ UNCHANGED <<get_count, send_data, wire, wish>> /\ is_work_' \in BOOLEAN
          /\ pump \in {"start", "nap"} /\ pump' = "ask"
      BY <1>3, <1>7 DEF Start, Nap, control, SendTyping
    <2>2. SendTyping' /\ SendTurn'
      BY <1>1, <1>3, <2>1 DEF SendTyping, SendTurn
    <2>3. ~Holding'
      BY <2>1 DEF Holding
    <2>4. QED
      BY <1>1, <1>2, <1>3, <1>4, <2>1, <2>2, <2>3, FlowStays DEF SendInv
  <1>8. CASE Take
    <2>1. /\ UNCHANGED <<is_work_, wire, wish>> /\ pump' \in {"test", "nap"}
          /\ send_data' = Head(ret[Pump]) /\ get_count' = (get_count + 1) % CounterMod
          /\ pump = "wait" /\ pc[Pump] = "idle"
      BY <1>8 DEF Take, control
    <2>2. Holding /\ Hand = Head(ret[Pump])
      BY <2>1 DEF Holding, Hand
    <2>3. get_count' \in 0 .. CounterMod - 1
      BY <1>3, <2>1, SendAssumption DEF SendTyping
    <2>4. SendTyping' /\ SendTurn'
      BY <1>1, <1>3, <1>5, <2>1, <2>2, <2>3 DEF SendTyping, SendTurn
    <2>5. Holding' => Hand' = Hand
      BY <2>1, <2>2 DEF Holding, Hand
    <2>6. QED
      BY <1>1, <1>2, <1>3, <1>4, <2>1, <2>2, <2>4, <2>5, FlowStays DEF SendInv
  <1>9. CASE Send
    <2>1. UNCHANGED <<is_work_, wish, send_data>> /\ pump = "test" /\ pump' = "ask"
      BY <1>9 DEF Send, control
    <2>2. Holding /\ ~Holding' /\ Hand = send_data
      BY <2>1 DEF Holding, Hand
    <2>3. CASE UNCHANGED <<wire, get_count>>
      <3>1. SendTyping' /\ SendTurn'
        BY <1>1, <1>3, <2>1, <2>3 DEF SendTyping, SendTurn
      <3>2. QED
        BY <1>1, <1>2, <1>3, <1>4, <2>2, <2>3, <3>1, FlowStays DEF SendInv
    <2>4. CASE wire' = Append(wire, send_data) /\ get_count' = 0
      <3>1. send_data \in Items /\ 0 \in 0 .. CounterMod - 1
        BY <1>5, <2>2, SendAssumption
      <3>2. wire' \in Seq(Items)
        BY <1>3, <2>4, <3>1 DEF SendTyping
      <3>3. SendTyping' /\ SendTurn'
        BY <1>1, <1>3, <2>1, <2>4, <3>1, <3>2 DEF SendTyping, SendTurn
      <3>4. SendFlow' /\ SendWire'
        BY <1>1, <1>2, <1>3, <1>5, <2>2, <2>4, FlowSent DEF SendTyping
      <3>5. QED
        BY <1>4, <3>3, <3>4 DEF SendInv
    <2>5. QED
      BY <1>9, <2>3, <2>4 DEF Send
  <1>10. QED
    BY <1>6, <1>7, <1>8, <1>9

\* The inductive invariant of the send pump.
THEOREM SendInvariant == SendSpec => []SendInv
  <1>1. SendInv => MadeInRange
    BY DEF SendInv, SendTyping, MadeInRange
  <1>2. SendInv /\ QInv /\ QInv' /\ [SendNext]_allVars => SendInv'
    BY SendQueueStep, ProduceStep, AskStep, OutsideStep DEF SendNext, PumpStep
  <1>3. QED
    BY <1>2, SendInitInv, QueueBelowInv, PTL DEF SendSpec

\* However setIsWork is toggled and the producers interleave, no item goes out
\* twice, and what goes out keeps the order of enqueue (CdrawNet.cc:88-108).
THEOREM OnceInOrder == SendSpec => []SentOnceInOrder
  <1>1. SendInv => SentOnceInOrder
    <2> SUFFICES ASSUME SendInv PROVE SentOnceInOrder
      OBVIOUS
    <2>1. \A i, j \in DOMAIN wire : i < j =>
             \E k, l \in DOMAIN accepted :
                k < l /\ wire[i] = accepted[k] /\ wire[j] = accepted[l]
      BY DEF SendInv, SendWire
    <2>2. ASSUME NEW i \in DOMAIN wire, NEW j \in DOMAIN wire, i < j PROVE wire[i] # wire[j]
      <3>1. PICK k \in DOMAIN accepted, l \in DOMAIN accepted :
               k < l /\ wire[i] = accepted[k] /\ wire[j] = accepted[l]
        BY <2>1, <2>2
      <3>2. k # l
        BY <3>1 DEF SendInv, SendTyping
      <3>3. QED
        BY <3>1, <3>2 DEF SendInv, SendEntry, IsInjective
    <2>3. \A i, j \in DOMAIN wire : i < j \/ i = j \/ j < i
      BY DEF SendInv, SendTyping
    <2>4. IsInjective(wire)
      BY <2>2, <2>3 DEF IsInjective
    <2>5. QED
      BY <2>1, <2>4 DEF SentOnceInOrder
  <1>2. QED
    BY <1>1, SendInvariant, PTL

\* A sequence of different numbers up to n is not longer than n.
LEMMA InjectiveLen ==
    ASSUME NEW n \in Nat, NEW s \in Seq(1 .. n), IsInjective(s) PROVE Len(s) <= n
  <1>1. Len(s) \in Nat /\ s \in [1 .. Len(s) -> 1 .. n]
    OBVIOUS
  <1>2. s \in Injection(1 .. Len(s), 1 .. n)
    BY <1>1 DEF Injection
  <1>3. IsFiniteSet(1 .. n) /\ Cardinality(1 .. n) = n
    BY FS_Interval
  <1>4. Cardinality(1 .. Len(s)) = Len(s)
    <2>1. PICK m \in Nat : m = Len(s)
      BY <1>1
    <2>2. \A a, b \in Int : Cardinality(a .. b) = IF a > b THEN 0 ELSE b - a + 1
      BY FS_Interval
    <2>3. Cardinality(1 .. m) = m
      BY <2>2
    <2>4. QED
      BY <2>1, <2>3
  <1>5. Cardinality(1 .. Len(s)) <= Cardinality(1 .. n)
    BY <1>2, <1>3, FS_Injection
  <1>6. QED
    BY <1>3, <1>4, <1>5

\* Every variable of the pump and of its queue stays in its type, and no more
\* goes in or out than the producers made.
THEOREM SendTypes == SendSpec => []SendTypeOK
  <1>1. QInv /\ SendInv /\ SentOnceInOrder => SendTypeOK
    <2> SUFFICES ASSUME QInv, SendInv, SentOnceInOrder PROVE SendTypeOK
      OBVIOUS
    <2>1. /\ TypeOK /\ SendTyping /\ IsInjective(accepted) /\ IsInjective(wire)
          /\ made \in Nat
      BY SendAssumption DEF QInv, IInv, SendInv, SendEntry, SentOnceInOrder, SendTyping
    <2>2. accepted \in Seq(1 .. made)
      BY <2>1 DEF SendInv, SendEntry, SendTyping
    <2>3. wire \in Seq(1 .. made)
      <3>1. Past <= Len(accepted) /\ Past \in Int
        BY <2>1, ContentsIsSeq DEF Past, Taken, SendTyping
      <3>2. \A k \in 1 .. Past : k \in DOMAIN accepted
        BY <2>1, <3>1 DEF SendTyping
      <3>3. \A i \in DOMAIN wire : wire[i] \in 1 .. made
        BY <3>2 DEF SendInv, SendWire, SendEntry
      <3>4. QED
        BY <2>1, <3>3 DEF SendTyping
    <2>4. Len(accepted) <= made /\ Len(wire) <= made
      BY <2>1, <2>2, <2>3, InjectiveLen
    <2>5. QED
      BY <2>1, <2>4 DEF SendTyping, SendTypeOK
  <1>2. QED
    BY <1>1, SendInvariant, OnceInOrder, QueueBelowInv, PTL

\* Whether the producers find room is known to the only one of them.
THEOREM LookStaysTrue == SendSpec => []QueryTrusted
  BY QueueBelow, QueryStaysTrue, PTL
=============================================================================
