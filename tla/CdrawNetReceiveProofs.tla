------------------------- MODULE CdrawNetReceiveProofs -------------------------
(***************************************************************************)
(* Proofs about the receive pump, its consumer and the queue between them, *)
(* for any number of datagrams, any socket buffer and any capacity.        *)
(***************************************************************************)
EXTENDS CdrawNetReceive, CdrawQueueProofs

LEMMA Who == /\ Pump \in Threads /\ Consumer \in Threads /\ Pump # Consumer
             /\ \A t \in Threads : t = Pump \/ t = Consumer
             /\ "enqueue" \in Calls[Pump] \cap LockedOps
             /\ Calls[Consumer] \cap LockedOps \subseteq Dequeues
             /\ "enqueue" \notin Dequeues /\ "clear" \notin Dequeues
  BY ReceiveAssumption DEF LockedOps, Dequeues, Removing, Draining

LEMMA ItemsAreNumbers == MaxDatagrams \in Nat /\ Items = 0 .. MaxDatagrams
  BY ReceiveAssumption

\* revDataByUdp's -1 as its type gives it.
LEMMA FailedIsLargest == Failed = ReplyMod - 1
  <1>1. PICK m \in Nat \ {0} : m = ReplyMod
    BY ReceiveAssumption
  <1>2. (-1) % m = m - 1
    OBVIOUS
  <1>3. QED
    BY <1>1, <1>2 DEF Failed

-----------------------------------------------------------------------------
\* What the pump itself keeps: nothing in its hand or in the socket has a
\* number that has not arrived.
PumpTyping == /\ is_work_ \in BOOLEAN
              /\ pump \in {"start", "loop", "recv", "put", "wait"}
              /\ arrived \in 0 .. MaxDatagrams
              /\ rev_data \in 0 .. arrived
              /\ socket \in Seq(1 .. arrived) /\ Len(socket) <= SocketBuffer
              /\ read \subseteq 0 .. arrived
              /\ failures \in 0 .. MaxFailures
              /\ once.result \in {0, ReplyMod - 1}

LEMMA PumpTypingStep == PumpTyping /\ [ReceiveNext]_allVars => PumpTyping'
  <1> SUFFICES ASSUME PumpTyping, [ReceiveNext]_allVars PROVE PumpTyping'
    OBVIOUS
  <1>1. CASE UNCHANGED allVars
    BY <1>1 DEF PumpTyping, allVars, net, log
  <1>2. CASE Arrive
    <2>1. 1 .. arrived \subseteq 1 .. arrived + 1 /\ 0 .. arrived \subseteq 0 .. arrived + 1
          /\ arrived + 1 \in 1 .. arrived + 1 /\ arrived + 1 \in 0 .. MaxDatagrams
      BY <1>2, ItemsAreNumbers DEF PumpTyping, Arrive
    <2>2. socket \in Seq(1 .. arrived + 1)
      BY <2>1, SeqMonotonic DEF PumpTyping
    <2>3. /\ Append(socket, arrived + 1) \in Seq(1 .. arrived + 1)
          /\ Len(Append(socket, arrived + 1)) = Len(socket) + 1 /\ Len(socket) \in Nat
      BY <2>1, <2>2
    <2>4. socket' \in Seq(1 .. arrived')
      BY <1>2, <2>2, <2>3 DEF Arrive
    <2>6. Len(socket') <= SocketBuffer
      BY <1>2, <2>3, ReceiveAssumption DEF Arrive, PumpTyping
    <2>5. QED
      BY <1>2, <2>1, <2>4, <2>6 DEF PumpTyping, Arrive, log
  <1>3. ASSUME socket # <<>>
        PROVE  /\ Head(socket) \in 1 .. arrived /\ Head(socket) \in 0 .. arrived
               /\ Tail(socket) \in Seq(1 .. arrived)
               /\ Len(Tail(socket)) <= SocketBuffer
    <2>1. /\ Head(socket) \in 1 .. arrived /\ Tail(socket) \in Seq(1 .. arrived)
          /\ Len(Tail(socket)) = Len(socket) - 1 /\ Len(socket) \in Nat
      BY <1>3, HeadTailProperties DEF PumpTyping
    <2>2. QED
      BY <2>1, ReceiveAssumption DEF PumpTyping
  <1>4. CASE revDataByUdp
    <2>1. once'.result \in {0, ReplyMod - 1}
      <3>1. once'.result = Failed
        BY <1>4 DEF revDataByUdp
      <3>2. QED
        BY <3>1, FailedIsLargest
    <2>2. UNCHANGED <<is_work_, pump, arrived, rev_data, read, failures>>
      BY <1>4 DEF revDataByUdp, log
    <2>3. socket' \in Seq(1 .. arrived) /\ Len(socket') <= SocketBuffer
      BY <1>3, <1>4 DEF PumpTyping, revDataByUdp
    <2>4. QED
      BY <2>1, <2>2, <2>3 DEF PumpTyping
  <1>5. CASE Receive
    <2>1. failures' \in 0 .. MaxFailures
      BY <1>5, ReceiveAssumption DEF PumpTyping, Receive
    <2>2. /\ rev_data' \in 0 .. arrived /\ read' \subseteq 0 .. arrived
          /\ socket' \in Seq(1 .. arrived) /\ Len(socket') <= SocketBuffer
      BY <1>3, <1>5 DEF PumpTyping, Receive
    <2>3. QED
      BY <1>5, <2>1, <2>2 DEF PumpTyping, Receive
  <1>6. CASE Start \/ Loop \/ Put \/ PutDone \/ \E b \in Settings : setIsWork(b)
    BY <1>6, ReceiveAssumption DEF PumpTyping, Start, Loop, Put, PutDone, setIsWork, net, log
  <1>7. CASE Consume \/ Look \/ \E t \in Threads : QueueStep(t)
    BY <1>7 DEF PumpTyping, Consume, Look, QueueStep, net, log
  <1>8. QED
    BY <1>1, <1>2, <1>4, <1>5, <1>6, <1>7 DEF ReceiveNext, PumpStep

LEMMA StepBelow == PumpTyping /\ [ReceiveNext]_allVars => [Next]_vars
  <1> SUFFICES ASSUME PumpTyping, [ReceiveNext]_allVars PROVE [Next]_vars
    OBVIOUS
  <1>1. CASE Put
    <2>1. rev_data \in Items /\ Call(Pump, "enqueue", rev_data)
      BY <1>1, ItemsAreNumbers DEF Put, PumpTyping
    <2>2. AnyCall(Pump)
      BY <2>1, Who DEF AnyCall
    <2>3. QED
      BY <2>2, Who DEF Next
  <1>2. CASE Consume \/ Look \/ \E t \in Threads : QueueStep(t)
    BY <1>2, Who DEF Consume, Look, QueueStep, Next
  <1>3. CASE \/ UNCHANGED allVars \/ Arrive \/ revDataByUdp \/ \E b \in Settings : setIsWork(b)
             \/ Start \/ Loop \/ Receive \/ PutDone
    BY <1>3 DEF allVars, Arrive, revDataByUdp, setIsWork, Start, Loop, Receive, PutDone
  <1>4. QED
    BY <1>1, <1>2, <1>3 DEF ReceiveNext, PumpStep

LEMMA PumpTypingInit == ReceiveInit => PumpTyping
  BY ReceiveAssumption DEF ReceiveInit, PumpTyping, NoItem, NotCalled

\* The network, the pump, its consumer and setIsWork together use the queue as
\* CdrawQueue says (CdrawNet.cc:110-123): what is proved of it holds here.
THEOREM QueueBelow == ReceiveSpec => Spec
  <1>1. ReceiveInit => Init
    BY DEF ReceiveInit
  <1>2. QED
    BY <1>1, PumpTypingInit, PumpTypingStep, StepBelow, PTL DEF ReceiveSpec, Spec

LEMMA BelowInv == ReceiveSpec => [](QInv /\ PumpTyping)
  BY QueueBelow, QueueInvariant, PumpTypingInit, PumpTypingStep, PTL DEF ReceiveSpec

\* The consumer's looks: what the only thread that removes was told of the
\* queue is still so when it calls (CdrawQueue.h:43-51).
THEOREM LookStaysTrue == ReceiveSpec => []QueryTrusted
  BY QueueBelow, QueryStaysTrue, PTL

-----------------------------------------------------------------------------
\* What the consumer has got, then what a dequeue that took effect is about to
\* give it, then what is in the queue.
Back == IF pc[Consumer] = "exit" /\ ret[Consumer] # <<NoItem>> THEN ret[Consumer] ELSE <<>>
Line == delivered \o (Back \o Contents)

\* rev_data is still on its way into the queue.
Pending == pump = "put" \/ (pump = "wait" /\ ret[Pump] # <<1>>)

\* The pump is in the queue only when it waits there, with rev_data.
PumpTurn == /\ pc[Pump] # "idle" => op[Pump] = "enqueue" /\ arg[Pump] = rev_data /\ pump = "wait"
            /\ pump = "wait" /\ pc[Pump] \in {"idle", "exit"} => ret[Pump] \in {<<0>>, <<1>>}
            /\ pump = "wait" /\ pc[Pump] \notin {"idle", "exit"} => ret[Pump] = <<>>

\* Only numbers that have arrived come out, whatever recvfrom answers.
Bounded == /\ delivered \in Seq(0 .. arrived)
           /\ Contents \in Seq(0 .. arrived)
           /\ pc[Consumer] = "exit" => ret[Consumer] \in Seq(0 .. arrived)
           /\ refused \subseteq 0 .. arrived

Rising(s) == \A i, j \in DOMAIN s : i < j => s[i] < s[j]

\* While recvfrom has not failed: the datagrams in the line are rising up to
\* rev_data, none of them was refused, those in the socket come after, and a
\* datagram that was read is in the line, refused or on its way.
Clean == /\ \A i \in DOMAIN Line : Line[i] \in 1 .. rev_data
         /\ Rising(Line)
         /\ refused \subseteq 1 .. rev_data
         /\ \A i \in DOMAIN Line : Line[i] \notin refused
         /\ Pending => rev_data \notin {0} \cup refused /\ \A i \in DOMAIN Line : Line[i] # rev_data
         /\ read = InPump \cup ToSet(Line) \cup refused
         /\ \A i \in DOMAIN socket : rev_data < socket[i]
         /\ Rising(socket)
         /\ \A i \in DOMAIN Contents : Contents[i] # 0

ReceiveInv == PumpTurn /\ Bounded /\ (failures = 0 => Clean)

LEMMA Numbers ==
    ASSUME PumpTyping, Bounded
    PROVE  /\ delivered \in Seq(Int) /\ Back \in Seq(Int) /\ Contents \in Seq(Int)
           /\ Line \in Seq(Int) /\ socket \in Seq(Int)
           /\ Back \in Seq(0 .. arrived)
  <1>1. 0 .. arrived \subseteq Int /\ 1 .. arrived \subseteq Int /\ <<>> \in Seq(0 .. arrived)
    OBVIOUS
  <1>2. Back \in Seq(0 .. arrived)
    BY <1>1 DEF Back, Bounded
  <1>3. /\ delivered \in Seq(Int) /\ Back \in Seq(Int) /\ Contents \in Seq(Int)
        /\ socket \in Seq(Int)
    BY <1>1, <1>2, SeqMonotonic DEF Bounded, PumpTyping
  <1>4. Back \o Contents \in Seq(Int)
    BY <1>3, ConcatProperties
  <1>5. Line \in Seq(Int)
    BY <1>3, <1>4, ConcatProperties DEF Line
  <1>6. QED
    BY <1>2, <1>3, <1>5

LEMMA HeadThenTail ==
    ASSUME NEW s \in Seq(Int), s # <<>>
    PROVE  <<Head(s)>> \o Tail(s) = s
  <1>1. /\ Head(s) \in Int /\ Tail(s) \in Seq(Int) /\ Len(s) = Len(Tail(s)) + 1
        /\ s[1] = Head(s) /\ \A i \in 1 .. Len(Tail(s)) : s[i + 1] = Tail(s)[i]
    BY HeadTailProperties
  <1>2. QED
    BY <1>1, ConsUnique

\* The consumer's steps inside the queue, and the pump's.
LEMMA ConsumerMoves ==
    ASSUME op[Consumer] \in Dequeues, Moves(Consumer)
    PROVE  \/ /\ pc[Consumer] = "down" /\ pc'[Consumer] = "exit" /\ Contents # <<>>
              /\ ret'[Consumer] = <<Head(Contents)>> /\ Contents' = Tail(Contents)
           \/ /\ pc[Consumer] = "down" /\ pc'[Consumer] = "exit"
              /\ ret'[Consumer] = Contents /\ Contents' = <<>>
           \/ /\ pc[Consumer] = "body" /\ pc'[Consumer] = "exit"
              /\ ret'[Consumer] \in {<<NoItem>>, <<>>} /\ Contents' = Contents
           \/ /\ pc[Consumer] = "exit" /\ pc'[Consumer] = "idle" /\ Contents' = Contents
           \/ /\ pc[Consumer] # "exit" /\ pc'[Consumer] # "exit" /\ Contents' = Contents
  BY Who DEF Moves

LEMMA PumpMoves ==
    ASSUME op[Pump] = "enqueue", Moves(Pump)
    PROVE  \/ /\ pc[Pump] = "up" /\ pc'[Pump] = "exit" /\ ret'[Pump] = <<1>>
              /\ Contents' = Append(Contents, arg[Pump])
           \/ /\ pc[Pump] = "body" /\ pc'[Pump] = "exit" /\ ret'[Pump] = <<0>>
              /\ Contents' = Contents
           \/ /\ pc[Pump] = "exit" /\ pc'[Pump] = "idle" /\ ret'[Pump] = ret[Pump]
              /\ Contents' = Contents
           \/ /\ pc[Pump] \notin {"idle", "exit", "up"} /\ pc'[Pump] \notin {"idle", "exit"}
              /\ ret'[Pump] = <<>> /\ Contents' = Contents
  BY Who DEF Moves, Removing, Draining, Dequeues

\* A step of the consumer inside the queue moves items along the line.
LEMMA LineStays ==
    ASSUME PumpTyping, Bounded, \A i \in DOMAIN Contents : Contents[i] # 0,
           op[Consumer] \in Dequeues, Moves(Consumer),
           delivered' = IF pc[Consumer] = "exit" /\ ret[Consumer] # <<NoItem>>
                        THEN delivered \o ret[Consumer] ELSE delivered
    PROVE  Line' = Line /\ \A i \in DOMAIN Contents' : Contents'[i] # 0
  <1>1. /\ delivered \in Seq(Int) /\ Back \in Seq(Int) /\ Contents \in Seq(Int)
    BY Numbers
  <1>2. <<>> \o Contents = Contents /\ Contents \o <<>> = Contents
    BY <1>1, ConcatEmptySeq
  <1>3. CASE /\ pc[Consumer] = "down" /\ pc'[Consumer] = "exit" /\ Contents # <<>>
             /\ ret'[Consumer] = <<Head(Contents)>> /\ Contents' = Tail(Contents)
    <2>1. /\ Head(Contents) = Contents[1] /\ 1 \in DOMAIN Contents
          /\ \A i \in DOMAIN Tail(Contents) : i + 1 \in DOMAIN Contents /\ Tail(Contents)[i] = Contents[i + 1]
      BY <1>1, <1>3, HeadTailProperties
    <2>2. Head(Contents) # NoItem
      BY <2>1 DEF NoItem
    <2>3. ret'[Consumer][1] # NoItem
      BY <1>3, <2>2
    <2>4. ret'[Consumer] # <<NoItem>>
      BY <2>3
    <2>5. Back' = <<Head(Contents)>> /\ Back = <<>> /\ delivered' = delivered
      BY <1>3, <2>4 DEF Back
    <2>6. Back' \o Contents' = Back \o Contents
      BY <1>1, <1>2, <1>3, <2>5, HeadThenTail
    <2>7. QED
      BY <1>3, <2>1, <2>5, <2>6 DEF Line
  <1>4. CASE /\ pc[Consumer] = "down" /\ pc'[Consumer] = "exit"
             /\ ret'[Consumer] = Contents /\ Contents' = <<>>
    <2>1. Contents # <<NoItem>>
      <3>1. <<NoItem>>[1] = 0 /\ DOMAIN <<NoItem>> = {1}
        BY DEF NoItem
      <3>2. QED
        BY <3>1
    <2>2. Back' = Contents /\ Back = <<>> /\ delivered' = delivered
      BY <1>4, <2>1 DEF Back
    <2>3. Back' \o Contents' = Back \o Contents
      BY <1>2, <1>4, <2>2
    <2>4. QED
      BY <1>4, <2>2, <2>3 DEF Line
  <1>5. CASE /\ pc[Consumer] = "body" /\ pc'[Consumer] = "exit"
             /\ ret'[Consumer] \in {<<NoItem>>, <<>>} /\ Contents' = Contents
    BY <1>5 DEF Back, Line
  <1>6. CASE pc[Consumer] = "exit" /\ pc'[Consumer] = "idle" /\ Contents' = Contents
    <2>1. Back' = <<>> /\ delivered' = delivered \o Back
      BY <1>1, <1>6, ConcatEmptySeq DEF Back
    <2>2. (delivered \o Back) \o Contents = delivered \o (Back \o Contents)
      BY <1>1, Associative
    <2>3. Back' \o Contents' = Contents
      BY <1>2, <1>6, <2>1
    <2>4. QED
      BY <1>6, <2>1, <2>2, <2>3 DEF Line
  <1>7. CASE pc[Consumer] # "exit" /\ pc'[Consumer] # "exit" /\ Contents' = Contents
    BY <1>7 DEF Back, Line
  <1>8. QED
    BY <1>3, <1>4, <1>5, <1>6, <1>7, ConsumerMoves

\* The pump's item joins the line at its end.
LEMMA LineGrows ==
    ASSUME PumpTyping, Bounded, UNCHANGED <<delivered, Back>>,
           NEW x \in Int, Contents' = Append(Contents, x)
    PROVE  /\ Line' = Append(Line, x)
           /\ Len(Line') = Len(Line) + 1 /\ Len(Line) \in Nat
           /\ DOMAIN Line = 1 .. Len(Line) /\ DOMAIN Line' = 1 .. Len(Line) + 1
           /\ Line'[Len(Line) + 1] = x
           /\ \A i \in 1 .. Len(Line) : Line'[i] = Line[i]
           /\ \A i \in DOMAIN Contents' :
                 Contents'[i] = x \/ \E j \in DOMAIN Contents : Contents'[i] = Contents[j]
  <1>1. /\ delivered \in Seq(Int) /\ Back \in Seq(Int) /\ Contents \in Seq(Int)
        /\ Line \in Seq(Int)
    BY Numbers
  <1>2. <<x>> \in Seq(Int)
    OBVIOUS
  <1>3. ASSUME NEW s \in Seq(Int) PROVE Append(s, x) = s \o <<x>>
    OBVIOUS
  <1>4. Back \o Contents \in Seq(Int)
    BY <1>1, ConcatProperties
  <1>5. Back \o (Contents \o <<x>>) = (Back \o Contents) \o <<x>>
    BY <1>1, <1>2, Associative
  <1>6. delivered \o ((Back \o Contents) \o <<x>>) = (delivered \o (Back \o Contents)) \o <<x>>
    <2>1. ASSUME NEW u \in Seq(Int)
          PROVE  delivered \o (u \o <<x>>) = (delivered \o u) \o <<x>>
      BY <1>1, <1>2, Associative
    <2>2. QED
      BY <1>4, <2>1
  <1>7. Line' = Append(Line, x)
    BY <1>1, <1>3, <1>5, <1>6 DEF Line
  <1>8. QED
    BY <1>1, <1>7

\* Nothing the line depends on changes but the line's own parts.
LEMMA CleanStays ==
    ASSUME Clean, UNCHANGED <<Line, rev_data, refused, read, socket>>, Pending' <=> Pending,
           \A i \in DOMAIN Contents' : Contents'[i] # 0
    PROVE  Clean'
  BY DEF Clean, Rising, InPump, Pending

LEMMA BoundedStays ==
    ASSUME Bounded, UNCHANGED <<delivered, Contents, arrived, refused>>,
           pc'[Consumer] = pc[Consumer] \/ pc'[Consumer] # "exit",
           ret'[Consumer] = ret[Consumer] \/ pc'[Consumer] # "exit"
    PROVE  Bounded'
  BY DEF Bounded

LEMMA QueueMoves ==
    ASSUME QInv, QInv', PumpTurn, NEW t \in Threads, QueueStep(t)
    PROVE  /\ Moves(t) /\ UNCHANGED <<op, arg>>
           /\ \A u \in Threads : u # t => pc'[u] = pc[u] /\ ret'[u] = ret[u]
           /\ t = Consumer => op[Consumer] \in Dequeues
           /\ t = Pump => op[Pump] = "enqueue" /\ arg[Pump] = rev_data /\ pump = "wait"
  <1>1. pc[t] # "idle" /\ (Acquire(t) \/ Body(t))
    BY DEF QueueStep, Acquire, Body, EnqueueTest, StoreItem, AdvanceTail, CountUp, DequeueTest,
       WakeUp, TakeItem, AdvanceHead, CountDown, Clear, Release
  <1>2. t = Consumer => op[Consumer] \in Dequeues
    BY <1>1, Who DEF QInv, IInv, TypeOK, OpInv
  <1>3. t = Pump => op[Pump] = "enqueue" /\ arg[Pump] = rev_data /\ pump = "wait"
    BY <1>1 DEF PumpTurn
  <1>4. op[t] # "clear"
    BY <1>2, <1>3, Who
  <1>5. QED
    BY <1>1, <1>2, <1>3, <1>4, StepMoves

LEMMA ConsumerStep ==
    ASSUME QInv, QInv', PumpTyping, ReceiveInv, QueueStep(Consumer)
    PROVE  ReceiveInv'
  <1>1. /\ Moves(Consumer) /\ UNCHANGED <<op, arg>> /\ op[Consumer] \in Dequeues
        /\ pc'[Pump] = pc[Pump] /\ ret'[Pump] = ret[Pump]
    BY Who, QueueMoves DEF ReceiveInv
  <1>2. /\ delivered' = IF pc[Consumer] = "exit" /\ ret[Consumer] # <<NoItem>>
                        THEN delivered \o ret[Consumer] ELSE delivered
        /\ UNCHANGED <<pump, rev_data, arrived, socket, read, refused, failures>>
    BY DEF QueueStep, net
  <1>3. PumpTurn /\ Bounded
    BY DEF ReceiveInv
  <1>4. PumpTurn'
    BY <1>1, <1>2, <1>3 DEF PumpTurn
  <1>5. Bounded'
    <2>1. delivered' \in Seq(0 .. arrived)
      BY <1>2, <1>3, ConcatProperties DEF Bounded
    <2>3. Contents' \in Seq(0 .. arrived)
      <3>1. CASE Contents # <<>> /\ Contents' = Tail(Contents)
        BY <1>3, <3>1, HeadTailProperties DEF Bounded
      <3>2. CASE Contents' = <<>>
        BY <3>2, EmptySeq
      <3>3. CASE Contents' = Contents
        BY <1>3, <3>3 DEF Bounded
      <3>4. QED
        BY <1>1, <3>1, <3>2, <3>3, ConsumerMoves
    <2>4. pc'[Consumer] = "exit" => ret'[Consumer] \in Seq(0 .. arrived)
      <3>1. CASE Contents # <<>> /\ ret'[Consumer] = <<Head(Contents)>>
        <4>1. Head(Contents) \in 0 .. arrived
          BY <1>3, <3>1, HeadTailProperties DEF Bounded
        <4>2. QED
          BY <3>1, <4>1
      <3>2. CASE ret'[Consumer] = Contents
        BY <1>3, <3>2 DEF Bounded
      <3>3. CASE ret'[Consumer] \in {<<NoItem>>, <<>>}
        <4>1. NoItem \in 0 .. arrived
          BY DEF PumpTyping, NoItem
        <4>2. <<NoItem>> \in Seq(0 .. arrived) /\ <<>> \in Seq(0 .. arrived)
          BY <4>1
        <4>3. QED
          BY <3>3, <4>2
      <3>4. QED
        BY <1>1, <3>1, <3>2, <3>3, ConsumerMoves
    <2>5. QED
      BY <1>2, <1>3, <2>1, <2>3, <2>4 DEF Bounded
  <1>6. failures = 0 => Clean'
    <2> SUFFICES ASSUME failures = 0 PROVE Clean'
      OBVIOUS
    <2>1. Clean
      BY DEF ReceiveInv
    <2>2. Line' = Line /\ \A i \in DOMAIN Contents' : Contents'[i] # 0
      BY <1>1, <1>2, <1>3, <2>1, LineStays DEF Clean
    <2>3. Pending' <=> Pending
      BY <1>1, <1>2 DEF Pending
    <2>4. QED
      BY <1>2, <2>1, <2>2, <2>3, CleanStays
  <1>7. QED
    BY <1>2, <1>4, <1>5, <1>6 DEF ReceiveInv

\* enqueue takes effect: rev_data joins the line.
LEMMA CleanGrows ==
    ASSUME PumpTyping, Bounded, Clean, Pending, ~Pending',
           UNCHANGED <<delivered, Back, rev_data, refused, read, socket>>,
           Contents' = Append(Contents, rev_data)
    PROVE  Clean'
  <1>1. rev_data \in Int /\ rev_data \in 1 .. rev_data
    BY DEF PumpTyping, Clean
  <1>2. PICK n \in Nat :
           /\ DOMAIN Line = 1 .. n /\ DOMAIN Line' = 1 .. n + 1
           /\ Line'[n + 1] = rev_data
           /\ \A i \in 1 .. n : Line'[i] = Line[i]
           /\ \A i \in DOMAIN Contents' :
                 Contents'[i] = rev_data \/ \E j \in DOMAIN Contents : Contents'[i] = Contents[j]
    BY <1>1, LineGrows
  <1>3. /\ \A i \in 1 .. n : Line[i] \in 1 .. rev_data /\ Line[i] # rev_data /\ Line[i] \notin refused
        /\ \A i, j \in 1 .. n : i < j => Line[i] < Line[j]
        /\ rev_data # 0 /\ rev_data \notin refused
    BY <1>2 DEF Clean, Rising
  <1>4. \A i \in 1 .. n + 1 : i = n + 1 \/ i \in 1 .. n
    OBVIOUS
  <1>5. /\ \A i \in DOMAIN Line' : Line'[i] \in 1 .. rev_data
        /\ \A i \in DOMAIN Line' : Line'[i] \notin refused
    BY <1>1, <1>2, <1>3, <1>4
  <1>6. Rising(Line')
    <2>1. ASSUME NEW i \in 1 .. n + 1, NEW j \in 1 .. n + 1, i < j PROVE Line'[i] < Line'[j]
      <3>1. i \in 1 .. n
        BY <2>1
      <3>2. CASE j = n + 1
        BY <1>1, <1>2, <1>3, <3>1, <3>2
      <3>3. CASE j \in 1 .. n
        BY <1>2, <1>3, <2>1, <3>1, <3>3
      <3>4. QED
        BY <1>4, <3>2, <3>3
    <2>2. QED
      BY <1>2, <2>1 DEF Rising
  <1>7. read = InPump' \cup ToSet(Line') \cup refused
    <2>1. ToSet(Line') = ToSet(Line) \cup {rev_data}
      <3>1. \A y : y \in ToSet(Line') <=> \E i \in 1 .. n + 1 : Line'[i] = y
        BY <1>2 DEF ToSet
      <3>2. \A y : y \in ToSet(Line) <=> \E i \in 1 .. n : Line[i] = y
        BY <1>2 DEF ToSet
      <3>3. n + 1 \in 1 .. n + 1 /\ \A i \in 1 .. n : i \in 1 .. n + 1
        OBVIOUS
      <3>4. QED
        BY <1>2, <1>4, <3>1, <3>2, <3>3
    <2>2. InPump = {rev_data} /\ InPump' = {}
      BY DEF InPump, Pending
    <2>3. QED
      BY <2>1, <2>2 DEF Clean
  <1>8. \A i \in DOMAIN Contents' : Contents'[i] # 0
    BY <1>2, <1>3 DEF Clean
  <1>9. QED
    BY <1>5, <1>6, <1>7, <1>8 DEF Clean, Rising

LEMMA PumpQueueStep ==
    ASSUME QInv, QInv', PumpTyping, ReceiveInv, QueueStep(Pump)
    PROVE  ReceiveInv'
  <1>1. /\ Moves(Pump) /\ UNCHANGED <<op, arg>>
        /\ op[Pump] = "enqueue" /\ arg[Pump] = rev_data /\ pump = "wait"
        /\ pc'[Consumer] = pc[Consumer] /\ ret'[Consumer] = ret[Consumer]
    BY Who, QueueMoves DEF ReceiveInv
  <1>2. UNCHANGED <<delivered, pump, rev_data, arrived, socket, read, refused, failures>>
    BY Who DEF QueueStep, net
  <1>3. PumpTurn /\ Bounded /\ UNCHANGED Back
    BY <1>1 DEF ReceiveInv, Back
  <1>4. PumpTurn'
    BY <1>1, <1>2, <1>3, PumpMoves DEF PumpTurn
  <1>5. CASE /\ pc[Pump] = "up" /\ ret'[Pump] = <<1>>
             /\ Contents' = Append(Contents, arg[Pump])
    <2>1. Contents' \in Seq(0 .. arrived)
      <3>1. rev_data \in 0 .. arrived
        BY DEF PumpTyping
      <3>2. QED
        BY <1>1, <1>3, <1>5, <3>1 DEF Bounded
    <2>2. Bounded'
      BY <1>1, <1>2, <1>3, <2>1 DEF Bounded
    <2>3. Pending /\ ~Pending'
      <3>1. ret[Pump] = <<>>
        BY <1>1, <1>3, <1>5 DEF PumpTurn
      <3>2. ret[Pump] # <<1>>
        BY <3>1
      <3>3. QED
        BY <1>1, <1>2, <1>5, <3>2 DEF Pending
    <2>4. failures = 0 => Clean'
      BY <1>1, <1>2, <1>3, <1>5, <2>3, CleanGrows DEF ReceiveInv
    <2>5. QED
      BY <1>2, <1>4, <2>2, <2>4 DEF ReceiveInv
  <1>6. CASE /\ Contents' = Contents
             /\ \/ ret'[Pump] = <<0>> /\ pc[Pump] = "body"
                \/ ret'[Pump] = ret[Pump]
                \/ ret'[Pump] = <<>> /\ pc[Pump] \notin {"idle", "exit"}
    <2>1. Bounded'
      BY <1>1, <1>2, <1>3, <1>6, BoundedStays
    <2>2. Pending' <=> Pending
      <3>1. pc[Pump] \notin {"idle", "exit"} => ret[Pump] = <<>>
        BY <1>1, <1>3 DEF PumpTurn
      <3>2. <<>> # <<1>> /\ <<0>> # <<1>>
        OBVIOUS
      <3>3. QED
        BY <1>1, <1>2, <1>6, <3>1, <3>2 DEF Pending
    <2>3. failures = 0 => Clean'
      BY <1>2, <1>3, <1>6, <2>2, CleanStays DEF ReceiveInv, Line, Clean
    <2>4. QED
      BY <1>2, <1>4, <2>1, <2>3 DEF ReceiveInv
  <1>7. QED
    BY <1>1, <1>5, <1>6, PumpMoves

\* The consumer calls or looks, the pump starts over, setIsWork is called, or a
\* refused item is recorded.
LEMMA ControlStep ==
    ASSUME QInv, QInv', PumpTyping, ReceiveInv,
           \/ UNCHANGED allVars \/ Consume \/ Look \/ Start \/ Loop \/ Put \/ PutDone
           \/ \E b \in Settings : setIsWork(b)
    PROVE  ReceiveInv'
  <1>1. UNCHANGED <<delivered, rev_data, arrived, socket, read, failures>>
    BY DEF allVars, net, log, Consume, Look, Start, Loop, Put, PutDone, setIsWork
  <1>2. Contents' = Contents
    <2>1. UNCHANGED vars \/ \E t \in Threads : Query(t) \/ \E o, x : Call(t, o, x)
      BY Who DEF allVars, Consume, AnyCall, Look, Start, Loop, Put, PutDone, setIsWork
    <2>2. QED
      BY <2>1, OutsideContents
  <1>3. PumpTurn /\ Bounded
    BY DEF ReceiveInv
  <1>4. CASE Consume
    <2>1. PICK o \in Dequeues : \E x : Call(Consumer, o, x)
      BY <1>4, Who DEF Consume, AnyCall
    <2>2. /\ pc[Consumer] = "idle" /\ pc'[Consumer] = "lock"
          /\ pc'[Pump] = pc[Pump] /\ ret'[Pump] = ret[Pump]
          /\ op'[Pump] = op[Pump] /\ arg'[Pump] = arg[Pump]
      BY <2>1, Who DEF Call, Goto, Answer, QInv, IInv, TypeOK
    <2>3. UNCHANGED <<pump, refused>>
      BY <1>4 DEF Consume, log
    <2>4. PumpTurn' /\ Bounded'
      BY <1>1, <1>2, <1>3, <2>2, <2>3, BoundedStays DEF PumpTurn
    <2>5. UNCHANGED Line /\ (Pending' <=> Pending)
      BY <1>1, <1>2, <2>2, <2>3 DEF Line, Back, Pending
    <2>6. failures = 0 => Clean'
      BY <1>1, <1>2, <2>3, <2>5, CleanStays DEF ReceiveInv, Clean
    <2>7. QED
      BY <1>1, <2>4, <2>6 DEF ReceiveInv
  <1>5. CASE Put
    <2>1. /\ pc[Pump] = "idle" /\ pc'[Pump] = "lock" /\ ret'[Pump] = <<>>
          /\ op'[Pump] = "enqueue" /\ arg'[Pump] = rev_data
          /\ pc'[Consumer] = pc[Consumer] /\ ret'[Consumer] = ret[Consumer]
      BY <1>5, Who DEF Put, Call, Goto, Answer, QInv, IInv, TypeOK
    <2>2. pump = "put" /\ pump' = "wait" /\ UNCHANGED refused
      BY <1>5 DEF Put, log
    <2>3. PumpTurn' /\ Bounded'
      BY <1>1, <1>2, <1>3, <2>1, <2>2, BoundedStays DEF PumpTurn
    <2>4. Pending /\ Pending'
      <3>1. ret'[Pump] # <<1>>
        BY <2>1
      <3>2. QED
        BY <2>2, <3>1 DEF Pending
    <2>5. UNCHANGED Line
      BY <1>1, <1>2, <2>1 DEF Line, Back
    <2>6. failures = 0 => Clean'
      BY <1>1, <1>2, <2>2, <2>4, <2>5, CleanStays DEF ReceiveInv, Clean
    <2>7. QED
      BY <1>1, <2>3, <2>6 DEF ReceiveInv
  <1>6. CASE UNCHANGED allVars \/ Look \/ Start \/ Loop \/ PutDone \/ \E b \in Settings : setIsWork(b)
    <2>1. UNCHANGED <<pc, op, arg, ret, Line>>
      BY <1>2, <1>6 DEF allVars, vars, frame, log, Look, Query, Start, Loop, PutDone, setIsWork,
         Line, Back
    <2>2. CASE UNCHANGED <<pump, refused>>
      BY <1>1, <1>2, <1>3, <2>1, <2>2, BoundedStays, CleanStays
         DEF ReceiveInv, PumpTurn, Pending, Clean
    <2>3. CASE pump \in {"start", "loop"} /\ pump' \in {"loop", "recv"} /\ UNCHANGED refused
      <3>1. PumpTurn' /\ Bounded'
        BY <1>1, <1>2, <1>3, <2>1, <2>3, BoundedStays DEF PumpTurn
      <3>2. ~Pending /\ ~Pending'
        BY <2>3 DEF Pending
      <3>3. QED
        BY <1>1, <1>2, <2>1, <2>3, <3>1, <3>2, CleanStays DEF ReceiveInv, Clean
    <2>4. CASE PutDone
      <3>1. /\ pump = "wait" /\ pump' = "loop" /\ pc[Pump] = "idle"
            /\ refused' = IF ret[Pump] = <<0>> THEN refused \cup {rev_data} ELSE refused
        BY <2>4 DEF PutDone
      <3>2. PumpTurn'
        BY <1>3, <2>1, <3>1 DEF PumpTurn
      <3>3. rev_data \in 0 .. arrived
        BY DEF PumpTyping
      <3>4. Bounded'
        BY <1>1, <1>2, <1>3, <2>1, <3>1, <3>3 DEF Bounded
      <3>5. ~Pending'
        BY <3>1 DEF Pending
      <3>6. CASE ret[Pump] = <<1>>
        <4>1. ret[Pump] # <<0>>
          BY <3>6
        <4>2. UNCHANGED refused /\ ~Pending
          BY <3>1, <3>6, <4>1 DEF Pending
        <4>3. QED
          BY <1>1, <1>2, <2>1, <3>2, <3>4, <3>5, <4>2, CleanStays DEF ReceiveInv, Clean
      <3>7. CASE ret[Pump] = <<0>>
        <4>1. ret[Pump] # <<1>>
          BY <3>7
        <4>2. refused' = refused \cup {rev_data} /\ Pending
          BY <3>1, <3>7, <4>1 DEF Pending
        <4>3. InPump = {rev_data} /\ InPump' = {}
          BY <3>5, <4>2 DEF InPump, Pending
        <4>4. Clean => rev_data \in 1 .. rev_data
          BY <3>3, <4>2 DEF Clean, PumpTyping
        <4>5. failures = 0 => Clean'
          BY <1>1, <1>2, <2>1, <3>5, <4>2, <4>3, <4>4 DEF ReceiveInv, Clean, Rising
        <4>6. QED
          BY <1>1, <3>2, <3>4, <4>5 DEF ReceiveInv
      <3>8. QED
        BY <1>3, <3>1, <3>6, <3>7 DEF PumpTurn
    <2>5. QED
      BY <1>6, <2>2, <2>3, <2>4 DEF allVars, log, Look, Start, Loop, setIsWork
  <1>7. QED
    BY <1>4, <1>5, <1>6

LEMMA QueueUntouched ==
    ASSUME QInv, QInv', UNCHANGED <<vars, delivered>>
    PROVE  UNCHANGED <<Contents, Line, pc, op, arg, ret>>
  BY OutsideContents DEF vars, frame, Line, Back

\* Datagrams arrive and the other reader takes one.
LEMMA SocketStep ==
    ASSUME QInv, QInv', PumpTyping, ReceiveInv, Arrive \/ revDataByUdp
    PROVE  ReceiveInv'
  <1>1. /\ UNCHANGED <<vars, pump, rev_data, read, refused, delivered, failures>>
        /\ arrived' \in {arrived, arrived + 1}
    BY DEF Arrive, revDataByUdp, log
  <1>2. UNCHANGED <<Contents, Line, pc, op, arg, ret>>
    BY <1>1, QueueUntouched
  <1>3. PumpTurn'
    BY <1>1, <1>2 DEF ReceiveInv, PumpTurn
  <1>4. Bounded'
    <2>1. 0 .. arrived \subseteq 0 .. arrived'
      BY <1>1 DEF PumpTyping
    <2>2. QED
      BY <1>1, <1>2, <2>1, SeqMonotonic DEF ReceiveInv, Bounded
  <1>5. Clean => /\ \A i \in DOMAIN socket' : rev_data < socket'[i]
                 /\ Rising(socket')
    <2> SUFFICES ASSUME Clean PROVE (\A i \in DOMAIN socket' : rev_data < socket'[i]) /\ Rising(socket')
      OBVIOUS
    <2>1. PICK n \in Nat : DOMAIN socket = 1 .. n /\ n = Len(socket)
      BY DEF PumpTyping
    <2>2. /\ \A i \in 1 .. n : rev_data < socket[i] /\ socket[i] \in 1 .. arrived
          /\ \A i, j \in 1 .. n : i < j => socket[i] < socket[j]
          /\ rev_data \in Int /\ arrived \in Int /\ rev_data < arrived + 1
      <3>1. /\ \A i \in 1 .. n : rev_data < socket[i]
            /\ \A i, j \in 1 .. n : i < j => socket[i] < socket[j]
        BY <2>1 DEF Clean, Rising
      <3>2. \A i \in 1 .. n : socket[i] \in 1 .. arrived
        BY <2>1 DEF PumpTyping
      <3>3. rev_data \in Int /\ arrived \in Int /\ rev_data < arrived + 1
        BY DEF PumpTyping
      <3>4. QED
        BY <3>1, <3>2, <3>3
    <2>3. CASE Arrive /\ socket' = Append(socket, arrived + 1)
      <3>1. /\ DOMAIN socket' = 1 .. n + 1 /\ socket'[n + 1] = arrived + 1
            /\ \A i \in 1 .. n : socket'[i] = socket[i]
        <4>1. socket \in Seq(Int)
          BY Numbers DEF ReceiveInv
        <4>2. QED
          BY <2>1, <2>3, <4>1
      <3>2. \A i \in 1 .. n + 1 : i = n + 1 \/ i \in 1 .. n
        OBVIOUS
      <3>3. \A i \in 1 .. n : socket[i] < arrived + 1
        BY <2>2
      <3>4. \A i \in DOMAIN socket' : rev_data < socket'[i]
        BY <2>2, <3>1, <3>2
      <3>5. ASSUME NEW i \in 1 .. n + 1, NEW j \in 1 .. n + 1, i < j PROVE socket'[i] < socket'[j]
        <4>1. i \in 1 .. n
          BY <3>5
        <4>2. CASE j = n + 1
          BY <3>1, <3>3, <4>1, <4>2
        <4>3. CASE j \in 1 .. n
          BY <2>2, <3>1, <3>5, <4>1, <4>3
        <4>4. QED
          BY <3>2, <4>2, <4>3
      <3>6. QED
        BY <3>1, <3>4, <3>5 DEF Rising
    <2>4. CASE socket' = socket
      BY <2>1, <2>2, <2>4 DEF Rising
    <2>5. CASE socket # <<>> /\ socket' = Tail(socket)
      <3>1. /\ DOMAIN socket' = 1 .. n - 1
            /\ \A i \in 1 .. n - 1 : socket'[i] = socket[i + 1] /\ i + 1 \in 1 .. n
        <4>1. socket \in Seq(Int)
          BY Numbers DEF ReceiveInv
        <4>2. /\ Tail(socket) \in Seq(Int) /\ Len(Tail(socket)) = n - 1
              /\ \A i \in 1 .. n - 1 : Tail(socket)[i] = socket[i + 1]
          BY <2>1, <2>5, <4>1, HeadTailProperties
        <4>3. QED
          BY <2>1, <2>5, <4>2
      <3>2. \A i \in DOMAIN socket' : rev_data < socket'[i]
        BY <2>2, <3>1
      <3>3. ASSUME NEW i \in 1 .. n - 1, NEW j \in 1 .. n - 1, i < j PROVE socket'[i] < socket'[j]
        <4>1. i + 1 \in 1 .. n /\ j + 1 \in 1 .. n /\ i + 1 < j + 1
          BY <3>1, <3>3
        <4>2. QED
          BY <2>2, <3>1, <4>1
      <3>4. QED
        BY <3>1, <3>2, <3>3 DEF Rising
    <2>6. QED
      BY <2>3, <2>4, <2>5 DEF Arrive, revDataByUdp
  <1>6. failures = 0 => Clean'
    BY <1>1, <1>2, <1>5 DEF ReceiveInv, Clean, Rising, InPump, Pending
  <1>7. QED
    BY <1>1, <1>3, <1>4, <1>6 DEF ReceiveInv

LEMMA ReceiveStep ==
    ASSUME QInv, QInv', PumpTyping, ReceiveInv, Receive
    PROVE  ReceiveInv'
  <1>1. /\ UNCHANGED <<vars, delivered, refused, arrived>>
        /\ pump = "recv" /\ pump' = "put"
    BY DEF Receive
  <1>2. UNCHANGED <<Contents, Line, pc, op, arg, ret>>
    BY <1>1, QueueUntouched
  <1>3. PumpTurn'
    BY <1>1, <1>2 DEF ReceiveInv, PumpTurn
  <1>4. Bounded'
    BY <1>1, <1>2, BoundedStays DEF ReceiveInv
  <1>5. CASE failures' = failures + 1
    <2>1. failures' # 0
      BY <1>5 DEF PumpTyping
    <2>2. QED
      BY <1>3, <1>4, <2>1 DEF ReceiveInv
  <1>6. CASE /\ socket # <<>> /\ rev_data' = Head(socket) /\ socket' = Tail(socket)
             /\ read' = read \cup {Head(socket)} /\ UNCHANGED failures
    <2> SUFFICES ASSUME failures = 0 PROVE Clean'
      BY <1>3, <1>4, <1>6 DEF ReceiveInv
    <2>1. Clean
      BY DEF ReceiveInv
    <2>2. PICK n \in Nat :
             /\ DOMAIN socket = 1 .. n /\ n > 0 /\ rev_data' = socket[1]
             /\ DOMAIN socket' = 1 .. n - 1
             /\ \A i \in 1 .. n - 1 : socket'[i] = socket[i + 1] /\ i + 1 \in 1 .. n
      <3>1. socket \in Seq(Int)
        BY Numbers DEF ReceiveInv
      <3>2. PICK n \in Nat : n = Len(socket)
        BY <3>1
      <3>3. /\ Tail(socket) \in Seq(Int) /\ Len(Tail(socket)) = n - 1
            /\ \A i \in 1 .. n - 1 : Tail(socket)[i] = socket[i + 1]
            /\ Head(socket) = socket[1] /\ n > 0
        BY <1>6, <3>1, <3>2, HeadTailProperties
      <3>4. QED
        BY <1>6, <3>1, <3>2, <3>3
    <2>3. /\ \A i \in 1 .. n : rev_data < socket[i] /\ socket[i] \in Int
          /\ \A i, j \in 1 .. n : i < j => socket[i] < socket[j]
          /\ rev_data \in Nat
      <3>1. /\ \A i \in 1 .. n : rev_data < socket[i]
            /\ \A i, j \in 1 .. n : i < j => socket[i] < socket[j]
        BY <2>1, <2>2 DEF Clean, Rising
      <3>2. \A i \in 1 .. n : socket[i] \in Int
        BY <2>2 DEF PumpTyping
      <3>3. rev_data \in Nat
        BY DEF PumpTyping
      <3>4. QED
        BY <3>1, <3>2, <3>3
    <2>4. rev_data' \in Int /\ rev_data < rev_data'
      BY <2>2, <2>3
    <2>5. 1 .. rev_data \subseteq 1 .. rev_data' /\ rev_data' \notin 1 .. rev_data /\ rev_data' # 0
      BY <2>3, <2>4
    <2>6. /\ \A i \in DOMAIN Line' : Line'[i] \in 1 .. rev_data' /\ Line'[i] # rev_data'
          /\ refused' \subseteq 1 .. rev_data' /\ rev_data' \notin {0} \cup refused'
      BY <1>1, <1>2, <2>1, <2>5 DEF Clean
    <2>7. /\ \A i \in DOMAIN socket' : rev_data' < socket'[i]
          /\ Rising(socket')
      BY <2>2, <2>3 DEF Rising
    <2>8. read' = InPump' \cup ToSet(Line') \cup refused'
      <3>1. InPump = {} /\ InPump' = {rev_data'}
        BY <1>1 DEF InPump
      <3>2. QED
        BY <1>1, <1>2, <1>6, <2>1, <3>1 DEF Clean
    <2>9. QED
      BY <1>1, <1>2, <2>1, <2>6, <2>7, <2>8 DEF Clean
  <1>7. QED
    BY <1>5, <1>6 DEF Receive

\* The inductive invariant of the receive pump and its consumer.
THEOREM ReceiveInvariant == ReceiveSpec => [](QInv /\ PumpTyping /\ ReceiveInv)
  <1>1. ReceiveInit /\ QInv => ReceiveInv
    <2> SUFFICES ASSUME ReceiveInit, QInv PROVE ReceiveInv
      OBVIOUS
    <2>1. Contents = <<>>
      <3>1. Contents = Rest("idle", data_, head_, count_)
        BY ContentsFree DEF FreeView, QInv, ReceiveInit, Init
      <3>2. QED
        BY <3>1 DEF Rest, Left, Init, ReceiveInit
    <2>2. PumpTurn /\ Bounded
      BY <2>1, Who DEF ReceiveInit, Init, PumpTurn, Bounded
    <2>3. Line = <<>>
      BY <2>1, Who DEF Line, Back, ReceiveInit, Init
    <2>4. Clean
      BY <2>1, <2>3 DEF Clean, ReceiveInit, Rising, InPump, Pending, ToSet
    <2>5. QED
      BY <2>2, <2>4 DEF ReceiveInv
  <1>2. ReceiveInv /\ QInv /\ QInv' /\ PumpTyping /\ [ReceiveNext]_allVars => ReceiveInv'
    BY Who, ConsumerStep, PumpQueueStep, ControlStep, SocketStep, ReceiveStep
       DEF ReceiveNext, PumpStep
  <1>3. QED
    BY <1>1, <1>2, BelowInv, PTL DEF ReceiveSpec

\* Every variable of the pump, of its socket and of its queue stays in its type,
\* and nothing comes out that did not arrive.
THEOREM ReceiveTypes == ReceiveSpec => []ReceiveTypeOK
  <1>1. QInv /\ PumpTyping /\ ReceiveInv => ReceiveTypeOK
    BY ItemsAreNumbers DEF QInv, IInv, PumpTyping, ReceiveInv, Bounded, ReceiveTypeOK
  <1>2. QED
    BY <1>1, ReceiveInvariant, PTL

-----------------------------------------------------------------------------
\* The places of Conserved are those of the line.
LEMMA ConcatSet ==
    ASSUME NEW s \in Seq(Int), NEW u \in Seq(Int)
    PROVE  ToSet(s \o u) = ToSet(s) \cup ToSet(u)
  <1>1. PICK m \in Nat, n \in Nat :
           /\ DOMAIN s = 1 .. m /\ DOMAIN u = 1 .. n /\ DOMAIN (s \o u) = 1 .. m + n
           /\ \A i \in 1 .. m + n : (s \o u)[i] = IF i <= m THEN s[i] ELSE u[i - m]
    <2>1. PICK m \in Nat, n \in Nat : m = Len(s) /\ n = Len(u)
      OBVIOUS
    <2>2. /\ s \o u \in Seq(Int) /\ Len(s \o u) = m + n
          /\ \A i \in 1 .. m + n : (s \o u)[i] = IF i <= m THEN s[i] ELSE u[i - m]
      BY <2>1, ConcatProperties
    <2>3. DOMAIN s = 1 .. m /\ DOMAIN u = 1 .. n /\ DOMAIN (s \o u) = 1 .. m + n
      BY <2>1, <2>2, LenProperties
    <2>4. QED
      BY <2>2, <2>3
  <1>2. \A y : y \in ToSet(s) <=> \E i \in 1 .. m : s[i] = y
    BY <1>1 DEF ToSet
  <1>3. \A y : y \in ToSet(u) <=> \E i \in 1 .. n : u[i] = y
    BY <1>1 DEF ToSet
  <1>4. \A y : y \in ToSet(s \o u) <=> \E i \in 1 .. m + n : (s \o u)[i] = y
    BY <1>1 DEF ToSet
  <1>5. ASSUME NEW y, NEW i \in 1 .. m + n, (s \o u)[i] = y PROVE y \in ToSet(s) \cup ToSet(u)
    <2>1. CASE i <= m
      BY <1>1, <1>2, <1>5, <2>1
    <2>2. CASE ~(i <= m)
      <3>1. i - m \in 1 .. n
        BY <2>2
      <3>2. QED
        BY <1>1, <1>3, <1>5, <2>2, <3>1
    <2>3. QED
      BY <2>1, <2>2
  <1>6. ASSUME NEW i \in 1 .. m PROVE s[i] \in ToSet(s \o u)
    <2>1. i \in 1 .. m + n /\ i <= m
      OBVIOUS
    <2>2. QED
      BY <1>1, <1>4, <2>1
  <1>7. ASSUME NEW i \in 1 .. n PROVE u[i] \in ToSet(s \o u)
    <2>1. PICK j \in 1 .. m + n : ~(j <= m) /\ j - m = i
      <3>1. m + i \in 1 .. m + n /\ ~(m + i <= m) /\ m + i - m = i
        OBVIOUS
      <3>2. QED
        BY <3>1
    <2>2. (s \o u)[j] = u[j - m]
      BY <1>1, <2>1
    <2>3. (s \o u)[j] = u[i]
      BY <2>1, <2>2
    <2>4. QED
      BY <1>4, <2>3
  <1>8. QED
    BY <1>2, <1>3, <1>4, <1>5, <1>6, <1>7

LEMMA HandAndRing ==
    ASSUME QInv, pc[Pump] \notin {"take", "head", "down"}
    PROVE  /\ Unread \in Seq(Int)
           /\ InHand = IF pc[Consumer] \in {"take", "head", "down"} THEN ret[Consumer] ELSE <<>>
  <1>1. TypeOK /\ MutualExclusion
    BY DEF QInv, IInv
  <1>2. InHand = IF pc[Consumer] \in {"take", "head", "down"} THEN ret[Consumer] ELSE <<>>
    <2>1. (\E t \in Threads : pc[t] \in {"take", "head", "down"})
             <=> pc[Consumer] \in {"take", "head", "down"}
      BY Who
    <2>2. pc[Consumer] \in {"take", "head", "down"} => mtx_ = Consumer
      BY <1>1, Who DEF MutualExclusion, Inside
    <2>3. QED
      BY <2>1, <2>2 DEF InHand
  <1>3. CASE pc[Consumer] \in {"take", "head", "down"}
    <2>1. \A l \in {"take", "head", "down"} : At(l) <=> pc[Consumer] = l
      BY Who DEF At
    <2>2. Unread = Rest(pc[Consumer], data_, head_, count_)
      BY <1>3, <2>1 DEF Unread, Rest, Left, Skip
    <2>3. count_ > 0
      BY <1>3, Who DEF QInv, IInv, RingInv
    <2>4. QED
      BY <1>1, <1>2, <1>3, <2>2, <2>3, RestIsSeq DEF Labels
  <1>4. CASE pc[Consumer] \notin {"take", "head", "down"}
    <2>1. ~At("head") /\ ~At("down")
      BY <1>4, Who DEF At
    <2>2. Unread = Rest("idle", data_, head_, count_)
      BY <2>1 DEF Unread, Rest, Left, Skip
    <2>3. QED
      BY <1>1, <1>2, <2>2, RestIsSeq DEF Labels
  <1>5. QED
    BY <1>3, <1>4

LEMMA LinePlaces ==
    ASSUME QInv, PumpTyping, Bounded, PumpTurn
    PROVE  /\ ToSet(Line) \ {NoItem}
                 = (ToSet(delivered) \cup InConsumer \cup InQueue) \ {NoItem}
           /\ ToSet(delivered) \subseteq ToSet(Line)
  <1>1. /\ delivered \in Seq(Int) /\ Back \in Seq(Int) /\ Contents \in Seq(Int)
        /\ Back \o Contents \in Seq(Int)
    BY Numbers, ConcatProperties
  <1>2. pc[Pump] \notin {"take", "head", "down"}
    BY Who DEF PumpTurn, QInv, OpInv
  <1>3. /\ Unread \in Seq(Int)
        /\ InHand = IF pc[Consumer] \in {"take", "head", "down"} THEN ret[Consumer] ELSE <<>>
    BY <1>2, HandAndRing
  <1>4. ret[Consumer] \in Seq(Int) /\ InHand \in Seq(Int)
    BY <1>3, Who DEF QInv, IInv, TypeOK
  <1>5. ToSet(Contents) = ToSet(InHand) \cup ToSet(Unread)
    BY <1>3, <1>4, ConcatSet DEF Contents
  <1>6. ToSet(Line) = ToSet(delivered) \cup ToSet(Back) \cup ToSet(Contents)
    <2>1. ToSet(Back \o Contents) = ToSet(Back) \cup ToSet(Contents)
      BY <1>1, ConcatSet
    <2>2. ToSet(delivered \o (Back \o Contents)) = ToSet(delivered) \cup ToSet(Back \o Contents)
      BY <1>1, ConcatSet
    <2>3. QED
      BY <2>1, <2>2 DEF Line
  <1>7. ToSet(<<>>) = {} /\ ToSet(<<NoItem>>) = {NoItem}
    <2>1. \A s : ToSet(s) = {s[i] : i \in DOMAIN s}
      BY DEF ToSet
    <2>2. DOMAIN <<>> = {} /\ DOMAIN <<NoItem>> = {1} /\ <<NoItem>>[1] = NoItem
      OBVIOUS
    <2>3. QED
      BY <2>1, <2>2
  <1>8. (ToSet(Back) \cup ToSet(InHand)) \ {NoItem} = InConsumer \ {NoItem}
    <2>1. CASE pc[Consumer] \in {"take", "head", "down"}
      BY <1>3, <1>7, <2>1 DEF Back, InConsumer
    <2>2. CASE pc[Consumer] = "exit"
      BY <1>3, <1>7, <2>2 DEF Back, InConsumer
    <2>3. CASE pc[Consumer] = "idle"
      BY <1>3, <1>7, <2>3 DEF Back, InConsumer
    <2>4. CASE pc[Consumer] \in {"lock", "body", "sleep", "store", "tail", "up"}
      <3>1. ret[Consumer] = <<>>
        BY <2>4, Who DEF QInv, RetInv
      <3>2. QED
        BY <1>3, <1>7, <2>4, <3>1 DEF Back, InConsumer
    <2>5. QED
      BY <2>1, <2>2, <2>3, <2>4, Who DEF QInv, IInv, TypeOK, Labels
  <1>9. QED
    BY <1>5, <1>6, <1>8 DEF InQueue

\* As long as recvfrom has not failed, a datagram the pump read is on its way,
\* delivered or refused by a full queue, and the consumer gets its datagrams
\* once each and in the order in which they arrived (CdrawNet.cc:110-123).
THEOREM DatagramsConserved == ReceiveSpec => []Conserved
  <1>1. QInv /\ PumpTyping /\ ReceiveInv => Conserved
    <2> SUFFICES ASSUME QInv, PumpTyping, ReceiveInv, failures = 0
                 PROVE  /\ read = (InPump \cup InQueue \cup InConsumer \cup ToSet(delivered) \cup refused)
                                      \ {NoItem}
                        /\ \A i, j \in DOMAIN delivered : i < j => delivered[i] < delivered[j]
                        /\ refused \cap ToSet(delivered) = {}
      BY DEF Conserved
    <2>1. Clean /\ Bounded /\ PumpTurn
      BY DEF ReceiveInv
    <2>2. /\ delivered \in Seq(Int) /\ Back \o Contents \in Seq(Int)
      BY <2>1, Numbers, ConcatProperties
    <2>3. \A y \in ToSet(Line) : y # NoItem /\ y \notin refused
      BY <2>1 DEF Clean, ToSet, NoItem
    <2>4. \A y \in InPump \cup refused : y # NoItem
      BY <2>1 DEF Clean, InPump, Pending, NoItem
    <2>5. /\ ToSet(Line) \ {NoItem}
                = (ToSet(delivered) \cup InConsumer \cup InQueue) \ {NoItem}
          /\ ToSet(delivered) \subseteq ToSet(Line)
      BY <2>1, LinePlaces
    <2>6. read = InPump \cup ToSet(Line) \cup refused
      BY <2>1 DEF Clean
    <2>7. PICK m \in Nat : /\ DOMAIN delivered = 1 .. m
                           /\ \A i \in 1 .. m : i \in DOMAIN Line /\ Line[i] = delivered[i]
      <3>1. PICK m \in Nat, n \in Nat :
               /\ DOMAIN delivered = 1 .. m /\ DOMAIN Line = 1 .. m + n
               /\ \A i \in 1 .. m + n : i <= m => Line[i] = delivered[i]
        <4>1. PICK m \in Nat, n \in Nat : m = Len(delivered) /\ n = Len(Back \o Contents)
          BY <2>2
        <4>2. /\ Line \in Seq(Int) /\ Len(Line) = m + n
              /\ \A i \in 1 .. m + n : i <= m => Line[i] = delivered[i]
          BY <2>2, <4>1, ConcatProperties DEF Line
        <4>3. DOMAIN delivered = 1 .. m /\ DOMAIN Line = 1 .. m + n
          BY <2>2, <4>1, <4>2, LenProperties
        <4>4. QED
          BY <4>2, <4>3
      <3>2. \A i \in 1 .. m : i \in 1 .. m + n /\ i <= m
        OBVIOUS
      <3>3. QED
        BY <3>1, <3>2
    <2>8. \A i, j \in DOMAIN delivered : i < j => delivered[i] < delivered[j]
      BY <2>1, <2>7 DEF Clean, Rising
    <2>9. QED
      BY <2>3, <2>4, <2>5, <2>6, <2>8
  <1>2. QED
    BY <1>1, ReceiveInvariant, PTL
=============================================================================
