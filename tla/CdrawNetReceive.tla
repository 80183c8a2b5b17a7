--------------------------- MODULE CdrawNetReceive ---------------------------
(***************************************************************************)
(* CdrawNet::revDatesByUdpToQueue and revDataByUdp                         *)
(* (cdrawTools/net/CdrawNet.cc:77-86, 110-123): a thread of its own reads  *)
(* datagrams from a UDP socket and enqueues them in a CdrawQueue, from     *)
(* which a consumer takes them; another thread may call revDataByUdp on    *)
(* the same object.  Datagrams are 1, 2, ... in the order they reach the   *)
(* socket: what the network lost, copied or reordered happened before.     *)
(* Both give recvfrom the number sizeof(remote_addr_) where it wants the   *)
(* place of a length: the kernel takes the datagram, copies it to the      *)
(* buffer, then faults on the length and answers -1.                       *)
(*                                                                         *)
(* pump: "start" before setIsWork(isWork), "loop" at the read of is_work_, *)
(* "recv" in recvfrom, "put" before enqueue, "wait" in it                  *)
(***************************************************************************)
EXTENDS CdrawQueue, SequencesExt

CONSTANTS Pump,         \* the thread that runs revDatesByUdpToQueue
          Consumer,     \* the thread that takes the items
          MaxDatagrams, \* bound: how many datagrams reach the socket
          SocketBuffer, \* how many of them the kernel keeps
          MaxFailures,  \* bound: how often recvfrom fails without a datagram
          ReplyMod,     \* REV_SIZE is a uint32_t: 2^32, scaled down
          Starts,       \* the values of the argument isWork
          Settings      \* the values other threads pass to setIsWork

ASSUME ReceiveAssumption == /\ Threads = {Pump, Consumer} /\ Pump # Consumer
                            /\ "enqueue" \in Calls[Pump]
                            /\ Calls[Consumer] \subseteq Dequeues \cup {"isEmpty", "isFull"}
                            /\ MaxDatagrams \in Nat
                            /\ Items = 0 .. MaxDatagrams
                            /\ SocketBuffer \in Nat
                            /\ MaxFailures \in Nat
                            /\ ReplyMod \in Nat \ {0}
                            /\ Starts \subseteq BOOLEAN /\ Settings \subseteq BOOLEAN

VARIABLES is_work_, pump, rev_data,
          arrived,    \* how many datagrams have reached the socket
          socket,     \* those the kernel holds for net_fd_
          read,       \* those recvfrom gave the pump
          refused,    \* those a full queue refused
          delivered,  \* what the consumer got, in order
          failures,   \* how often recvfrom has failed
          once        \* revDataByUdp: what is in the buffer, what it returned

net == <<arrived, socket>>
log == <<read, refused, delivered, failures>>
allVars == <<vars, is_work_, pump, rev_data, net, log, once>>

\* What a caller of revDataByUdp gets for -1, which its type cannot hold.
Failed == (-1) % ReplyMod
NotCalled == [buffer |-> NoItem, result |-> 0]

\* T rev_data is not initialised: any value of T.
ReceiveInit == /\ Init
               /\ is_work_ \in BOOLEAN
               /\ pump = "start"
               /\ rev_data = NoItem
               /\ arrived = 0 /\ socket = <<>>
               /\ read = {} /\ refused = {} /\ delivered = <<>> /\ failures = 0
               /\ once = NotCalled

\* The kernel drops a datagram that finds the socket's buffer full.
Arrive == /\ arrived < MaxDatagrams
          /\ arrived' = arrived + 1
          /\ socket' = IF Len(socket) < SocketBuffer THEN Append(socket, arrived + 1)
                                                    ELSE socket
          /\ UNCHANGED <<vars, is_work_, pump, rev_data, log, once>>

setIsWork(b) == /\ is_work_' = b
                /\ UNCHANGED <<vars, pump, rev_data, net, log, once>>

\* With a buffer, recvfrom takes a datagram; with NULL or size 0 the socket is
\* left alone.  The answer is -1 either way.
revDataByUdp == /\ once = NotCalled
                /\ \/ /\ socket # <<>>
                      /\ once' = [buffer |-> Head(socket), result |-> Failed]
                      /\ socket' = Tail(socket)
                   \/ /\ once' = [buffer |-> NoItem, result |-> Failed]
                      /\ UNCHANGED socket
                /\ UNCHANGED <<vars, is_work_, pump, rev_data, arrived, log>>

-----------------------------------------------------------------------------
Start == /\ pump = "start"
         /\ \E isWork \in Starts : is_work_' = isWork
         /\ pump' = "loop"
         /\ UNCHANGED <<vars, rev_data, net, log, once>>

Loop == /\ pump = "loop"
        /\ is_work_
        /\ pump' = "recv"
        /\ UNCHANGED <<vars, is_work_, rev_data, net, log, once>>

\* Mutant: the datagram is looked at, not taken (MSG_PEEK).
Peek == /\ pump = "recv"
        /\ socket # <<>>
        /\ rev_data' = Head(socket)
        /\ read' = read \cup {Head(socket)}
        /\ pump' = "put"
        /\ UNCHANGED <<vars, is_work_, net, refused, delivered, failures, once>>

\* The result of recvfrom is not looked at: a datagram is in rev_data although
\* the answer is -1, and after a failure without one rev_data is what it was.
Receive == /\ pump = "recv"
           /\ \/ /\ socket # <<>>
                 /\ rev_data' = Head(socket)
                 /\ socket' = Tail(socket)
                 /\ read' = read \cup {Head(socket)}
                 /\ UNCHANGED failures
              \/ /\ failures < MaxFailures
                 /\ failures' = failures + 1
                 /\ UNCHANGED <<rev_data, socket, read>>
           /\ pump' = "put"
           /\ UNCHANGED <<vars, is_work_, arrived, refused, delivered, once>>

Put == /\ pump = "put"
       /\ Call(Pump, "enqueue", rev_data)
       /\ pump' = "wait"
       /\ UNCHANGED <<is_work_, rev_data, net, log, once>>

\* Mutant: the pump returns when enqueue refuses.
PutDoneOrStop == /\ pump = "wait" /\ pc[Pump] = "idle"
                 /\ pump' = IF ret[Pump] = <<0>> THEN "stopped" ELSE "loop"
                 /\ refused' = IF ret[Pump] = <<0>> THEN refused \cup {rev_data} ELSE refused
                 /\ UNCHANGED <<vars, is_work_, rev_data, net, read, delivered, failures, once>>

\* enqueue's answer is not looked at either; "refused" only records it.
PutDone == /\ pump = "wait" /\ pc[Pump] = "idle"
           /\ pump' = "loop"
           /\ refused' = IF ret[Pump] = <<0>> THEN refused \cup {rev_data} ELSE refused
           /\ UNCHANGED <<vars, is_work_, rev_data, net, read, delivered, failures, once>>

PumpStep == Start \/ Loop \/ Receive \/ Put \/ PutDone

QueueStep(t) == /\ Acquire(t) \/ Body(t)
                /\ delivered' = IF t = Consumer /\ pc[t] = "exit" /\ ret[t] # <<NoItem>>
                                THEN delivered \o ret[t] ELSE delivered
                /\ UNCHANGED <<is_work_, pump, rev_data, net, read, refused, failures, once>>

Consume == /\ AnyCall(Consumer)
           /\ UNCHANGED <<is_work_, pump, rev_data, net, log, once>>

\* The consumer looks whether the queue is empty.
Look == /\ Query(Consumer)
        /\ UNCHANGED <<is_work_, pump, rev_data, net, log, once>>

ReceiveNext == \/ Arrive \/ revDataByUdp
               \/ \E b \in Settings : setIsWork(b)
               \/ PumpStep
               \/ Consume \/ Look \/ \E t \in Threads : QueueStep(t)

ReceiveSpec == ReceiveInit /\ [][ReceiveNext]_allVars

\* Both threads run, and whoever holds the mutex; a free mutex that is waited
\* for is taken by somebody, as std::mutex promises, but not by each in turn.
ReceiveFairness == /\ WF_allVars(PumpStep) /\ WF_allVars(Consume)
                   /\ \A t \in Threads : WF_allVars(QueueStep(t) /\ mtx_ = t)
                   /\ WF_allVars(\E t \in Threads : QueueStep(t) /\ mtx_ = NoThread)

FairReceiveSpec == ReceiveSpec /\ ReceiveFairness

-----------------------------------------------------------------------------
\* The type invariant, with the queue's own.
ReceiveTypeOK == /\ TypeOK
                 /\ is_work_ \in BOOLEAN
                 /\ pump \in {"start", "loop", "recv", "put", "wait"}
                 /\ rev_data \in Items
                 /\ socket \in Seq(1 .. arrived) /\ Len(socket) <= SocketBuffer
                 /\ read \cup refused \subseteq 0 .. arrived
                 /\ delivered \in Seq(0 .. arrived)
                 /\ once.result \in {0, ReplyMod - 1} /\ failures \in 0 .. MaxFailures

\* The datagrams between recvfrom and the consumer: in rev_data, in the
\* queue, or in the hands of a dequeue that has not returned.
InPump == IF pump = "put" \/ (pump = "wait" /\ ret[Pump] # <<1>>) THEN {rev_data} ELSE {}
InConsumer == IF pc[Consumer] = "idle" THEN {} ELSE ToSet(ret[Consumer])
InQueue == ToSet(Unread)

\* As long as recvfrom has not failed, every datagram read is in exactly the
\* places it may be: on its way, delivered or refused by a full queue; and what
\* the consumer got came in order and once.
Conserved ==
    failures = 0 =>
       /\ read = (InPump \cup InQueue \cup InConsumer \cup ToSet(delivered) \cup refused)
                    \ {NoItem}
       /\ \A i, j \in DOMAIN delivered : i < j => delivered[i] < delivered[j]
       /\ refused \cap ToSet(delivered) = {}

\* No thread waits for the mutex for ever.
NobodyStarves == \A t \in Threads : []<>(pc[t] # "lock")

\* Where the mutex starves nobody, a datagram the pump read reaches the consumer
\* unless the queue refused it, however setIsWork is toggled and recvfrom fails
\* afterwards.
ReadIsDelivered ==
    NobodyStarves =>
        \A d \in 1 .. MaxDatagrams : d \in read ~> d \in refused \cup ToSet(delivered)
=============================================================================
