---------------------------- MODULE CdrawNetSend ----------------------------
(***************************************************************************)
(* CdrawNet::sendDatesByUdpFromQueue (cdrawTools/net/CdrawNet.cc:88-108):  *)
(* a thread of its own takes items out of a CdrawQueue with dequeueBlock   *)
(* and hands them to sendto, while producers enqueue and somebody else     *)
(* calls setIsWork on the same object.  The queue is CdrawQueue itself,    *)
(* step by step, mutex included: the pump sleeps inside it.                *)
(*                                                                         *)
(* pump: "start" before setIsWork(isWork), "ask" before dequeueBlock,      *)
(* "wait" in it, "test" past the read of is_work_, "nap" in the 5 ms sleep *)
(***************************************************************************)
EXTENDS CdrawQueue, SequencesExt

CONSTANTS Producers,    \* the threads that enqueue
          Pump,         \* the thread that runs sendDatesByUdpFromQueue
          MaxItems,     \* bound: how many items are produced, 1, 2, ... MaxItems
          PackageSizes, \* the values of the argument package_size
          CounterMod,   \* get_count is a uint8_t: 256, scaled down
          Starts,       \* the values of the argument isWork
          Settings      \* the values other threads pass to setIsWork

ASSUME SendAssumption == /\ Threads = Producers \cup {Pump}
                         /\ Pump \notin Producers
                         /\ \A p \in Producers : "enqueue" \in Calls[p]
                         /\ "dequeueBlock" \in Calls[Pump]
                         /\ MaxItems \in Nat /\ Items = 1 .. MaxItems
                         /\ PackageSizes \subseteq Nat
                         /\ CounterMod \in Nat \ {0}
                         /\ Starts \subseteq BOOLEAN /\ Settings \subseteq BOOLEAN

VARIABLES is_work_, pump, package_size, isWork, get_count, send_data,
          made,       \* how many items the producers have made
          accepted,   \* the items enqueue took, in order
          wire,       \* the items handed to sendto, in order
          wish,       \* what setIsWork was last asked from outside, or "none"
          late        \* items sent since is_work_ last became false

control == <<is_work_, wish>>
args == <<package_size, isWork>>
history == <<made, accepted>>
allVars == <<vars, control, pump, args, get_count, send_data, history, wire, late>>

SendInit == /\ Init
            /\ is_work_ \in BOOLEAN
            /\ pump = "start"
            /\ package_size \in PackageSizes
            /\ isWork \in Starts
            /\ get_count = 0
            /\ send_data = NoItem
            /\ made = 0 /\ accepted = <<>> /\ wire = <<>>
            /\ wish = "none"
            /\ late = 0

Produce(t) == /\ made < MaxItems
              /\ Call(t, "enqueue", made + 1)
              /\ made' = made + 1
              /\ UNCHANGED <<control, pump, args, get_count, send_data, accepted, wire, late>>

QueueStep(t) == /\ Acquire(t) \/ Body(t)
                /\ accepted' = IF pc[t] = "up" THEN Append(accepted, arg[t]) ELSE accepted
                /\ UNCHANGED <<control, pump, args, get_count, send_data, made, wire, late>>

\* setIsWork called from outside: a plain store to a plain bool.
setIsWork(b) == /\ is_work_' = b
                /\ wish' = IF b THEN "work" ELSE "stop"
                /\ late' = IF b \/ is_work_ THEN 0 ELSE late
                /\ UNCHANGED <<vars, pump, args, get_count, send_data, history, wire>>

-----------------------------------------------------------------------------
Start == /\ pump = "start"
         /\ is_work_' = isWork
         /\ pump' = "ask"
         /\ UNCHANGED <<vars, wish, args, get_count, send_data, history, wire, late>>

Ask == /\ pump = "ask"
       /\ Call(Pump, "dequeueBlock", NoItem)
       /\ pump' = "wait"
       /\ UNCHANGED <<control, args, get_count, send_data, history, wire, late>>

\* Mutant: is_work_ is read before the loop only.
TakeUnasked == /\ pump = "wait" /\ pc[Pump] = "idle"
               /\ send_data' = Head(ret[Pump])
               /\ get_count' = (get_count + 1) % CounterMod
               /\ pump' = IF isWork THEN "test" ELSE "nap"
               /\ UNCHANGED <<vars, control, args, history, wire, late>>

\* dequeueBlock returned: count the item, read is_work_.
Take == /\ pump = "wait" /\ pc[Pump] = "idle"
        /\ send_data' = Head(ret[Pump])
        /\ get_count' = (get_count + 1) % CounterMod
        /\ pump' = IF is_work_ THEN "test" ELSE "nap"
        /\ UNCHANGED <<vars, control, args, history, wire, late>>

Nap == /\ pump = "nap"
       /\ pump' = "ask"
       /\ UNCHANGED <<vars, control, args, get_count, send_data, history, wire, late>>

\* Mutant: the comparison is strict.
SendStrict == /\ pump = "test"
              /\ IF get_count > package_size
                 THEN /\ wire' = Append(wire, send_data)
                      /\ get_count' = 0
                      /\ late' = IF is_work_ THEN 0 ELSE late + 1
                 ELSE UNCHANGED <<wire, get_count, late>>
              /\ pump' = "ask"
              /\ UNCHANGED <<vars, control, args, send_data, history>>

\* Mutant: the item is sent and then sent again with the next one.
SendTwice == /\ pump = "test"
             /\ wire' = wire \o <<send_data, send_data>>
             /\ get_count' = 0
             /\ pump' = "ask"
             /\ UNCHANGED <<vars, control, args, send_data, history, late>>

\* One sendto of the item in hand when enough items were counted; its
\* result is not looked at.
Send == /\ pump = "test"
        /\ IF get_count >= package_size
           THEN /\ wire' = Append(wire, send_data)
                /\ get_count' = 0
                /\ late' = IF is_work_ THEN 0 ELSE late + 1
           ELSE UNCHANGED <<wire, get_count, late>>
        /\ pump' = "ask"
        /\ UNCHANGED <<vars, control, args, send_data, history>>

PumpStep == Start \/ Ask \/ Take \/ Nap \/ Send

\* A producer looks whether the queue is full.
Look(t) == /\ Query(t)
           /\ UNCHANGED <<control, pump, args, get_count, send_data, history, wire, late>>

SendNext == \/ \E t \in Producers : Produce(t) \/ Look(t)
            \/ \E t \in Threads : QueueStep(t)
            \/ \E b \in Settings : setIsWork(b)
            \/ PumpStep

SendSpec == SendInit /\ [][SendNext]_allVars

\* The pump and whoever holds the mutex are scheduled; a free mutex that is
\* waited for is taken.  Producers and setIsWork are not obliged to run.
SendFairness == /\ WF_allVars(PumpStep)
                /\ \A t \in Threads : WF_allVars(QueueStep(t) /\ mtx_ = t)
                /\ WF_allVars(\E t \in Threads : QueueStep(t) /\ mtx_ = NoThread)

FairSendSpec == SendSpec /\ SendFairness

-----------------------------------------------------------------------------
\* The type invariant, with the queue's own.
SendTypeOK == /\ TypeOK
              /\ is_work_ \in BOOLEAN
              /\ pump \in {"start", "ask", "wait", "test", "nap"}
              /\ get_count \in 0 .. CounterMod - 1
              /\ send_data \in Items \cup {NoItem}
              /\ made \in 0 .. MaxItems
              /\ \A s \in {accepted, wire} : s \in Seq(Items) /\ Len(s) <= made
              /\ wish \in {"none", "work", "stop"}

\* Nobody has told the pump to stop, and its caller started it to work.
Undisturbed == isWork /\ wish = "none"

\* CdrawNet.h:72-74: the pump sends all data in the queue, whatever package_size
\* it waits for.
SendsAllData == Undisturbed => IsPrefix(wire, accepted)

\* CdrawNet.h:72-74 as far as the code goes: of every package_size items that
\* enqueue accepts (of every item, if that is 0 or 1) an undisturbed pump hands
\* one to sendto in the end, unless package_size is beyond what get_count can
\* reach.
AllSent ==
    \A n \in 1 .. MaxItems :
        Len(accepted) >= n ~>
            \/ Len(wire) >= n \div (IF package_size = 0 THEN 1 ELSE package_size)
            \/ package_size >= CounterMod
            \/ ~Undisturbed

\* However setIsWork is toggled, no item is sent twice, and those that are sent
\* go out in the order in which enqueue accepted them.
SentOnceInOrder ==
    /\ IsInjective(wire)
    /\ \A i, j \in DOMAIN wire : i < j =>
          \E k, l \in DOMAIN accepted : k < l /\ wire[i] = accepted[k] /\ wire[j] = accepted[l]

\* is_work_ is read, and the send comes later: after setIsWork(false) at
\* most the one item past the read still goes out.
StopsSoon == pump # "start" => late <= 1
=============================================================================
