---------------------------- MODULE BoundedFifo ----------------------------
(***************************************************************************)
(* What a caller of CdrawQueue relies on: a first-in first-out queue of at *)
(* most Capacity items whose operations take effect at one instant between *)
(* their call and their return.  CdrawQueue.tla is shown to implement it.  *)
(***************************************************************************)
EXTENDS Integers, Sequences

CONSTANTS Threads,    \* the threads that call the queue
          Items,      \* the values of the template parameter T
          Capacity    \* the constructor's argument "size"

NoItem == 0           \* what "return 0" yields in a T

VARIABLES queue,      \* the items, oldest first
          phase,      \* phase[t]: "idle", "called" or "done"
          request,    \* request[t]: the operation t called and its argument
          answer      \* answer[t]: what the operation returns, as a sequence

vars == <<queue, phase, request, answer>>

Removing == {"dequeueNotBlock", "dequeueBlock"}
Draining == {"dequeueAllNotBlock", "dequeueAllBlock"}
Blocking == {"dequeueBlock", "dequeueAllBlock"}
Ops      == {"enqueue", "clear"} \cup Removing \cup Draining

Init == /\ queue = <<>>
        /\ phase = [t \in Threads |-> "idle"]
        /\ request = [t \in Threads |-> <<"clear", NoItem>>]
        /\ answer = [t \in Threads |-> <<>>]

Call(t) == /\ phase[t] = "idle"
           /\ \E o \in Ops, x \in Items \cup {NoItem} :
                 request' = [request EXCEPT ![t] = <<o, x>>]
           /\ phase' = [phase EXCEPT ![t] = "called"]
           /\ answer' = [answer EXCEPT ![t] = <<>>]
           /\ UNCHANGED queue

\* The instant at which t's operation happens, leaving q and answering a.
Effect(t, o, q, a) == /\ phase[t] = "called"
                      /\ request[t][1] = o
                      /\ queue' = q
                      /\ answer' = [answer EXCEPT ![t] = a]
                      /\ phase' = [phase EXCEPT ![t] = "done"]
                      /\ UNCHANGED request

Enqueue(t) == \/ /\ Len(queue) < Capacity
                 /\ Effect(t, "enqueue", Append(queue, request[t][2]), <<1>>)
              \/ /\ Len(queue) = Capacity
                 /\ Effect(t, "enqueue", queue, <<0>>)

Dequeue(t) == \E o \in Removing :
                \/ /\ queue # <<>>
                   /\ Effect(t, o, Tail(queue), <<Head(queue)>>)
                \/ /\ queue = <<>>
                   /\ o \notin Blocking
                   /\ Effect(t, o, queue, <<NoItem>>)

DequeueAll(t) == \E o \in Draining :
                   /\ o \in Blocking => queue # <<>>
                   /\ Effect(t, o, <<>>, queue)

Clear(t) == Effect(t, "clear", <<>>, <<>>)

Return(t) == /\ phase[t] = "done"
             /\ phase' = [phase EXCEPT ![t] = "idle"]
             /\ UNCHANGED <<queue, request, answer>>

Next == \E t \in Threads : \/ Call(t) \/ Return(t)
                           \/ Enqueue(t) \/ Dequeue(t) \/ DequeueAll(t) \/ Clear(t)

Spec == Init /\ [][Next]_vars
=============================================================================
