------------------------- MODULE DoubleBufferQueue --------------------------
(***************************************************************************)
(* DoubleBufferQueue<T>: two queues and an index.  The consumer pops from  *)
(* the queue at queue_index_, producers push to the other one, and swap    *)
(* exchanges them.  Each queue has a mutex; the index has none.            *)
(*                                                                         *)
(* push reads the index before it takes the mutex of the queue it chose,   *)
(* so it is two steps here: a swap may come between, and the item then     *)
(* lands in the queue the consumer is reading, or has just finished with.  *)
(* swap and pop are one step each: only the consumer writes the index.     *)
(*                                                                         *)
(* The module gives the operations; DoubleBufferUse, Async and TcpServer   *)
(* say who calls them and when.                                            *)
(***************************************************************************)
EXTENDS Integers, Sequences, Functions

CONSTANTS
  Producers, \* the threads that push
  Items,     \* what is pushed
  Nothing    \* a producer is not in push

ASSUME DoubleBufferAssumption == Nothing \notin [to : {0, 1}, item : Items]

VARIABLES
  queue_index_, \* the queue the consumer reads
  queues_,      \* the two queues
  pushing       \* each producer between reading the index and pushing

NextQueueIndex(v) == (v + 1) % 2

QueueInit ==
  /\ queue_index_ = 0
  /\ queues_ = [i \in {0, 1} |-> <<>>]
  /\ pushing = [p \in Producers |-> Nothing]

QueueTypeOK ==
  /\ queue_index_ \in {0, 1}
  /\ queues_ \in [{0, 1} -> Seq(Items)]
  /\ pushing \in [Producers -> {Nothing} \cup [to : {0, 1}, item : Items]]

BeginPush(p, x) ==
  /\ pushing[p] = Nothing
  /\ pushing' = [pushing EXCEPT ![p] = [to |-> NextQueueIndex(queue_index_), item |-> x]]
  /\ UNCHANGED <<queue_index_, queues_>>

(* Mistakes to be caught: the item is pushed to the front, it replaces what*)
(* the queue held, and the push is repeated.                               *)
EndPushInFront(p) ==
  /\ pushing[p] # Nothing
  /\ queues_' = [queues_ EXCEPT ![pushing[p].to] = <<pushing[p].item>> \o @]
  /\ pushing' = [pushing EXCEPT ![p] = Nothing]
  /\ UNCHANGED queue_index_

EndPushReplacing(p) ==
  /\ pushing[p] # Nothing
  /\ queues_' = [queues_ EXCEPT ![pushing[p].to] = <<pushing[p].item>>]
  /\ pushing' = [pushing EXCEPT ![p] = Nothing]
  /\ UNCHANGED queue_index_

EndPushTwice(p) ==
  /\ pushing[p] # Nothing
  /\ queues_' = [queues_ EXCEPT ![pushing[p].to] = Append(@, pushing[p].item)]
  /\ \/ pushing' = [pushing EXCEPT ![p] = Nothing]
     \/ UNCHANGED pushing
  /\ UNCHANGED queue_index_

EndPush(p) ==
  /\ pushing[p] # Nothing
  /\ queues_' = [queues_ EXCEPT ![pushing[p].to] = Append(@, pushing[p].item)]
  /\ pushing' = [pushing EXCEPT ![p] = Nothing]
  /\ UNCHANGED queue_index_

Swap ==
  /\ queue_index_' = NextQueueIndex(queue_index_)
  /\ UNCHANGED <<queues_, pushing>>

Front == queues_[queue_index_]

Queued == Range(queues_[0]) \cup Range(queues_[1])

Pop(x) ==
  /\ Front # <<>>
  /\ x = Head(Front)
  /\ queues_' = [queues_ EXCEPT ![queue_index_] = Tail(@)]
  /\ UNCHANGED <<queue_index_, pushing>>
=============================================================================
