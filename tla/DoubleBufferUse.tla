-------------------------- MODULE DoubleBufferUse ---------------------------
(***************************************************************************)
(* A DoubleBufferQueue as every user of it in the server runs it: the      *)
(* producers push whenever they like, and one consumer swaps and then pops *)
(* until it finds the queue it reads empty, over and over                  *)
(* (TcpServer::ProcessConnections once per turn of the game loop, and      *)
(* AsyncCallback::async_callback).                                         *)
(*                                                                         *)
(* Each item is pushed once.  fresh and received record what was not yet   *)
(* pushed and what came out, in order; late and waited are history: the    *)
(* items whose push a swap overtook, and how many swaps an item has seen   *)
(* since it was pushed.                                                    *)
(***************************************************************************)
EXTENDS DoubleBufferQueue

VARIABLES
  draining, \* the consumer is in its pop loop
  fresh,    \* items no push has begun for
  received, \* items popped, in the order they came
  ahead,    \* for each item, the items whose push had ended when its began
  late,     \* items that were put into the queue being read
  waited    \* swaps since the item's push ended

useVars == <<draining, fresh, received>>
historyVars == <<ahead, late, waited>>
vars == <<queue_index_, queues_, pushing, useVars, historyVars>>

Received == Range(received)
InPush == {pushing[p].item : p \in {q \in Producers : pushing[q] # Nothing}}

Init ==
  /\ QueueInit
  /\ draining = FALSE
  /\ fresh = Items
  /\ received = <<>>
  /\ ahead = [x \in Items |-> {}]
  /\ late = {}
  /\ waited = [x \in Items |-> 0]

StartPush(p, x) ==
  /\ x \in fresh
  /\ BeginPush(p, x)
  /\ fresh' = fresh \ {x}
  /\ ahead' = [ahead EXCEPT ![x] = Queued \cup Received]
  /\ UNCHANGED <<draining, received, late, waited>>

FinishPush(p) ==
  /\ EndPush(p)
  /\ late' = IF pushing[p].to = queue_index_ THEN late \cup {pushing[p].item} ELSE late
  /\ UNCHANGED <<useVars, ahead, waited>>

StartDrain ==
  /\ ~draining
  /\ Swap
  /\ draining' = TRUE
  /\ waited' = [x \in Items |-> IF x \in Queued THEN waited[x] + 1 ELSE waited[x]]
  /\ UNCHANGED <<fresh, received, ahead, late>>

Receive(x) ==
  /\ draining
  /\ Pop(x)
  /\ received' = Append(received, x)
  /\ UNCHANGED <<draining, fresh, historyVars>>

(* A mistake to be caught: one item per turn, at most.                     *)
EndDrainEarly ==
  /\ draining
  /\ draining' = FALSE
  /\ UNCHANGED <<queue_index_, queues_, pushing, fresh, received, historyVars>>

(* empty() holds.                                                          *)
EndDrain ==
  /\ draining
  /\ Front = <<>>
  /\ draining' = FALSE
  /\ UNCHANGED <<queue_index_, queues_, pushing, fresh, received, historyVars>>

Next ==
  \/ \E p \in Producers : (\E x \in Items : StartPush(p, x)) \/ FinishPush(p)
  \/ StartDrain
  \/ \E x \in Items : Receive(x)
  \/ EndDrain

(* A thread in push goes on, and the consumer keeps polling: the game loop *)
(* swaps every 30 ms.                                                      *)
Fairness ==
  /\ \A p \in Producers : WF_vars(FinishPush(p))
  /\ WF_vars(StartDrain) /\ WF_vars(EndDrain)
  /\ WF_vars(\E x \in Items : Receive(x))

Spec == Init /\ [][Next]_vars /\ Fairness

-----------------------------------------------------------------------------
TypeOK ==
  /\ QueueTypeOK
  /\ draining \in BOOLEAN
  /\ fresh \subseteq Items
  /\ received \in Seq(Items)
  /\ ahead \in [Items -> SUBSET Items]
  /\ late \subseteq Items
  /\ waited \in [Items -> Nat]

(* An item is in exactly one place: not pushed, in a producer's hands, at  *)
(* one position of one queue, or received once.  The two steps of push and *)
(* the swaps between them lose nothing and double nothing                  *)
(* (double_buffer_queue.h:55-107).                                         *)
HeldByOne ==
  \A p, q \in Producers :
    pushing[p] # Nothing /\ pushing[q] # Nothing /\ pushing[p].item = pushing[q].item
      => p = q

ExactlyOnce ==
  /\ Items = fresh \cup InPush \cup Queued \cup Received
  /\ fresh \cap (InPush \cup Queued \cup Received) = {}
  /\ InPush \cap (Queued \cup Received) = {}
  /\ Queued \cap Received = {}
  /\ Range(queues_[0]) \cap Range(queues_[1]) = {}
  /\ IsInjective(queues_[0]) /\ IsInjective(queues_[1]) /\ IsInjective(received)
  /\ HeldByOne

(* Items come out in the order they were pushed, except that an item whose *)
(* push a swap overtook may be overtaken by later ones: x is received      *)
(* before any item whose push began after x's ended, unless x is late.     *)
OvertakenOnlyIfLate ==
  \A n \in DOMAIN received : \A x \in ahead[received[n]] \ late :
    \E m \in 1 .. n - 1 : received[m] = x

(* An item waits for one swap, and a late one for two, whatever is pushed  *)
(* meanwhile: the consumer never leaves anything behind in a queue it is   *)
(* done with (the while loops of TcpServer::ProcessConnections).           *)
DeliveredInTwo ==
  \A x \in Queued : waited[x] <= IF x \in late THEN 2 ELSE 1

(* The queue is a mailbox: what goes in comes out, once, and in the end.   *)
MB == INSTANCE Mailbox WITH inside <- InPush \cup Queued, out <- received

MailboxSpec == MB!Spec
=============================================================================
