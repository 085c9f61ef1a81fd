--------------------------- MODULE RabbitProducer ---------------------------
(***************************************************************************)
(* The sending half of RabbitMQClient.  The game loop's Write pushes to    *)
(* writeQueue_, a DoubleBufferQueue, and the sending thread pops, swapping *)
(* when it finds nothing, and publishes.  When publishing fails it pushes  *)
(* the message back, behind whatever was written since, and connects anew  *)
(* before its next turn: this thread alone swaps the queue and is one of   *)
(* its producers too.                                                      *)
(*                                                                         *)
(* A message is published when amqp_basic_publish says so; no confirmation *)
(* is asked for, and what the broker does with it is not followed.         *)
(***************************************************************************)
EXTENDS DoubleBufferQueue

CONSTANT game  \* the thread that writes, the only one in Producers

VARIABLES
  sender,                   \* where the sending thread is
  producer_conn_,           \* "none", "open", or "broken": opening failed, or it was lost
  producer_need_reconnect_,
  pMember,                  \* the message the thread has popped
  unwritten,                \* the messages before,
  published                 \* and after, in the order they were published

threadVars == <<sender, producer_conn_, producer_need_reconnect_, pMember, published>>
queueVars == <<queue_index_, queues_, pushing>>
vars == <<queueVars, threadVars, unwritten>>

Init ==
  /\ QueueInit
  /\ sender = "top"
  /\ producer_conn_ = "none"
  /\ producer_need_reconnect_ = TRUE
  /\ pMember = Nothing
  /\ unwritten = Items
  /\ published = <<>>

Write(x) ==
  /\ x \in unwritten
  /\ BeginPush(game, x)
  /\ unwritten' = unwritten \ {x}
  /\ UNCHANGED threadVars

Written == EndPush(game) /\ UNCHANGED <<threadVars, unwritten>>

(* The top of the loop: what is left of the old connection is destroyed,   *)
(* and InitProducerRabbitMQClient succeeds or leaves a connection that was *)
(* not opened.                                                             *)
Reconnect ==
  /\ sender = "top"
  /\ sender' = "pop"
  /\ IF producer_need_reconnect_
     THEN \/ producer_conn_' = "open" /\ producer_need_reconnect_' = FALSE
          \/ producer_conn_' = "broken" /\ UNCHANGED producer_need_reconnect_
     ELSE UNCHANGED <<producer_conn_, producer_need_reconnect_>>
  /\ UNCHANGED <<queueVars, pMember, unwritten, published>>

PopMember(x) ==
  /\ sender \in {"pop", "pop again"}
  /\ Pop(x)
  /\ pMember' = x
  /\ sender' = "send"
  /\ UNCHANGED <<producer_conn_, producer_need_reconnect_, unwritten, published>>

SwapWriteQueue ==
  /\ sender = "pop" /\ Front = <<>>
  /\ Swap
  /\ sender' = "pop again"
  /\ UNCHANGED <<producer_conn_, producer_need_reconnect_, pMember, unwritten, published>>

Sleep ==
  /\ sender = "pop again" /\ Front = <<>>
  /\ sender' = "top"
  /\ UNCHANGED <<queueVars, producer_conn_, producer_need_reconnect_, pMember, unwritten, published>>

Publish ==
  /\ sender = "send" /\ producer_conn_ = "open"
  /\ published' = Append(published, pMember)
  /\ pMember' = Nothing
  /\ sender' = "top"
  /\ UNCHANGED <<queueVars, producer_conn_, producer_need_reconnect_, unwritten>>

(* A mistake to be caught: what could not be sent is freed.                *)
PublishFailsAndFrees ==
  /\ sender = "send"
  /\ producer_conn_' = "broken" /\ producer_need_reconnect_' = TRUE
  /\ pMember' = Nothing
  /\ sender' = "top"
  /\ UNCHANGED <<queueVars, unwritten, published>>

(* The push is one step: the index it reads is the thread's own.           *)
PublishFails ==
  /\ sender = "send"
  /\ producer_conn_' = "broken" /\ producer_need_reconnect_' = TRUE
  /\ queues_' = [queues_ EXCEPT ![NextQueueIndex(queue_index_)] = Append(@, pMember)]
  /\ pMember' = Nothing
  /\ sender' = "top"
  /\ UNCHANGED <<queue_index_, pushing, unwritten, published>>

Next ==
  \/ \E x \in Items : Write(x) \/ PopMember(x)
  \/ Written \/ Reconnect \/ SwapWriteQueue \/ Sleep \/ Publish \/ PublishFails

(* The threads go on.  The broker can be reached again and again, and does *)
(* not fail one message for ever.                                          *)
Fairness ==
  /\ WF_vars(Written) /\ WF_vars(Reconnect)
  /\ WF_vars(SwapWriteQueue) /\ WF_vars(Sleep)
  /\ WF_vars(\E x \in Items : PopMember(x)) /\ WF_vars(PublishFails)
  /\ SF_vars(Reconnect /\ producer_conn_' = "open")
  /\ \A x \in Items : SF_vars(Publish /\ pMember = x)

Spec == Init /\ [][Next]_vars /\ Fairness

-----------------------------------------------------------------------------
(* The client is a mailbox too: what is written is published, once as far  *)
(* as the client is told, and in the end, however often sending fails      *)
(* (rabbitmq_client.cpp:566-648,804-820).                                  *)
Held == IF pMember = Nothing THEN {} ELSE {pMember}
InPush == IF pushing[game] = Nothing THEN {} ELSE {pushing[game].item}
MB == INSTANCE Mailbox WITH fresh <- unwritten, inside <- InPush \cup Queued \cup Held, out <- published

WrittenIsPublished == MB!Spec
=============================================================================
