------------------------------- MODULE Async --------------------------------
(***************************************************************************)
(* Async: how the threads of the server hand messages to the uv loop's     *)
(* thread.  PostMessage pushes the message to a DoubleBufferQueue and then *)
(* wakes the loop with uv_async_send; the loop runs async_callback, which  *)
(* swaps the queue and delivers what it finds.  Unlike the queues of       *)
(* TcpServer, which are swapped on every turn of the game loop, this one   *)
(* is swapped only when somebody has posted.                               *)
(*                                                                         *)
(* uv_async_send only marks the handle: sends that come before the loop    *)
(* looks are one wake-up, and the loop clears the mark before it runs the  *)
(* callback.  A thread that is the loop's own calls OnMessage directly and *)
(* never enters the queue.  A message that was delivered may be posted     *)
(* again, which stands for the next message like it.                       *)
(***************************************************************************)
EXTENDS DoubleBufferQueue

VARIABLES
  sending,  \* threads that have pushed and not yet called uv_async_send
  wake,     \* the uv_async_t is marked
  draining, \* async_callback is in its loop
  idle,     \* messages that are not posted
  late      \* history: messages that were put into the queue being read

callVars == <<sending, wake, draining, idle>>
vars == <<queue_index_, queues_, pushing, sending, wake, draining, idle, late>>

Init ==
  /\ QueueInit
  /\ sending = {}
  /\ wake = FALSE
  /\ draining = FALSE
  /\ idle = Items
  /\ late = {}

(* PostMessage: push, in its two steps, and then uv_async_send.            *)
StartPost(p, x) ==
  /\ x \in idle /\ p \notin sending
  /\ BeginPush(p, x)
  /\ idle' = idle \ {x}
  /\ UNCHANGED <<sending, wake, draining, late>>

FinishPush(p) ==
  /\ EndPush(p)
  /\ sending' = sending \cup {p}
  /\ late' = IF pushing[p].to = queue_index_ THEN late \cup {pushing[p].item} ELSE late
  /\ UNCHANGED <<wake, draining, idle>>

Send(p) ==
  /\ p \in sending
  /\ sending' = sending \ {p}
  /\ wake' = TRUE
  /\ UNCHANGED <<queue_index_, queues_, pushing, draining, idle, late>>

(* The loop finds the mark and calls async_callback.                       *)
StartCallback ==
  /\ wake /\ ~draining
  /\ Swap
  /\ wake' = FALSE
  /\ draining' = TRUE
  /\ UNCHANGED <<sending, idle, late>>

(* OnMessage of the object the message is for.                             *)
OnMessage(x) ==
  /\ draining
  /\ Pop(x)
  /\ idle' = idle \cup {x}
  /\ late' = late \ {x}
  /\ UNCHANGED <<sending, wake, draining>>

(* A mistake to be caught: the mark is cleared when the callback has run.  *)
EndCallbackAndClear ==
  /\ draining
  /\ Front = <<>>
  /\ draining' = FALSE
  /\ wake' = FALSE
  /\ UNCHANGED <<queue_index_, queues_, pushing, sending, idle, late>>

(* empty() holds.                                                          *)
EndCallback ==
  /\ draining
  /\ Front = <<>>
  /\ draining' = FALSE
  /\ UNCHANGED <<queue_index_, queues_, pushing, sending, wake, idle, late>>

Post == \E p \in Producers, x \in Items : StartPost(p, x)

Next ==
  \/ Post
  \/ \E p \in Producers : FinishPush(p) \/ Send(p)
  \/ StartCallback
  \/ \E x \in Items : OnMessage(x)
  \/ EndCallback

Spec == Init /\ [][Next]_vars

-----------------------------------------------------------------------------
TypeOK ==
  /\ QueueTypeOK
  /\ sending \subseteq Producers
  /\ wake \in BOOLEAN
  /\ draining \in BOOLEAN
  /\ idle \subseteq Items
  /\ late \subseteq Items

(* When nothing is going on, a message still lies in the queue only if a   *)
(* swap overtook its push: PostMessage pushes before it sends, and the     *)
(* mark is cleared before the swap, so no wake-up is lost                  *)
(* (async.cpp:17-41,72-90).                                                *)
Quiet ==
  /\ ~wake /\ ~draining /\ sending = {}
  /\ \A p \in Producers : pushing[p] = Nothing

StrandedOnlyIfLate == Quiet => Queued \subseteq late
=============================================================================
