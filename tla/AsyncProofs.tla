---------------------------- MODULE AsyncProofs -----------------------------
(***************************************************************************)
(* Proofs about Async, for any number of posting threads and messages: no  *)
(* wake-up is lost.  The argument is about the two queues.  While the loop *)
(* does not drain, the one it read last holds only what was put there late;*)
(* and for whatever the other one holds in time, the loop is or will be    *)
(* woken: its thread has still to send, or the mark is there.              *)
(***************************************************************************)
EXTENDS Async, DataLemmas

Back == queues_[NextQueueIndex(queue_index_)]

(* A message is in one place at a time: idle, in one thread's push, or     *)
(* once in one of the queues.                                              *)
Apart ==
  /\ \A i \in {0, 1} : IsInjective(queues_[i])
  /\ Range(queues_[0]) \cap Range(queues_[1]) = {}
  /\ idle \cap Queued = {}
  /\ \A p \in Producers : pushing[p] # Nothing =>
       /\ pushing[p].item \notin idle \cup Queued
       /\ \A q \in Producers \ {p} : pushing[q] # Nothing => pushing[q].item # pushing[p].item

Woken ==
  /\ ~draining => Range(Front) \subseteq late
  /\ \A x \in Range(Back) : x \in late \/ wake \/ sending # {}

AsyncInv == TypeOK /\ Apart /\ Woken

(* The queue read and the queue pushed to are the two queues.              *)
LEMMA FrontAndBack ==
  ASSUME TypeOK
  PROVE  /\ NextQueueIndex(queue_index_) \in {0, 1} \ {queue_index_}
         /\ Queued = Range(Front) \cup Range(Back)
         /\ Front \in Seq(Items) /\ Back \in Seq(Items)
<1>1. CASE queue_index_ = 0
  BY <1>1 DEF TypeOK, QueueTypeOK, NextQueueIndex, Queued, Front, Back
<1>2. CASE queue_index_ = 1
  BY <1>2 DEF TypeOK, QueueTypeOK, NextQueueIndex, Queued, Front, Back
<1> QED
  BY <1>1, <1>2 DEF TypeOK, QueueTypeOK

(* An invariant of Async's steps, whichever specification takes them.      *)
LEMMA AsyncInitially == Init => AsyncInv
<1> SUFFICES ASSUME Init PROVE AsyncInv
  OBVIOUS
<1>1. TypeOK
  <2>1. <<>> \in Seq(Items)
    OBVIOUS
  <2> QED
    BY <2>1 DEF Init, QueueInit, TypeOK, QueueTypeOK
<1>2. Range(queues_[0]) = {} /\ Range(queues_[1]) = {} /\ \A i \in {0, 1} : IsInjective(queues_[i])
  BY DEF Init, QueueInit, Range, IsInjective
<1>3. Queued = {}
  BY <1>2 DEF Queued
<1> QED
  <2>1. Range(Front) = {} /\ Range(Back) = {}
    BY <1>1, <1>3, FrontAndBack
  <2>2. \A p \in Producers : pushing[p] = Nothing
    BY DEF Init, QueueInit
  <2>3. Apart
    BY <1>2, <1>3, <2>2 DEF Apart
  <2>4. Woken
    BY <2>1 DEF Woken
  <2> QED
    BY <1>1, <2>3, <2>4 DEF AsyncInv

(* A push in progress: the record is one, and names a queue and a message. *)
LEMMA InPush ==
  ASSUME TypeOK, NEW p \in Producers, pushing[p] # Nothing
  PROVE  pushing[p].to \in {0, 1} /\ pushing[p].item \in Items
BY DEF TypeOK, QueueTypeOK

LEMMA StartPostStep ==
  ASSUME AsyncInv, NEW p \in Producers, NEW x \in Items, StartPost(p, x)
  PROVE  AsyncInv'
<1> DEFINE record == [to |-> NextQueueIndex(queue_index_), item |-> x]
<1> USE DEF AsyncInv
<1>1. /\ x \in idle /\ pushing[p] = Nothing /\ idle' = idle \ {x}
      /\ pushing' = [pushing EXCEPT ![p] = record]
      /\ UNCHANGED <<queue_index_, queues_, sending, wake, draining, late>>
  BY DEF StartPost, BeginPush
<1>2. record.item = x /\ record \in [to : {0, 1}, item : Items]
  BY FrontAndBack
<1> HIDE DEF record
<1>3. /\ pushing' \in [Producers -> {Nothing} \cup [to : {0, 1}, item : Items]]
      /\ pushing'[p] = record /\ \A q \in Producers \ {p} : pushing'[q] = pushing[q]
  BY <1>1, <1>2 DEF TypeOK, QueueTypeOK
<1>4. TypeOK'
  BY <1>1, <1>3 DEF TypeOK, QueueTypeOK
<1>5. Queued' = Queued /\ x \notin Queued
  BY <1>1 DEF Queued, Apart
<1>6. Apart'
  BY <1>1, <1>2, <1>3, <1>5 DEF Apart
<1>7. Woken'
  BY <1>1 DEF Woken, Front, Back
<1> QED
  BY <1>4, <1>6, <1>7

LEMMA FinishPushStep ==
  ASSUME AsyncInv, NEW p \in Producers, FinishPush(p)
  PROVE  AsyncInv'
<1> USE DEF AsyncInv
<1> DEFINE i == pushing[p].to
           x == pushing[p].item
<1>1. /\ pushing[p] # Nothing
      /\ queues_' = [queues_ EXCEPT ![i] = Append(@, x)]
      /\ pushing' = [pushing EXCEPT ![p] = Nothing]
      /\ sending' = sending \cup {p}
      /\ late' = IF i = queue_index_ THEN late \cup {x} ELSE late
      /\ UNCHANGED <<queue_index_, wake, draining, idle>>
  BY DEF FinishPush, EndPush
<1>2. i \in {0, 1} /\ x \in Items /\ x \notin idle \cup Queued
  BY <1>1, InPush DEF Apart
<1> HIDE DEF i, x
<1>3. /\ queues_'[i] = Append(queues_[i], x) /\ queues_[i] \in Seq(Items)
      /\ \A j \in {0, 1} \ {i} : queues_'[j] = queues_[j]
  BY <1>1, <1>2 DEF TypeOK, QueueTypeOK
<1>4. x \notin Range(queues_[i]) /\ IsInjective(queues_[i])
  BY <1>2 DEF Queued, Apart
<1>5. /\ queues_'[i] \in Seq(Items) /\ IsInjective(queues_'[i])
      /\ Range(queues_'[i]) = Range(queues_[i]) \cup {x}
  BY <1>2, <1>3, <1>4, AppendElements
<1>6. TypeOK'
  <2>1. queues_' \in [{0, 1} -> Seq(Items)]
    BY <1>1, <1>2, <1>5 DEF TypeOK, QueueTypeOK
  <2> QED
    BY <1>1, <1>2, <2>1 DEF TypeOK, QueueTypeOK
<1>7. Queued' = Queued \cup {x}
  BY <1>2, <1>3, <1>5 DEF Queued
<1>8. Apart'
  <2>1. \A j \in {0, 1} : IsInjective(queues_'[j])
    BY <1>3, <1>5 DEF Apart
  <2>2. Range(queues_'[0]) \cap Range(queues_'[1]) = {}
    <3>1. x \notin Range(queues_[0]) /\ x \notin Range(queues_[1])
      BY <1>2 DEF Queued
    <3>2. Range(queues_[0]) \cap Range(queues_[1]) = {}
      BY DEF Apart
    <3>3. \A j \in {0, 1} : Range(queues_'[j]) =
             IF j = i THEN Range(queues_[j]) \cup {x} ELSE Range(queues_[j])
      BY <1>3, <1>5
    <3>4. \/ /\ Range(queues_'[0]) = Range(queues_[0]) \cup {x}
             /\ Range(queues_'[1]) = Range(queues_[1])
          \/ /\ Range(queues_'[0]) = Range(queues_[0])
             /\ Range(queues_'[1]) = Range(queues_[1]) \cup {x}
      BY <1>2, <3>3
    <3> QED
      BY <3>1, <3>2, <3>4
  <2>3. idle' \cap Queued' = {}
    BY <1>1, <1>2, <1>7 DEF Apart
  <2>4. \A q \in Producers : pushing'[q] = IF q = p THEN Nothing ELSE pushing[q]
    BY <1>1 DEF TypeOK, QueueTypeOK
  <2>5. \A q \in Producers \ {p} : pushing[q] # Nothing => pushing[q].item # x
    BY <1>1 DEF Apart, x
  <2> QED
    BY <1>1, <1>7, <2>1, <2>2, <2>3, <2>4, <2>5 DEF Apart
<1>9. Woken'
  <2>1. CASE i = queue_index_
    <3>1. Back' = Back /\ Range(Front') = Range(Front) \cup {x} /\ late' = late \cup {x}
      BY <1>1, <1>3, <1>5, <2>1, FrontAndBack DEF Front, Back
    <3> QED
      BY <1>1, <3>1 DEF Woken
  <2>2. CASE i # queue_index_
    <3>1. Front' = Front /\ late' = late /\ sending' # {}
      BY <1>1, <1>3, <2>2 DEF Front, TypeOK, QueueTypeOK
    <3> QED
      BY <1>1, <3>1 DEF Woken
  <2> QED
    BY <2>1, <2>2
<1> QED
  BY <1>6, <1>8, <1>9

LEMMA SendStep ==
  ASSUME AsyncInv, NEW p \in Producers, Send(p)
  PROVE  AsyncInv'
BY DEF AsyncInv, Send, TypeOK, QueueTypeOK, Apart, Queued, Woken, Front, Back

LEMMA StartCallbackStep ==
  ASSUME AsyncInv, StartCallback
  PROVE  AsyncInv'
<1> USE DEF AsyncInv
<1>1. /\ ~draining /\ queue_index_' = NextQueueIndex(queue_index_) /\ draining' = TRUE /\ wake' = FALSE
      /\ UNCHANGED <<queues_, pushing, sending, idle, late>>
  BY DEF StartCallback, Swap
<1>2. TypeOK'
  BY <1>1, FrontAndBack DEF TypeOK, QueueTypeOK
<1>3. Apart'
  BY <1>1 DEF Apart, Queued
<1>4. Back' = Front
  BY <1>1, <1>2, FrontAndBack DEF Back, Front, NextQueueIndex, TypeOK, QueueTypeOK
<1>5. Woken'
  BY <1>1, <1>4 DEF Woken
<1> QED
  BY <1>2, <1>3, <1>5

LEMMA OnMessageStep ==
  ASSUME AsyncInv, NEW x \in Items, OnMessage(x)
  PROVE  AsyncInv'
<1> USE DEF AsyncInv
<1> DEFINE i == queue_index_
<1>1. /\ draining /\ queues_[i] # <<>> /\ x = Head(queues_[i])
      /\ queues_' = [queues_ EXCEPT ![i] = Tail(@)]
      /\ idle' = idle \cup {x} /\ late' = late \ {x}
      /\ UNCHANGED <<queue_index_, pushing, sending, wake, draining>>
  BY DEF OnMessage, Pop, Front
<1>2. /\ queues_[i] \in Seq(Items) /\ i \in {0, 1} /\ IsInjective(queues_[i])
      /\ queues_'[i] = Tail(queues_[i])
      /\ \A j \in {0, 1} \ {i} : queues_'[j] = queues_[j]
  BY <1>1 DEF TypeOK, QueueTypeOK, Apart
<1>3. /\ queues_'[i] \in Seq(Items) /\ IsInjective(queues_'[i])
      /\ Range(queues_'[i]) = Range(queues_[i]) \ {x} /\ x \in Range(queues_[i])
  BY <1>1, <1>2, TailElements
<1>4. TypeOK'
  BY <1>1, <1>2, <1>3 DEF TypeOK, QueueTypeOK
<1>5. \A j \in {0, 1} \ {i} : x \notin Range(queues_[j])
  BY <1>2, <1>3 DEF Apart
<1>6. Queued' = Queued \ {x} /\ x \in Queued
  BY <1>2, <1>3, <1>5 DEF Queued
<1>7. Apart'
  <2>1. \A j \in {0, 1} : IsInjective(queues_'[j])
    BY <1>2, <1>3 DEF Apart
  <2>2. Range(queues_'[0]) \cap Range(queues_'[1]) = {}
    BY <1>2, <1>3 DEF Apart
  <2> QED
    BY <1>1, <1>6, <2>1, <2>2 DEF Apart
<1>8. Back' = Back /\ x \notin Range(Back)
  BY <1>1, <1>2, <1>5, FrontAndBack DEF Back
<1> QED
  BY <1>1, <1>4, <1>7, <1>8 DEF Woken

LEMMA EndCallbackStep ==
  ASSUME AsyncInv, EndCallback
  PROVE  AsyncInv'
<1>1. Front = <<>> /\ UNCHANGED <<queue_index_, queues_, pushing, sending, wake, idle, late>>
  BY DEF EndCallback
<1>2. Range(Front) = {}
  BY <1>1 DEF Range
<1>3. (Front' = Front) /\ (Back' = Back) /\ (Queued' = Queued)
  BY <1>1 DEF Front, Back, Queued
<1> QED
  BY <1>1, <1>2, <1>3 DEF EndCallback, AsyncInv, TypeOK, QueueTypeOK, Apart, Woken

LEMMA AsyncStays == AsyncInv /\ UNCHANGED vars => AsyncInv'
BY DEF AsyncInv, vars, TypeOK, QueueTypeOK, Apart, Queued, Woken, Front, Back

(* The queues as they see a push end, a swap, and a message taken: what is *)
(* in which order is argued with these, by those who use Async.            *)
LEMMA PushEnds ==
  ASSUME AsyncInv, NEW p \in Producers, FinishPush(p)
  PROVE  LET x == pushing[p].item IN
         /\ x \in Items \ (idle \cup Queued) /\ Queued' = Queued \cup {x}
         /\ pushing[p] # Nothing /\ pushing'[p] = Nothing
         /\ UNCHANGED <<queue_index_, idle>>
         /\ \/ /\ pushing[p].to = queue_index_ /\ late' = late \cup {x}
               /\ Front' = Append(Front, x) /\ Back' = Back
            \/ /\ pushing[p].to # queue_index_ /\ late' = late
               /\ Front' = Front /\ Back' = Append(Back, x)
<1> USE DEF AsyncInv
<1> DEFINE i == pushing[p].to
           x == pushing[p].item
           j == NextQueueIndex(queue_index_)
<1>1. /\ pushing[p] # Nothing
      /\ queues_' = [queues_ EXCEPT ![i] = Append(@, x)]
      /\ pushing' = [pushing EXCEPT ![p] = Nothing]
      /\ late' = IF i = queue_index_ THEN late \cup {x} ELSE late
      /\ UNCHANGED <<queue_index_, idle>>
  BY DEF FinishPush, EndPush
<1>2. i \in {0, 1} /\ x \in Items /\ x \notin idle \cup Queued
  BY <1>1, InPush DEF Apart
<1>3. pushing'[p] = Nothing
  BY <1>1 DEF TypeOK, QueueTypeOK
<1>4. /\ j \in {0, 1} /\ queue_index_ \in {0, 1} /\ j # queue_index_
      /\ Front = queues_[queue_index_] /\ Back = queues_[j]
      /\ Front' = queues_'[queue_index_] /\ Back' = queues_'[j]
      /\ \A k \in {0, 1} : k = queue_index_ \/ k = j
  <2>1. j \in {0, 1} \ {queue_index_} /\ queue_index_ \in {0, 1}
    BY FrontAndBack DEF TypeOK, QueueTypeOK
  <2>2. NextQueueIndex(queue_index_)' = j
    BY <1>1 DEF NextQueueIndex
  <2>3. Front' = queues_'[queue_index_] /\ Back' = queues_'[j]
    BY <1>1, <2>2 DEF Front, Back
  <2> HIDE DEF j
  <2>4. \A k \in {0, 1} : k = queue_index_ \/ k = j
    BY <2>1
  <2> QED
    BY <2>1, <2>3, <2>4 DEF Front, Back, j
<1> HIDE DEF i, x, j
<1>5. /\ queues_'[i] = Append(queues_[i], x) /\ queues_[i] \in Seq(Items)
      /\ \A k \in {0, 1} \ {i} : queues_'[k] = queues_[k]
  BY <1>1, <1>2 DEF TypeOK, QueueTypeOK
<1>6. Range(queues_'[i]) = Range(queues_[i]) \cup {x}
  BY <1>2, <1>5, AppendElements
<1>7. Queued' = Queued \cup {x}
  BY <1>2, <1>5, <1>6 DEF Queued
<1>8. CASE i = queue_index_
  BY <1>1, <1>2, <1>3, <1>4, <1>5, <1>7, <1>8 DEF i, x
<1>9. CASE i # queue_index_
  <2>1. i = j
    BY <1>2, <1>4, <1>9
  <2> QED
    BY <1>1, <1>2, <1>3, <1>4, <1>5, <1>7, <1>9, <2>1 DEF i, x
<1> QED
  BY <1>8, <1>9

LEMMA SwapTurns ==
  ASSUME AsyncInv, StartCallback
  PROVE  /\ Front' = Back /\ Back' = Front /\ Queued' = Queued
         /\ Range(Front) \subseteq late /\ queue_index_' # queue_index_
         /\ UNCHANGED <<pushing, idle, late>>
<1>1. /\ ~draining /\ queue_index_' = NextQueueIndex(queue_index_)
      /\ UNCHANGED <<queues_, pushing, idle, late>>
  BY DEF StartCallback, Swap
<1>2. Front' = Back /\ Queued' = Queued
  BY <1>1 DEF Front, Back, Queued
<1>3. queue_index_ \in {0, 1}
  BY DEF AsyncInv, TypeOK, QueueTypeOK
<1>4. NextQueueIndex(NextQueueIndex(queue_index_)) = queue_index_ /\ NextQueueIndex(queue_index_) # queue_index_
  BY <1>3 DEF NextQueueIndex
<1>5. NextQueueIndex(queue_index_)' = NextQueueIndex(NextQueueIndex(queue_index_))
  BY <1>1
<1>6. Back' = Front
  BY <1>1, <1>4, <1>5 DEF Back, Front
<1> QED
  BY <1>1, <1>2, <1>4, <1>6 DEF AsyncInv, Woken

LEMMA HeadIsTaken ==
  ASSUME AsyncInv, NEW x \in Items, OnMessage(x)
  PROVE  /\ Front # <<>> /\ x = Head(Front) /\ Front' = Tail(Front) /\ Back' = Back
         /\ Front \in Seq(Items) /\ Back \in Seq(Items)
         /\ x \in Queued /\ x \notin idle /\ Queued' = Queued \ {x}
         /\ Range(Front') = Range(Front) \ {x}
         /\ idle' = idle \cup {x} /\ late' = late \ {x}
         /\ UNCHANGED <<queue_index_, pushing>>
<1> DEFINE i == queue_index_
           j == NextQueueIndex(i)
<1>1. /\ Front # <<>> /\ x = Head(Front) /\ Front = queues_[i]
      /\ queues_' = [queues_ EXCEPT ![i] = Tail(@)]
      /\ idle' = idle \cup {x} /\ late' = late \ {x}
      /\ UNCHANGED <<queue_index_, pushing>>
  BY DEF OnMessage, Pop, Front
<1>2. /\ i \in {0, 1} /\ j \in {0, 1} \ {i} /\ Queued = Range(Front) \cup Range(Back)
      /\ Front \in Seq(Items) /\ Back \in Seq(Items) /\ queues_ \in [{0, 1} -> Seq(Items)]
  BY FrontAndBack DEF AsyncInv, TypeOK, QueueTypeOK
<1>3. IsInjective(Front) /\ Range(Front) \cap Range(Back) = {}
  <2>1. (i = 0 /\ j = 1) \/ (i = 1 /\ j = 0)
    BY <1>2
  <2> QED
    BY <1>1, <1>2, <2>1 DEF AsyncInv, Apart, Back
<1>4. /\ x \in Range(Front) /\ Range(Tail(Front)) = Range(Front) \ {x}
  BY <1>1, <1>2, <1>3, TailElements
<1>5. Front' = Tail(Front)
  BY <1>1, <1>2 DEF Front
<1>6. NextQueueIndex(queue_index_)' = j
  BY <1>1 DEF NextQueueIndex
<1>7. Back' = Back
  BY <1>1, <1>2, <1>6 DEF Back
<1>8. Queued' = Queued \ {x}
  <2>1. Queued' = Range(Front') \cup Range(Back')
    <3>1. (i = 0 /\ j = 1) \/ (i = 1 /\ j = 0)
      BY <1>2
    <3> QED
      BY <1>1, <1>6, <3>1 DEF Queued, Front, Back
  <2> QED
    BY <1>2, <1>3, <1>4, <1>5, <1>7, <2>1
<1> QED
  BY <1>1, <1>2, <1>4, <1>5, <1>7, <1>8 DEF AsyncInv, Apart

(* When nothing is going on, what the queues hold was put there late.      *)
LEMMA NoneStranded == AsyncInv => StrandedOnlyIfLate
BY FrontAndBack DEF AsyncInv, StrandedOnlyIfLate, Quiet, Woken

(* A message is left in the queue only if a swap overtook its push, for    *)
(* any number of threads that post.                                        *)
THEOREM NoWakeUpLost == Init /\ [][Next]_vars => []StrandedOnlyIfLate
<1>1. AsyncInv /\ [Next]_vars => AsyncInv'
  BY StartPostStep, FinishPushStep, SendStep, StartCallbackStep, OnMessageStep, EndCallbackStep,
     AsyncStays DEF Next, Post
<1> QED
  BY <1>1, AsyncInitially, NoneStranded, PTL
=============================================================================
