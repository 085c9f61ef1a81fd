----------------------------- MODULE BaseProofs -----------------------------
(***************************************************************************)
(* Proofs about what threads share of framework/base, for any threads,     *)
(* items, workers and tasks. Of the queue, as DoubleBufferUse uses it:     *)
(* nothing is lost or doubled, it implements Mailbox, how long an item     *)
(* waits, and what may overtake it. Of the pool of threads: when a worker  *)
(* may sleep although there are tasks, and that tasks, like the queue's    *)
(* items, are neither lost nor doubled.                                    *)
(***************************************************************************)
EXTENDS MCBase, DataLemmas

(* Every step of the queue's users keeps the types.                        *)
THEOREM QueueTyped == Spec => []TypeOK
<1>1. Init => TypeOK
  <2> SUFFICES ASSUME Init
               PROVE  TypeOK
    OBVIOUS
  <2>1. QueueTypeOK
    <3>1. queues_ = [i \in {0, 1} |-> <<>>] /\ <<>> \in Seq(Items)
      BY DEF Init, QueueInit
    <3>2. queues_ \in [{0, 1} -> Seq(Items)]
      BY <3>1
    <3>3. pushing \in [Producers -> {Nothing} \cup [to : {0, 1}, item : Items]]
      BY DEF Init, QueueInit
    <3> QED
      BY <3>2, <3>3 DEF Init, QueueInit, QueueTypeOK
  <2>2. ahead \in [Items -> SUBSET Items] /\ waited \in [Items -> Nat]
    BY DEF Init
  <2>3. received \in Seq(Items)
    BY DEF Init
  <2> QED
    BY <2>1, <2>2, <2>3 DEF Init, TypeOK
<1>2. TypeOK /\ [Next]_vars => TypeOK'
  <2> SUFFICES ASSUME TypeOK, [Next]_vars
               PROVE  TypeOK'
    OBVIOUS
  <2> USE DEF TypeOK, QueueTypeOK
  <2>1. ASSUME NEW p \in Producers, NEW x \in Items, StartPush(p, x)
        PROVE  TypeOK'
    <3>1. Queued \cup Received \subseteq Items
      BY DEF Queued, Received, Range
    <3>2. NextQueueIndex(queue_index_) \in {0, 1}
      BY DEF NextQueueIndex
    <3> QED
      BY <2>1, <3>1, <3>2 DEF StartPush, BeginPush
  <2>2. ASSUME NEW p \in Producers, FinishPush(p)
        PROVE  TypeOK'
    <3>1. pushing[p].to \in {0, 1} /\ pushing[p].item \in Items
      BY <2>2 DEF FinishPush, EndPush
    <3>2. Append(queues_[pushing[p].to], pushing[p].item) \in Seq(Items)
      BY <3>1
    <3> QED
      BY <2>2, <3>1, <3>2 DEF FinishPush, EndPush, useVars
  <2>3. ASSUME StartDrain
        PROVE  TypeOK'
    BY <2>3 DEF StartDrain, Swap, NextQueueIndex
  <2>4. ASSUME NEW x \in Items, Receive(x)
        PROVE  TypeOK'
    <3>1. Tail(queues_[queue_index_]) \in Seq(Items)
      BY <2>4 DEF Receive, Pop, Front
    <3> QED
      BY <2>4, <3>1 DEF Receive, Pop, Front, historyVars
  <2>5. ASSUME EndDrain
        PROVE  TypeOK'
    BY <2>5 DEF EndDrain, historyVars
  <2>6. CASE UNCHANGED vars
    BY <2>6 DEF vars, useVars, historyVars
  <2> QED
    BY <2>1, <2>2, <2>3, <2>4, <2>5, <2>6 DEF Next
<1> QED
  BY <1>1, <1>2, PTL DEF Spec

(* What the threads in push hold changes by one item at a time.            *)
LEMMA BeginPushHolds ==
  ASSUME QueueTypeOK, NEW p \in Producers, NEW x \in Items, BeginPush(p, x)
  PROVE  /\ InPush' = InPush \cup {x}
         /\ HeldByOne /\ x \notin InPush => HeldByOne'
<1>1. pushing[p] = Nothing /\ pushing' \in [Producers -> {Nothing} \cup [to : {0, 1}, item : Items]]
  BY DEF BeginPush, QueueTypeOK, NextQueueIndex
<1>2. /\ pushing'[p] # Nothing /\ pushing'[p].item = x
      /\ \A q \in Producers : q # p => pushing'[q] = pushing[q]
  <2>1. pushing'[p] = [to |-> NextQueueIndex(queue_index_), item |-> x]
    BY DEF BeginPush, QueueTypeOK
  <2>2. pushing'[p] \in [to : {0, 1}, item : Items]
    BY <2>1 DEF NextQueueIndex, QueueTypeOK
  <2> QED
    BY <2>1, <2>2, DoubleBufferAssumption DEF BeginPush, QueueTypeOK
<1>3. InPush' = InPush \cup {x}
  BY <1>1, <1>2 DEF InPush
<1>4. HeldByOne /\ x \notin InPush => HeldByOne'
  BY <1>1, <1>2 DEF InPush, HeldByOne
<1> QED
  BY <1>3, <1>4

(* The end of a push takes the item out of the thread's hands.             *)
LEMMA EndPushReleases ==
  ASSUME QueueTypeOK, HeldByOne, NEW p \in Producers, EndPush(p)
  PROVE  /\ pushing[p].item \in InPush
         /\ InPush' = InPush \ {pushing[p].item}
         /\ HeldByOne'
<1>1. /\ pushing[p] # Nothing /\ pushing'[p] = Nothing
      /\ \A q \in Producers : q # p => pushing'[q] = pushing[q]
  BY DEF EndPush, QueueTypeOK
<1>2. pushing[p].item \in InPush
  BY <1>1 DEF InPush
<1>3. InPush' = InPush \ {pushing[p].item}
  BY <1>1 DEF InPush, HeldByOne
<1>4. HeldByOne'
  BY <1>1 DEF HeldByOne
<1> QED
  BY <1>2, <1>3, <1>4

(* Appending to one of two disjoint queues an item that is in neither.     *)
LEMMA EndPushQueues ==
  ASSUME QueueTypeOK, NEW p \in Producers, EndPush(p)
  PROVE  LET x == pushing[p].item IN
         /\ Queued' = Queued \cup {x}
         /\ x \notin Queued /\ IsInjective(queues_[0]) /\ IsInjective(queues_[1])
              /\ Range(queues_[0]) \cap Range(queues_[1]) = {}
            => /\ IsInjective(queues_'[0]) /\ IsInjective(queues_'[1])
               /\ Range(queues_'[0]) \cap Range(queues_'[1]) = {}
<1> DEFINE x == pushing[p].item
           i == pushing[p].to
<1>1. i \in {0, 1} /\ x \in Items /\ queues_[i] \in Seq(Items)
  BY DEF EndPush, QueueTypeOK
<1>2. /\ queues_'[i] = Append(queues_[i], x)
      /\ \A j \in {0, 1} : j # i => queues_'[j] = queues_[j]
  BY <1>1 DEF EndPush, QueueTypeOK
<1> HIDE DEF x, i
<1>3. /\ Range(queues_'[i]) = Range(queues_[i]) \cup {x}
      /\ IsInjective(queues_[i]) /\ x \notin Range(queues_[i]) => IsInjective(queues_'[i])
  BY <1>1, <1>2, AppendElements
<1>4. CASE i = 0
  <2>1. queues_'[1] = queues_[1]
    BY <1>2, <1>4
  <2> QED
    BY <1>3, <1>4, <2>1 DEF Queued, x
<1>5. CASE i = 1
  <2>1. queues_'[0] = queues_[0]
    BY <1>2, <1>5
  <2> QED
    BY <1>3, <1>5, <2>1 DEF Queued, x
<1> QED
  BY <1>1, <1>4, <1>5

(* Popping from one of two disjoint queues.                                *)
LEMMA PopQueues ==
  ASSUME QueueTypeOK, NEW x, Pop(x),
         IsInjective(queues_[0]), IsInjective(queues_[1]),
         Range(queues_[0]) \cap Range(queues_[1]) = {}
  PROVE  /\ x \in Queued
         /\ Queued' = Queued \ {x}
         /\ IsInjective(queues_'[0]) /\ IsInjective(queues_'[1])
         /\ Range(queues_'[0]) \cap Range(queues_'[1]) = {}
<1>1. /\ queue_index_ \in {0, 1}
      /\ queues_[queue_index_] \in Seq(Items) /\ queues_[queue_index_] # <<>>
      /\ x = Head(queues_[queue_index_])
      /\ queues_'[queue_index_] = Tail(queues_[queue_index_])
      /\ \A j \in {0, 1} : j # queue_index_ => queues_'[j] = queues_[j]
  BY DEF QueueTypeOK, Pop, Front
<1>2. IsInjective(queues_[queue_index_])
  BY <1>1
<1>3. /\ x \in Range(queues_[queue_index_])
      /\ Range(queues_'[queue_index_]) = Range(queues_[queue_index_]) \ {x}
      /\ IsInjective(queues_'[queue_index_])
  BY <1>1, <1>2, TailElements
<1>4. CASE queue_index_ = 0
  <2>1. queues_'[1] = queues_[1]
    BY <1>1, <1>4
  <2> QED
    BY <1>3, <1>4, <2>1 DEF Queued
<1>5. CASE queue_index_ = 1
  <2>1. queues_'[0] = queues_[0]
    BY <1>1, <1>5
  <2> QED
    BY <1>3, <1>5, <2>1 DEF Queued
<1> QED
  BY <1>1, <1>4, <1>5

-----------------------------------------------------------------------------
(* Each item is in exactly one place at any time, whatever the threads do. *)
THEOREM NothingLostOrDoubled == Spec => []ExactlyOnce
<1>1. Init => ExactlyOnce
  <2> SUFFICES ASSUME Init
               PROVE  ExactlyOnce
    OBVIOUS
  <2>1. queues_[0] = <<>> /\ queues_[1] = <<>> /\ received = <<>>
    BY DEF Init, QueueInit
  <2>2. Range(<<>>) = {} /\ IsInjective(<<>>)
    BY DEF Range, IsInjective
  <2>3. \A p \in Producers : pushing[p] = Nothing
    BY DEF Init, QueueInit
  <2> QED
    BY <2>1, <2>2, <2>3 DEF Init, ExactlyOnce, InPush, HeldByOne, Queued, Received
<1>2. TypeOK /\ ExactlyOnce /\ [Next]_vars => ExactlyOnce'
  <2> SUFFICES ASSUME TypeOK, ExactlyOnce, [Next]_vars
               PROVE  ExactlyOnce'
    OBVIOUS
  <2>0. QueueTypeOK /\ received \in Seq(Items)
    BY DEF TypeOK
  <2>1. ASSUME NEW p \in Producers, NEW x \in Items, StartPush(p, x)
        PROVE  ExactlyOnce'
    <3>1. x \in fresh /\ fresh' = fresh \ {x} /\ queues_' = queues_ /\ received' = received
      BY <2>1 DEF StartPush, BeginPush
    <3>2. InPush' = InPush \cup {x} /\ HeldByOne'
      BY <2>0, <2>1, <3>1, BeginPushHolds DEF StartPush, ExactlyOnce
    <3> QED
      BY <3>1, <3>2 DEF ExactlyOnce, Queued, Received
  <2>2. ASSUME NEW p \in Producers, FinishPush(p)
        PROVE  ExactlyOnce'
    <3>1. EndPush(p) /\ fresh' = fresh /\ received' = received
      BY <2>2 DEF FinishPush, useVars
    <3>2. /\ pushing[p].item \in InPush
          /\ InPush' = InPush \ {pushing[p].item}
          /\ HeldByOne'
      BY <2>0, <3>1, EndPushReleases DEF ExactlyOnce
    <3>3. /\ Queued' = Queued \cup {pushing[p].item}
          /\ IsInjective(queues_'[0]) /\ IsInjective(queues_'[1])
          /\ Range(queues_'[0]) \cap Range(queues_'[1]) = {}
      BY <2>0, <3>1, <3>2, EndPushQueues DEF ExactlyOnce
    <3> QED
      BY <3>1, <3>2, <3>3 DEF ExactlyOnce, Received
  <2>3. ASSUME NEW x \in Items, Receive(x)
        PROVE  ExactlyOnce'
    <3>1. /\ Pop(x) /\ fresh' = fresh /\ pushing' = pushing
          /\ received' = Append(received, x)
      BY <2>3 DEF Receive, Pop
    <3>2. /\ x \in Queued
          /\ Queued' = Queued \ {x}
          /\ IsInjective(queues_'[0]) /\ IsInjective(queues_'[1])
          /\ Range(queues_'[0]) \cap Range(queues_'[1]) = {}
      BY <2>0, <3>1, PopQueues DEF ExactlyOnce
    <3>3. Received' = Received \cup {x} /\ IsInjective(received')
      BY <2>0, <3>1, <3>2, AppendElements DEF ExactlyOnce, Received
    <3> QED
      BY <3>1, <3>2, <3>3 DEF ExactlyOnce, InPush, HeldByOne
  <2>4. ASSUME UNCHANGED <<fresh, queues_, pushing, received>>
        PROVE  ExactlyOnce'
    BY <2>4 DEF ExactlyOnce, InPush, HeldByOne, Queued, Received
  <2>5. StartDrain \/ EndDrain \/ UNCHANGED vars
          => UNCHANGED <<fresh, queues_, pushing, received>>
    BY DEF StartDrain, EndDrain, Swap, vars, useVars
  <2> QED
    BY <2>1, <2>2, <2>3, <2>4, <2>5 DEF Next
<1> QED
  BY <1>1, <1>2, QueueTyped, PTL DEF Spec

(* The queue implements a mailbox: a push begins by putting the item in,   *)
(* a pop takes it out, and everything else the threads do is invisible.    *)
(* That each item comes out in the end is left to the model checker.       *)
THEOREM QueueIsMailbox == Spec => MB!Init /\ [][MB!Next]_MB!vars
<1>1. Init => MB!Init
  <2> SUFFICES ASSUME Init
               PROVE  MB!Init
    OBVIOUS
  <2>1. queues_[0] = <<>> /\ queues_[1] = <<>> /\ received = <<>> /\ Range(<<>>) = {}
    BY DEF Init, QueueInit, Range
  <2>2. InPush = {}
    BY DEF Init, QueueInit, InPush
  <2> QED
    BY <2>1, <2>2 DEF Init, MB!Init, Queued, Received
<1>2. TypeOK /\ ExactlyOnce /\ [Next]_vars => [MB!Next]_MB!vars
  <2> SUFFICES ASSUME TypeOK, ExactlyOnce, [Next]_vars
               PROVE  [MB!Next]_MB!vars
    OBVIOUS
  <2>0. QueueTypeOK /\ received \in Seq(Items)
    BY DEF TypeOK
  <2>1. ASSUME NEW p \in Producers, NEW x \in Items, StartPush(p, x)
        PROVE  MB!Put(x)
    <3>1. x \in fresh /\ fresh' = fresh \ {x} /\ queues_' = queues_ /\ received' = received
      BY <2>1 DEF StartPush, BeginPush
    <3>2. InPush' = InPush \cup {x}
      BY <2>0, <2>1, BeginPushHolds DEF StartPush
    <3> QED
      BY <3>1, <3>2 DEF MB!Put, Queued, Received
  <2>2. ASSUME NEW p \in Producers, FinishPush(p)
        PROVE  UNCHANGED MB!vars
    <3>1. EndPush(p) /\ fresh' = fresh /\ received' = received
      BY <2>2 DEF FinishPush, useVars
    <3>2. /\ pushing[p].item \in InPush
          /\ InPush' = InPush \ {pushing[p].item}
      BY <2>0, <3>1, EndPushReleases DEF ExactlyOnce
    <3>3. Queued' = Queued \cup {pushing[p].item}
      BY <2>0, <3>1, EndPushQueues
    <3> QED
      BY <3>1, <3>2, <3>3 DEF MB!vars, Received
  <2>3. ASSUME NEW x \in Items, Receive(x)
        PROVE  MB!Take(x)
    <3>1. /\ Pop(x) /\ fresh' = fresh /\ pushing' = pushing
          /\ received' = Append(received, x)
      BY <2>3 DEF Receive, Pop
    <3>2. x \in Queued /\ Queued' = Queued \ {x}
      BY <2>0, <3>1, PopQueues DEF ExactlyOnce
    <3>3. InPush' = InPush /\ x \notin InPush
      BY <3>1, <3>2 DEF InPush, ExactlyOnce
    <3> QED
      BY <3>1, <3>2, <3>3 DEF MB!Take
  <2>4. StartDrain \/ EndDrain \/ UNCHANGED vars => UNCHANGED MB!vars
    BY DEF StartDrain, EndDrain, Swap, vars, useVars, MB!vars, InPush, Queued, Received
  <2> QED
    BY <2>1, <2>2, <2>3, <2>4 DEF Next, MB!Next
<1> QED
  BY <1>1, <1>2, QueueTyped, NothingLostOrDoubled, PTL DEF Spec

-----------------------------------------------------------------------------
Back == queues_[NextQueueIndex(queue_index_)]

(* The queues as the consumer sees them, and what a swap makes of them.    *)
LEMMA FrontAndBack ==
  ASSUME QueueTypeOK
  PROVE  /\ Front \in Seq(Items) /\ Back \in Seq(Items)
         /\ Queued = Range(Front) \cup Range(Back)
         /\ Swap => Front' = Back /\ Back' = Front
  BY DEF QueueTypeOK, Front, Back, Queued, Swap, NextQueueIndex

(* The end of a push appends to the queue it chose, and a pop takes the    *)
(* head of the front queue.                                                *)
LEMMA EndPushAppends ==
  ASSUME QueueTypeOK, NEW p \in Producers, EndPush(p)
  PROVE  LET x == pushing[p].item IN
         /\ x \in Items
         /\ \/ /\ pushing[p].to = queue_index_
               /\ Front' = Append(Front, x) /\ Back' = Back
            \/ /\ pushing[p].to # queue_index_
               /\ Front' = Front /\ Back' = Append(Back, x)
<1> DEFINE x == pushing[p].item
           i == pushing[p].to
<1>1. /\ i \in {0, 1} /\ x \in Items /\ queue_index_ \in {0, 1}
      /\ queue_index_' = queue_index_
      /\ queues_'[i] = Append(queues_[i], x)
      /\ \A j \in {0, 1} : j # i => queues_'[j] = queues_[j]
  BY DEF EndPush, QueueTypeOK
<1>2. NextQueueIndex(queue_index_) \in {0, 1} /\ NextQueueIndex(queue_index_) # queue_index_
  BY <1>1 DEF NextQueueIndex
<1>3. \A j \in {0, 1} : j = queue_index_ \/ j = NextQueueIndex(queue_index_)
  BY <1>1 DEF NextQueueIndex
<1>4. NextQueueIndex(queue_index_)' = NextQueueIndex(queue_index_)
  BY <1>1 DEF NextQueueIndex
<1> HIDE DEF x, i
<1>5. CASE i = queue_index_
  <2>1. Front' = Append(Front, x)
    BY <1>1, <1>5 DEF Front
  <2>2. Back' = Back
    BY <1>1, <1>2, <1>4, <1>5 DEF Back
  <2> QED
    BY <1>1, <1>5, <2>1, <2>2 DEF x, i
<1>6. CASE i # queue_index_
  <2>1. i = NextQueueIndex(queue_index_)
    BY <1>1, <1>3, <1>6
  <2>2. Front' = Front
    BY <1>1, <1>6 DEF Front
  <2>3. Back' = Append(Back, x)
    BY <1>1, <1>4, <2>1 DEF Back
  <2> QED
    BY <1>1, <1>6, <2>2, <2>3 DEF x, i
<1> QED
  BY <1>5, <1>6

LEMMA PopTakesHead ==
  ASSUME QueueTypeOK, NEW x, Pop(x)
  PROVE  /\ Front # <<>> /\ x = Head(Front)
         /\ Front' = Tail(Front) /\ Back' = Back
<1>1. /\ queue_index_ \in {0, 1} /\ queue_index_' = queue_index_
      /\ queues_'[queue_index_] = Tail(queues_[queue_index_])
      /\ \A j \in {0, 1} : j # queue_index_ => queues_'[j] = queues_[j]
  BY DEF QueueTypeOK, Pop
<1>2. NextQueueIndex(queue_index_) \in {0, 1} /\ NextQueueIndex(queue_index_) # queue_index_
  BY <1>1 DEF NextQueueIndex
<1>3. NextQueueIndex(queue_index_)' = NextQueueIndex(queue_index_)
  BY <1>1 DEF NextQueueIndex
<1>4. Front' = Tail(Front) /\ Front # <<>> /\ x = Head(Front)
  BY <1>1 DEF Front, Pop
<1>5. Back' = Back
  BY <1>1, <1>2, <1>3 DEF Back
<1> QED
  BY <1>4, <1>5

LEMMA NoElements == Range(<<>>) = {}
  BY DEF Range

-----------------------------------------------------------------------------
(* What DeliveredInTwo rests on: what lies in the back queue was put there *)
(* since the last swap, unless it is late; between the consumer's turns    *)
(* the front queue holds late items only.                                  *)
Waits ==
  /\ \A x \in fresh \cup InPush : waited[x] = 0
  /\ \A x \in Range(Back) : waited[x] <= IF x \in late THEN 1 ELSE 0
  /\ \A x \in Range(Front) :
       waited[x] <= IF x \in late THEN IF draining THEN 2 ELSE 0 ELSE 1
  /\ ~draining => Range(Front) \subseteq late

LEMMA WaitsHolds == Spec => []Waits
<1>1. Init => Waits
  <2> SUFFICES ASSUME Init
               PROVE  Waits
    OBVIOUS
  <2>1. /\ Front = <<>> /\ Back = <<>> /\ fresh = Items
        /\ waited = [x \in Items |-> 0] /\ InPush = {}
    BY DEF Init, QueueInit, Front, Back, NextQueueIndex, InPush
  <2> QED
    BY <2>1, NoElements DEF Waits
<1>2. TypeOK /\ ExactlyOnce /\ Waits /\ [Next]_vars => Waits'
  <2> SUFFICES ASSUME TypeOK, ExactlyOnce, Waits, [Next]_vars
               PROVE  Waits'
    OBVIOUS
  <2>0. /\ QueueTypeOK /\ waited \in [Items -> Nat]
        /\ Range(Front) \cup Range(Back) = Queued
        /\ Queued \cap (fresh \cup InPush) = {}
        /\ Items = fresh \cup InPush \cup Queued \cup Received
    BY FrontAndBack DEF TypeOK, ExactlyOnce
  <2>1. ASSUME NEW p \in Producers, NEW x \in Items, StartPush(p, x)
        PROVE  Waits'
    <3>1. /\ InPush' = InPush \cup {x} /\ fresh' = fresh \ {x} /\ x \in fresh
          /\ Front' = Front /\ Back' = Back
          /\ UNCHANGED <<draining, late, waited>>
      BY <2>0, <2>1, BeginPushHolds DEF StartPush, BeginPush, Front, Back
    <3> QED
      BY <3>1 DEF Waits
  <2>2. ASSUME NEW p \in Producers, FinishPush(p)
        PROVE  Waits'
    <3> DEFINE x == pushing[p].item
    <3>1. /\ x \in InPush /\ x \in Items /\ InPush' = InPush \ {x}
          /\ UNCHANGED <<fresh, draining, waited>>
      BY <2>0, <2>2, EndPushReleases, EndPushAppends DEF FinishPush, useVars, ExactlyOnce
    <3>2. CASE pushing[p].to = queue_index_
      <4>1. Front' = Append(Front, x) /\ Back' = Back /\ late' = late \cup {x}
        BY <2>0, <2>2, <3>2, EndPushAppends DEF FinishPush
      <4>2. Range(Front') = Range(Front) \cup {x}
        BY <2>0, <3>1, <4>1, FrontAndBack, AppendElements
      <4> HIDE DEF x
      <4> QED
        BY <2>0, <3>1, <4>1, <4>2 DEF Waits
    <3>3. CASE pushing[p].to # queue_index_
      <4>1. Front' = Front /\ Back' = Append(Back, x) /\ late' = late
        BY <2>0, <2>2, <3>3, EndPushAppends DEF FinishPush
      <4>2. Range(Back') = Range(Back) \cup {x}
        BY <2>0, <3>1, <4>1, FrontAndBack, AppendElements
      <4> HIDE DEF x
      <4> QED
        BY <2>0, <3>1, <4>1, <4>2 DEF Waits
    <3> QED
      BY <3>2, <3>3
  <2>3. ASSUME StartDrain
        PROVE  Waits'
    <3>1. /\ ~draining /\ draining' /\ Front' = Back /\ Back' = Front
          /\ UNCHANGED <<fresh, late, pushing>>
          /\ waited' = [x \in Items |-> IF x \in Queued THEN waited[x] + 1 ELSE waited[x]]
      BY <2>0, <2>3, FrontAndBack DEF StartDrain, Swap
    <3>2. InPush' = InPush
      BY <3>1 DEF InPush
    <3> QED
      BY <2>0, <3>1, <3>2 DEF Waits
  <2>4. ASSUME NEW x \in Items, Receive(x)
        PROVE  Waits'
    <3>1. /\ Pop(x) /\ draining /\ UNCHANGED <<fresh, draining, late, waited, pushing>>
      BY <2>4 DEF Receive, Pop, historyVars
    <3>2. Back' = Back /\ Front # <<>> /\ Front' = Tail(Front) /\ Front \in Seq(Items)
      BY <2>0, <3>1, PopTakesHead, FrontAndBack
    <3>3. Range(Front') \subseteq Range(Front)
      <4>1. IsInjective(Front)
        BY <2>0 DEF ExactlyOnce, Front, QueueTypeOK
      <4> QED
        BY <3>2, <4>1, TailElements
    <3>4. InPush' = InPush
      BY <3>1 DEF InPush
    <3> QED
      BY <3>1, <3>2, <3>3, <3>4 DEF Waits
  <2>5. ASSUME EndDrain
        PROVE  Waits'
    <3>1. /\ Front = <<>> /\ Front' = Front /\ Back' = Back
          /\ UNCHANGED <<fresh, late, waited>> /\ InPush' = InPush
      BY <2>5 DEF EndDrain, Front, Back, InPush, historyVars
    <3> QED
      BY <3>1, NoElements DEF Waits
  <2>6. CASE UNCHANGED vars
    BY <2>6 DEF vars, useVars, historyVars, Waits, Front, Back, InPush
  <2> QED
    BY <2>1, <2>2, <2>3, <2>4, <2>5, <2>6 DEF Next
<1> QED
  BY <1>1, <1>2, QueueTyped, NothingLostOrDoubled, PTL DEF Spec

(* No item waits for more than two swaps, and for two only if a swap       *)
(* overtook its push: the consumer's loop leaves nothing else behind.      *)
THEOREM WaitsForTwoSwaps == Spec => []DeliveredInTwo
<1>1. TypeOK /\ Waits => DeliveredInTwo
  <2> SUFFICES ASSUME TypeOK, Waits, NEW x \in Queued
               PROVE  waited[x] <= IF x \in late THEN 2 ELSE 1
    BY DEF DeliveredInTwo
  <2>1. x \in Range(Front) \cup Range(Back)
    BY FrontAndBack DEF TypeOK
  <2>2. x \in Items
    BY DEF TypeOK, QueueTypeOK, Queued, Range
  <2>3. waited[x] \in Nat
    BY <2>2 DEF TypeOK
  <2> QED
    BY <2>1, <2>3 DEF Waits
<1> QED
  BY <1>1, WaitsHolds, QueueTyped, PTL

-----------------------------------------------------------------------------
(* What OvertakenOnlyIfLate rests on: an item that is not late and had been*)
(* pushed when the push of y began stays ahead of y, be y in a thread's    *)
(* hands, in the back queue, or in the front queue.                        *)
AheadOfPush(p) ==
  pushing[p] # Nothing =>
    \A x \in ahead[pushing[p].item] \ late :
      \/ x \in Received \cup Range(Front)
      \/ /\ pushing[p].to # queue_index_
         /\ x \in Range(Back)

Ordered ==
  /\ \A p \in Producers : AheadOfPush(p)
  /\ InOrder(Back, Received \cup Range(Front), ahead, late)
  /\ InOrder(Front, Received, ahead, late)
  /\ InOrder(received, {}, ahead, late)

(* Items come out in the order they were pushed, but for those whose push  *)
(* a swap overtook.                                                        *)
THEOREM OnlyLateAreOvertaken == Spec => []OvertakenOnlyIfLate
<1>1. Init => Ordered
  <2> SUFFICES ASSUME Init
               PROVE  Ordered
    OBVIOUS
  <2>1. /\ Front = <<>> /\ Back = <<>> /\ received = <<>>
        /\ \A p \in Producers : pushing[p] = Nothing
    BY DEF Init, QueueInit, Front, Back, NextQueueIndex
  <2> QED
    BY <2>1 DEF Ordered, AheadOfPush, InOrder
<1>2. TypeOK /\ ExactlyOnce /\ Waits /\ Ordered /\ [Next]_vars => Ordered'
  <2> SUFFICES ASSUME TypeOK, ExactlyOnce, Waits, Ordered, [Next]_vars
               PROVE  Ordered'
    OBVIOUS
  <2>0. /\ QueueTypeOK /\ ahead \in [Items -> SUBSET Items]
        /\ received \in Seq(Items) /\ Front \in Seq(Items) /\ Back \in Seq(Items)
        /\ Queued = Range(Front) \cup Range(Back)
        /\ queue_index_ \in {0, 1}
    BY FrontAndBack DEF TypeOK, QueueTypeOK
  <2>1. ASSUME NEW p \in Producers, NEW y \in Items, StartPush(p, y)
        PROVE  Ordered'
    <3>1. /\ y \in fresh /\ y \notin InPush \cup Queued \cup Received
          /\ Front' = Front /\ Back' = Back /\ Received' = Received
          /\ UNCHANGED <<queue_index_, received, late>>
          /\ ahead' = [ahead EXCEPT ![y] = Queued \cup Received]
          /\ pushing' = [pushing EXCEPT ![p] = [to |-> NextQueueIndex(queue_index_), item |-> y]]
      BY <2>1 DEF StartPush, BeginPush, Front, Back, Received, ExactlyOnce
    <3>2. \A z \in Items : z # y => ahead'[z] = ahead[z]
      BY <2>0, <3>1
    <3>3. /\ \A n \in DOMAIN Front : ahead'[Front[n]] = ahead[Front[n]]
          /\ \A n \in DOMAIN Back : ahead'[Back[n]] = ahead[Back[n]]
          /\ \A n \in DOMAIN received : ahead'[received[n]] = ahead[received[n]]
      <4>1. /\ \A n \in DOMAIN Front : Front[n] \in Items /\ Front[n] \in Range(Front)
            /\ \A n \in DOMAIN Back : Back[n] \in Items /\ Back[n] \in Range(Back)
            /\ \A n \in DOMAIN received : received[n] \in Items /\ received[n] \in Received
        BY <2>0 DEF Range, Received
      <4> QED
        BY <2>0, <3>1, <3>2, <4>1
    <3>4. ASSUME NEW q \in Producers
          PROVE  AheadOfPush(q)'
      <4>1. CASE q = p
        <5>1. pushing'[q] = [to |-> NextQueueIndex(queue_index_), item |-> y]
          BY <2>0, <3>1, <4>1 DEF QueueTypeOK
        <5>2. pushing'[q].item = y /\ pushing'[q].to # queue_index_
          <6>1. NextQueueIndex(queue_index_) # queue_index_
            BY ONLY <2>0 DEF NextQueueIndex
          <6> QED
            BY ONLY <5>1, <6>1
        <5>3. ahead'[y] = Range(Front) \cup Range(Back) \cup Received
          BY <2>0, <3>1
        <5>4. Range(Front)' = Range(Front) /\ Range(Back)' = Range(Back)
          BY <3>1
        <5>5. SUFFICES ASSUME NEW x \in ahead'[pushing'[q].item] \ late'
                       PROVE  \/ x \in Received' \cup Range(Front)'
                              \/ /\ pushing'[q].to # queue_index_'
                                 /\ x \in Range(Back)'
          BY DEF AheadOfPush
        <5> QED
          BY <3>1, <5>2, <5>3, <5>4, <5>5
      <4>2. CASE q # p
        <5>1. pushing'[q] = pushing[q]
          BY <2>0, <3>1, <4>2 DEF QueueTypeOK
        <5>2. pushing[q] # Nothing => pushing[q].item \in Items /\ pushing[q].item # y
          BY <2>0, <3>1 DEF QueueTypeOK, InPush
        <5> QED
          BY <3>1, <3>2, <5>1, <5>2 DEF AheadOfPush, Ordered
      <4> QED
        BY <4>1, <4>2
    <3>5. InOrder(Front, Received, ahead', late)
      BY <3>3, InOrderStill DEF Ordered
    <3>6. InOrder(Back, Received \cup Range(Front), ahead', late)
      BY <3>3, InOrderStill DEF Ordered
    <3>7. InOrder(received, {}, ahead', late)
      BY <3>3, InOrderStill DEF Ordered
    <3> QED
      BY <3>1, <3>4, <3>5, <3>6, <3>7 DEF Ordered
  <2>2. ASSUME NEW p \in Producers, FinishPush(p)
        PROVE  Ordered'
    <3> DEFINE y == pushing[p].item
    <3>1. /\ EndPush(p) /\ y \in Items /\ late \subseteq late'
          /\ UNCHANGED <<queue_index_, received, ahead>> /\ Received' = Received
      BY <2>0, <2>2, EndPushAppends DEF FinishPush, EndPush, useVars, Received
    <3>2. pushing[p] # Nothing /\ \A q \in Producers : pushing'[q] \in {pushing[q], Nothing}
      BY <2>0, <3>1 DEF EndPush, QueueTypeOK
    <3>3. \A x \in ahead[y] \ late' :
            \/ x \in Received \cup Range(Front)
            \/ /\ pushing[p].to # queue_index_
               /\ x \in Range(Back)
      BY <3>1, <3>2 DEF Ordered, AheadOfPush
    <3>4. /\ InOrder(Back, Received \cup Range(Front), ahead, late')
          /\ InOrder(Front, Received, ahead, late')
          /\ InOrder(received, {}, ahead, late')
      BY <3>1, InOrderStill DEF Ordered
    <3>5. Range(Front) \subseteq Range(Front)' /\ Range(Back) \subseteq Range(Back)'
      <4>1. /\ Front' = Front \/ Front' = Append(Front, y)
            /\ Back' = Back \/ Back' = Append(Back, y)
        BY <2>0, <3>1, EndPushAppends
      <4> HIDE DEF y
      <4>2. /\ Range(Append(Front, y)) = Range(Front) \cup {y}
            /\ Range(Append(Back, y)) = Range(Back) \cup {y}
        BY <2>0, <3>1, AppendElements
      <4> QED
        BY <4>1, <4>2
    <3>6. \A q \in Producers : AheadOfPush(q)'
      BY <3>1, <3>2, <3>5 DEF Ordered, AheadOfPush
    <3>7. CASE pushing[p].to = queue_index_
      <4>1. Front' = Append(Front, y) /\ Back' = Back
        BY <2>0, <3>1, <3>7, EndPushAppends
      <4> HIDE DEF y
      <4>2. InOrder(Front', Received, ahead, late')
        BY <2>0, <3>1, <3>3, <3>4, <3>7, <4>1, AppendInOrder
      <4>3. InOrder(Back', Received \cup Range(Front)', ahead, late')
        BY <3>4, <3>5, <4>1, InOrderStill
      <4> QED
        BY <3>1, <3>4, <3>6, <4>2, <4>3 DEF Ordered
    <3>8. CASE pushing[p].to # queue_index_
      <4>1. Front' = Front /\ Back' = Append(Back, y)
        BY <2>0, <3>1, <3>8, EndPushAppends
      <4> HIDE DEF y
      <4>2. InOrder(Back', Received \cup Range(Front), ahead, late')
        BY <2>0, <3>1, <3>3, <3>4, <4>1, AppendInOrder
      <4> QED
        BY <3>1, <3>4, <3>6, <4>1, <4>2 DEF Ordered
    <3> QED
      BY <3>7, <3>8
  <2>3. ASSUME StartDrain
        PROVE  Ordered'
    <3>1. /\ Front' = Back /\ Back' = Front /\ Range(Front) \subseteq late
          /\ UNCHANGED <<pushing, received, ahead, late>> /\ Received' = Received
          /\ queue_index_' # queue_index_
      <4>1. Swap /\ Range(Front) \subseteq late /\ UNCHANGED <<received, ahead, late>>
        BY <2>3 DEF StartDrain, Waits
      <4>2. Front' = Back /\ Back' = Front
        BY <2>0, <4>1, FrontAndBack
      <4>3. UNCHANGED pushing /\ queue_index_' # queue_index_
        <5>1. \A v \in {0, 1} : NextQueueIndex(v) # v
          BY DEF NextQueueIndex
        <5>2. queue_index_ \in {0, 1}
          BY <2>0 DEF QueueTypeOK
        <5> QED
          BY <4>1, <5>1, <5>2 DEF Swap
      <4> QED
        BY <4>1, <4>2, <4>3 DEF Received
    <3>2. ASSUME NEW p \in Producers
          PROVE  AheadOfPush(p)'
      <4>1. SUFFICES ASSUME pushing[p] # Nothing,
                            NEW x \in ahead[pushing[p].item] \ late
                     PROVE  x \in Received \cup Range(Back)
        <5>1. Range(Front)' = Range(Back)
          BY <3>1
        <5> QED
          BY <3>1, <5>1 DEF AheadOfPush
      <4>2. x \in Received \cup Range(Front) \cup Range(Back)
        BY <4>1 DEF Ordered, AheadOfPush
      <4> QED
        BY <3>1, <4>2
    <3>3. InOrder(Front, Received \cup Range(Back), ahead, late)
      BY InOrderStill DEF Ordered
    <3>4. InOrder(Back, Received, ahead, late)
      BY <3>1 DEF Ordered, InOrder
    <3> QED
      BY <3>1, <3>2, <3>3, <3>4 DEF Ordered
  <2>4. ASSUME NEW y \in Items, Receive(y)
        PROVE  Ordered'
    <3>1. /\ Pop(y) /\ received' = Append(received, y)
          /\ UNCHANGED <<queue_index_, pushing, ahead, late>>
      BY <2>4 DEF Receive, Pop, historyVars
    <3>2. Back' = Back /\ Front # <<>> /\ Front' = Tail(Front) /\ y = Head(Front)
      BY <2>0, <3>1, PopTakesHead
    <3>3. Received' = Received \cup {y}
      BY <2>0, <3>1, AppendElements DEF Received
    <3>4. Range(Front) \subseteq Range(Front)' \cup {y}
      <4>1. IsInjective(Front)
        BY <2>0 DEF ExactlyOnce, Front
      <4> QED
        BY <2>0, <3>2, <4>1, TailElements
    <3>5. /\ \A x \in ahead[y] \ late : x \in Received
          /\ InOrder(Front', Received', ahead, late)
      BY <2>0, <3>2, <3>3, TailInOrder DEF Ordered
    <3>6. InOrder(received', {}, ahead, late)
      BY <2>0, <3>1, <3>5, AppendInOrder DEF Ordered, Received
    <3>7. InOrder(Back', Received' \cup Range(Front)', ahead, late)
      <4>1. Received \cup Range(Front) \subseteq Received' \cup Range(Front)'
        BY <3>3, <3>4
      <4> QED
        BY <3>2, <4>1, InOrderStill DEF Ordered
    <3>8. \A p \in Producers : AheadOfPush(p)'
      BY <3>1, <3>2, <3>3, <3>4 DEF Ordered, AheadOfPush
    <3> QED
      BY <3>1, <3>5, <3>6, <3>7, <3>8 DEF Ordered
  <2>5. ASSUME EndDrain \/ UNCHANGED vars
        PROVE  Ordered'
    BY <2>5 DEF EndDrain, vars, useVars, historyVars, Ordered, AheadOfPush, Front, Back, Received
  <2> QED
    BY <2>1, <2>2, <2>3, <2>4, <2>5 DEF Next
<1>3. TypeOK /\ Ordered => OvertakenOnlyIfLate
  BY DEF Ordered, InOrder, Before, OvertakenOnlyIfLate
<1> QED
  BY <1>1, <1>2, <1>3, QueueTyped, NothingLostOrDoubled, WaitsHolds, PTL DEF Spec
-----------------------------------------------------------------------------
(* The pool of threads.  What a step of its owner or of a worker's thread  *)
(* may find: the values each variable takes.                               *)
Steps == {"off", "begin", "test", "load", "found null", "waiting", "run", "reset"}

PoolTypeOK ==
  /\ phase \in {"init", "run", "stop", "end"}
  /\ main \in [at : {"idle", "look", "notify", "visit", "wake", "join", "terminate"},
               w : 0 .. MaxPoolSize]
  /\ adding \subseteq Tasks
  /\ runnables_ \in Seq(Tasks)
  /\ runnable_ \in [Pool!Workers -> Tasks \cup {null}]
  /\ isRunning_ \in [Pool!Workers -> BOOLEAN]
  /\ thread_ \in [Pool!Workers -> BOOLEAN]
  /\ pc \in [Pool!Workers -> Steps]
  /\ ran \in Seq(Tasks)
  /\ missed \subseteq Pool!Workers

(* A task is with its caller, queued, with one worker, or was run; only    *)
(* the worker that has just run it still holds it then.  Before Start no   *)
(* thread runs.                                                            *)
Done == Range(ran)

Placed ==
  /\ adding \cap (Range(runnables_) \cup Done) = {}
  /\ IsInjective(runnables_) /\ Range(runnables_) \cap Done = {}
  /\ \A w \in Pool!Workers :
       /\ runnable_[w] \notin adding \cup Range(runnables_)
       /\ runnable_[w] \in Done <=> pc[w] = "reset"
       /\ pc[w] \in {"run", "reset"} => runnable_[w] # null
  /\ \A v, w \in Pool!Workers : runnable_[v] = runnable_[w] /\ runnable_[v] # null => v = w
  /\ phase = "init" => \A w \in Pool!Workers : pc[w] = "off"

(* A thread that will not look again before it waits, or that waits, has   *)
(* nothing to wake up for, unless its notification is under way or came    *)
(* too early.                                                              *)
Reaching(w) == Pool!At("notify", w) \/ Pool!At("wake", w)

Restless(w) ==
  /\ Pool!AboutToWait(w) \/ pc[w] = "waiting"
  /\ runnable_[w] # null \/ (thread_[w] /\ ~isRunning_[w])

Told == \A w \in Pool!Workers : Restless(w) => w \in missed \/ Reaching(w)

PoolInv == PoolTypeOK /\ Placed /\ Told

(* Where Advance takes the owner: on, and past the worker it was at.       *)
LEMMA AdvanceTyped ==
  ASSUME NEW w \in Pool!Workers, NEW step \in {"look", "visit"}, Pool!Advance(step, w)
  PROVE  /\ main' \in [at : {"idle", "look", "visit"}, w : 0 .. MaxPoolSize]
         /\ main'.at \notin {"notify", "wake"}
<1>1. w \in Nat /\ MaxPoolSize \in Nat /\ 1 <= w /\ w <= MaxPoolSize
  BY PoolAssumption DEF Pool!Workers
<1>2. (main' = [at |-> step, w |-> w + 1] /\ w + 1 <= MaxPoolSize) \/ main' = Pool!Idle
  BY <1>1 DEF Pool!Advance
<1>3. CASE main' = [at |-> step, w |-> w + 1] /\ w + 1 <= MaxPoolSize
  BY <1>1, <1>3
<1>4. CASE main' = Pool!Idle
  BY <1>1, <1>4 DEF Pool!Idle
<1> QED
  BY <1>2, <1>3, <1>4

LEMMA GotoTyped ==
  ASSUME NEW w \in Pool!Workers, NEW step, Pool!Goto(step, w),
         step \in {"look", "notify", "visit", "wake", "join", "terminate"}
  PROVE  main' \in [at : {"look", "notify", "visit", "wake", "join", "terminate"},
                    w : 0 .. MaxPoolSize]
<1>1. w \in 0 .. MaxPoolSize
  BY PoolAssumption DEF Pool!Workers
<1> QED
  BY <1>1 DEF Pool!Goto

(* Init gives the variables their types, and every step keeps them.  A     *)
(* thread runs no task but one that it was handed.                         *)
LEMMA PoolStartsTyped == Pool!Init => PoolTypeOK
<1> SUFFICES ASSUME Pool!Init
             PROVE  PoolTypeOK
  OBVIOUS
<1>1. 0 \in 0 .. MaxPoolSize
  BY PoolAssumption
<1>2. main \in [at : {"idle"}, w : 0 .. MaxPoolSize]
  BY <1>1 DEF Pool!Init, Pool!Idle
<1> QED
  BY <1>2 DEF Pool!Init, PoolTypeOK, Steps

LEMMA PoolKeepsTypes ==
  ASSUME PoolTypeOK, Placed, [Pool!Next]_Pool!vars
  PROVE  PoolTypeOK'
<1>0. 1 \in Pool!Workers /\ 0 \in 0 .. MaxPoolSize /\ runnables_ \in Seq(Tasks)
  <2>1. 1 \in Pool!Workers /\ 0 \in 0 .. MaxPoolSize
    BY ONLY PoolAssumption DEF Pool!Workers
  <2> QED
    BY <2>1 DEF PoolTypeOK
<1> USE DEF PoolTypeOK, Steps
<1>1. ASSUME NEW t \in Tasks, Pool!AddWork(t)
      PROVE  PoolTypeOK'
  <2>1. Append(runnables_, t) \in Seq(Tasks)
    BY ONLY <1>0
  <2> QED
    BY <1>1, <2>1 DEF Pool!AddWork, Pool!threadVars
<1>2. ASSUME Pool!Start
      PROVE  PoolTypeOK'
  BY <1>2 DEF Pool!Start
<1>3. ASSUME NEW from, NEW to \in {"run", "stop", "end"}, NEW step \in {"look", "visit"},
             Pool!Enter(from, to, step)
      PROVE  PoolTypeOK'
  <2>1. main' \in [at : {"look", "notify", "visit", "wake", "join", "terminate"}, w : 0 .. MaxPoolSize]
    BY <1>0, <1>3, GotoTyped DEF Pool!Enter
  <2> QED
    BY <1>3, <2>1 DEF Pool!Enter, Pool!threadVars
<1>4. ASSUME NEW w \in Pool!Workers, Pool!Owner(w)
      PROVE  PoolTypeOK'
  <2>1. CASE Pool!Hand(w)
    <3>1. main' \in [at : {"look", "notify", "visit", "wake", "join", "terminate"}, w : 0 .. MaxPoolSize]
      BY <2>1, GotoTyped DEF Pool!Hand
    <3>2. Head(runnables_) \in Tasks /\ Tail(runnables_) \in Seq(Tasks)
      <4>1. runnables_ # <<>>
        BY <2>1 DEF Pool!Hand
      <4> QED
        BY ONLY <1>0, <4>1
    <3> QED
      BY <2>1, <3>1, <3>2 DEF Pool!Hand
  <2>2. CASE Pool!PassBy(w)
    <3>1. main' \in [at : {"idle", "look", "visit"}, w : 0 .. MaxPoolSize]
      <4>1. Pool!Idle \in [at : {"idle", "look", "visit"}, w : 0 .. MaxPoolSize]
        BY <1>0 DEF Pool!Idle
      <4> QED
        BY <2>2, <4>1, AdvanceTyped DEF Pool!PassBy
    <3> QED
      BY <2>2, <3>1 DEF Pool!PassBy, Pool!threadVars
  <2>3. ASSUME Pool!Notify(w)
        PROVE  pc' \in [Pool!Workers -> Steps] /\ missed' \subseteq Pool!Workers
    BY <2>3 DEF Pool!Notify
  <2>4. CASE Pool!NotifyHanded(w)
    <3>1. main' \in [at : {"idle", "look", "visit"}, w : 0 .. MaxPoolSize]
      BY <2>4, AdvanceTyped DEF Pool!NotifyHanded
    <3> QED
      BY <2>3, <2>4, <3>1 DEF Pool!NotifyHanded
  <2>5. CASE Pool!Refuse(w)
    <3>1. Pool!Goto("terminate", w) \/ Pool!Advance("visit", w)
      BY <2>5 DEF Pool!Refuse
    <3>2. main' \in [at : {"idle", "look", "notify", "visit", "wake", "join", "terminate"},
                     w : 0 .. MaxPoolSize]
      BY <3>1, AdvanceTyped, GotoTyped
    <3> QED
      BY <2>5, <3>2 DEF Pool!Refuse, Pool!threadVars
  <2>6. CASE Pool!StopWorker(w)
    <3>1. main' \in [at : {"look", "notify", "visit", "wake", "join", "terminate"}, w : 0 .. MaxPoolSize]
      BY <2>6, GotoTyped DEF Pool!StopWorker
    <3> QED
      BY <2>6, <3>1 DEF Pool!StopWorker
  <2>7. CASE Pool!NotifyStopped(w)
    <3>1. main' \in [at : {"look", "notify", "visit", "wake", "join", "terminate"}, w : 0 .. MaxPoolSize]
      BY <2>7, GotoTyped DEF Pool!NotifyStopped
    <3> QED
      BY <2>3, <2>7, <3>1 DEF Pool!NotifyStopped
  <2>8. CASE Pool!Join(w)
    <3>1. main' \in [at : {"idle", "look", "visit"}, w : 0 .. MaxPoolSize]
      BY <2>8, AdvanceTyped DEF Pool!Join
    <3> QED
      BY <2>8, <3>1 DEF Pool!Join
  <2> QED
    BY <1>4, <2>1, <2>2, <2>4, <2>5, <2>6, <2>7, <2>8 DEF Pool!Owner
<1>5. ASSUME NEW w \in Pool!Workers, Pool!Thread(w) \/ Pool!WakeByItself(w)
      PROVE  PoolTypeOK'
  <2>1. ASSUME NEW from, NEW to \in Steps, Pool!Step(w, from, to)
        PROVE  /\ pc' \in [Pool!Workers -> Steps]
               /\ UNCHANGED <<phase, main, adding, runnables_, thread_>>
    BY <2>1 DEF Pool!Step
  <2>2. CASE Pool!Begin(w)
    BY <2>1, <2>2 DEF Pool!Begin
  <2>3. CASE Pool!Test(w)
    BY <2>1, <2>3 DEF Pool!Test
  <2>4. CASE Pool!Load(w)
    BY <2>1, <2>4 DEF Pool!Load
  <2>5. CASE Pool!Wait(w) \/ Pool!WakeByItself(w)
    BY <2>1, <2>5 DEF Pool!Wait, Pool!WakeByItself
  <2>6. CASE Pool!RunTask(w)
    <3>1. runnable_[w] \in Tasks
      BY <2>6 DEF Pool!RunTask, Pool!Step, Placed
    <3>2. ran' = Append(ran, runnable_[w])
      BY <2>6 DEF Pool!RunTask
    <3>3. ran' \in Seq(Tasks)
      BY <3>1, <3>2, AppendElements DEF PoolTypeOK
    <3> QED
      BY <2>1, <2>6, <3>3 DEF Pool!RunTask
  <2>7. CASE Pool!SetRunnableNull(w)
    BY <2>1, <2>7 DEF Pool!SetRunnableNull
  <2> QED
    BY <1>5, <2>2, <2>3, <2>4, <2>5, <2>6, <2>7 DEF Pool!Thread
<1>6. CASE UNCHANGED Pool!vars
  BY <1>6 DEF Pool!vars, Pool!threadVars
<1> QED
  BY <1>1, <1>2, <1>3, <1>4, <1>5, <1>6 DEF Pool!Next, Pool!Update, Pool!Stop, Pool!Destroy
(* What makes a thread restless comes with a notification to follow, or to *)
(* come too early: Hand and StopWorker go on to Notify.                    *)
LEMMA PoolKeepsTold ==
  ASSUME PoolTypeOK, Told, [Pool!Next]_Pool!vars
  PROVE  Told'
<1> SUFFICES ASSUME NEW v \in Pool!Workers, Restless(v)'
             PROVE  v \in missed' \/ Reaching(v)'
  BY DEF Told
<1>0. /\ pc \in [Pool!Workers -> Steps]
      /\ runnable_ \in [Pool!Workers -> Tasks \cup {null}]
      /\ isRunning_ \in [Pool!Workers -> BOOLEAN]
      /\ thread_ \in [Pool!Workers -> BOOLEAN]
      /\ Restless(v) => v \in missed \/ Reaching(v)
  BY DEF PoolTypeOK, Told
(* Where nothing changes for v, it was missed before unless the owner is   *)
(* at its notification now.                                                *)
<1>1. ASSUME UNCHANGED <<pc[v], runnable_[v], thread_[v], isRunning_[v]>>,
             v \in missed => v \in missed', Reaching(v) => Reaching(v)'
      PROVE  v \in missed' \/ Reaching(v)'
  <2>1. Restless(v)
    BY <1>1 DEF Restless, Pool!AboutToWait
  <2> QED
    BY <1>0, <1>1, <2>1
<1>2. ASSUME NEW t \in Tasks, Pool!AddWork(t)
      PROVE  v \in missed' \/ Reaching(v)'
  BY <1>1, <1>2 DEF Pool!AddWork, Pool!threadVars, Reaching, Pool!At
<1>3. ASSUME Pool!Start
      PROVE  FALSE
  BY <1>3 DEF Pool!Start, Restless, Pool!AboutToWait
<1>4. ASSUME NEW from, NEW to, NEW step, Pool!Enter(from, to, step)
      PROVE  v \in missed' \/ Reaching(v)'
  BY <1>1, <1>4 DEF Pool!Enter, Pool!threadVars, Reaching, Pool!At, Pool!Idle
<1>5. ASSUME NEW w \in Pool!Workers, Pool!Hand(w)
      PROVE  v \in missed' \/ Reaching(v)'
  <2>1. CASE v = w
    BY <1>5, <2>1 DEF Pool!Hand, Pool!Goto, Reaching, Pool!At
  <2>2. CASE v # w
    <3>1. UNCHANGED <<pc[v], runnable_[v], thread_[v], isRunning_[v], missed>> /\ ~Reaching(v)
      BY <1>0, <1>5, <2>2 DEF Pool!Hand, Reaching, Pool!At
    <3> QED
      BY <1>1, <3>1
  <2> QED
    BY <2>1, <2>2
<1>6. ASSUME NEW w \in Pool!Workers, Pool!PassBy(w) \/ Pool!Refuse(w)
      PROVE  v \in missed' \/ Reaching(v)'
  <2>1. UNCHANGED <<pc, runnable_, thread_, isRunning_, missed>> /\ ~Reaching(v)
    BY <1>6 DEF Pool!PassBy, Pool!Refuse, Pool!threadVars, Reaching, Pool!At
  <2> QED
    BY <1>1, <2>1
<1>7. ASSUME NEW w \in Pool!Workers, Pool!NotifyHanded(w) \/ Pool!NotifyStopped(w)
      PROVE  v \in missed' \/ Reaching(v)'
  <2>1. /\ UNCHANGED <<runnable_, thread_, isRunning_>>
        /\ Pool!Notify(w)
        /\ Reaching(v) => v = w
    BY <1>7 DEF Pool!NotifyHanded, Pool!NotifyStopped, Reaching, Pool!At
  <2>2. CASE v = w
    <3>1. CASE Pool!AboutToWait(w)
      BY <2>1, <2>2, <3>1 DEF Pool!Notify
    <3>2. CASE ~Pool!AboutToWait(w) /\ pc[w] = "waiting"
      <4>1. pc'[w] = "test"
        BY <1>0, <2>1, <3>2 DEF Pool!Notify
      <4> QED
        BY <2>2, <4>1 DEF Restless, Pool!AboutToWait
    <3>3. CASE ~Pool!AboutToWait(w) /\ pc[w] # "waiting"
      <4>1. pc' = pc
        BY <2>1, <3>3 DEF Pool!Notify
      <4> QED
        BY <2>1, <2>2, <3>3, <4>1 DEF Restless, Pool!AboutToWait
    <3> QED
      BY <3>1, <3>2, <3>3
  <2>3. CASE v # w
    <3>1. pc'[v] = pc[v] /\ (v \in missed => v \in missed')
      BY <1>0, <2>1, <2>3 DEF Pool!Notify
    <3> QED
      BY <1>1, <2>1, <2>3, <3>1
  <2> QED
    BY <2>2, <2>3
<1>8. ASSUME NEW w \in Pool!Workers, Pool!StopWorker(w)
      PROVE  v \in missed' \/ Reaching(v)'
  <2>1. CASE v = w
    BY <1>8, <2>1 DEF Pool!StopWorker, Pool!Goto, Reaching, Pool!At
  <2>2. CASE v # w
    <3>1. UNCHANGED <<pc[v], runnable_[v], thread_[v], isRunning_[v], missed>> /\ ~Reaching(v)
      BY <1>0, <1>8, <2>2 DEF Pool!StopWorker, Reaching, Pool!At
    <3> QED
      BY <1>1, <3>1
  <2> QED
    BY <2>1, <2>2
<1>9. ASSUME NEW w \in Pool!Workers, Pool!Join(w)
      PROVE  v \in missed' \/ Reaching(v)'
  <2>1. CASE v = w
    BY <1>9, <2>1 DEF Pool!Join, Restless, Pool!AboutToWait
  <2>2. CASE v # w
    <3>1. UNCHANGED <<pc[v], runnable_[v], thread_[v], isRunning_[v], missed>> /\ ~Reaching(v)
      BY <1>0, <1>9, <2>2 DEF Pool!Join, Reaching, Pool!At
    <3> QED
      BY <1>1, <3>1
  <2> QED
    BY <2>1, <2>2
<1>10. ASSUME NEW w \in Pool!Workers, Pool!Thread(w) \/ Pool!WakeByItself(w)
       PROVE  v \in missed' \/ Reaching(v)'
  <2>1. ASSUME NEW from, NEW to, Pool!Step(w, from, to)
        PROVE  /\ pc[w] = from /\ pc'[w] = to
               /\ v # w => pc'[v] = pc[v]
               /\ UNCHANGED <<main, thread_>> /\ (Reaching(v) => Reaching(v)')
    BY <1>0, <2>1 DEF Pool!Step, Reaching, Pool!At
  <2>2. CASE Pool!Begin(w)
    <3>1. pc'[w] = "test" /\ (v # w => UNCHANGED <<pc[v], runnable_[v], thread_[v], isRunning_[v], missed>>)
      BY <1>0, <2>1, <2>2 DEF Pool!Begin
    <3>2. Reaching(v) => Reaching(v)'
      BY <2>1, <2>2 DEF Pool!Begin
    <3> QED
      BY <1>1, <3>1, <3>2 DEF Restless, Pool!AboutToWait
  <2>3. CASE Pool!Test(w)
    <3>1. /\ pc'[w] = IF isRunning_[w] THEN "load" ELSE "off"
          /\ v # w => pc'[v] = pc[v]
          /\ UNCHANGED <<runnable_, thread_, isRunning_, missed>>
          /\ Reaching(v) => Reaching(v)'
      BY <2>1, <2>3 DEF Pool!Test
    <3>2. v # w
      BY <1>0, <3>1 DEF Restless, Pool!AboutToWait
    <3> QED
      BY <1>1, <3>1, <3>2
  <2>4. CASE Pool!Load(w)
    <3>1. /\ pc[w] = "load" /\ pc'[w] = IF runnable_[w] = null THEN "found null" ELSE "run"
          /\ v # w => pc'[v] = pc[v]
          /\ UNCHANGED <<runnable_, thread_, isRunning_, missed>>
          /\ Reaching(v) => Reaching(v)'
      BY <2>1, <2>4 DEF Pool!Load
    <3>2. v = w => Restless(v)
      BY <3>1 DEF Restless, Pool!AboutToWait
    <3> QED
      BY <1>0, <1>1, <3>1, <3>2
  <2>5. CASE Pool!Wait(w)
    <3>1. /\ pc[w] = "found null" /\ pc'[w] = "waiting"
          /\ v # w => pc'[v] = pc[v]
          /\ UNCHANGED <<runnable_, thread_, isRunning_, missed>>
          /\ Reaching(v) => Reaching(v)'
      BY <2>1, <2>5 DEF Pool!Wait
    <3>2. v = w => Restless(v)
      BY <3>1 DEF Restless, Pool!AboutToWait
    <3> QED
      BY <1>0, <1>1, <3>1, <3>2
  <2>6. CASE Pool!WakeByItself(w)
    <3>1. /\ pc'[w] = "test"
          /\ v # w => pc'[v] = pc[v] /\ (v \in missed => v \in missed')
          /\ UNCHANGED <<runnable_, thread_, isRunning_>>
          /\ Reaching(v) => Reaching(v)'
      BY <2>1, <2>6 DEF Pool!WakeByItself
    <3> QED
      BY <1>1, <3>1 DEF Restless, Pool!AboutToWait
  <2>7. CASE Pool!RunTask(w)
    <3>1. /\ pc'[w] = "reset"
          /\ v # w => pc'[v] = pc[v]
          /\ UNCHANGED <<runnable_, thread_, isRunning_, missed>>
          /\ Reaching(v) => Reaching(v)'
      BY <2>1, <2>7 DEF Pool!RunTask
    <3> QED
      BY <1>1, <3>1 DEF Restless, Pool!AboutToWait
  <2>8. CASE Pool!SetRunnableNull(w)
    <3>1. /\ pc'[w] = "test"
          /\ v # w => pc'[v] = pc[v] /\ runnable_'[v] = runnable_[v]
          /\ UNCHANGED <<thread_, isRunning_, missed>>
          /\ Reaching(v) => Reaching(v)'
      BY <1>0, <2>1, <2>8 DEF Pool!SetRunnableNull
    <3> QED
      BY <1>1, <3>1 DEF Restless, Pool!AboutToWait
  <2> QED
    BY <1>10, <2>2, <2>3, <2>4, <2>5, <2>6, <2>7, <2>8 DEF Pool!Thread
<1>11. CASE UNCHANGED Pool!vars
  BY <1>1, <1>11 DEF Pool!vars, Pool!threadVars, Reaching, Pool!At
<1> QED
  BY <1>2, <1>3, <1>4, <1>5, <1>6, <1>7, <1>8, <1>9, <1>10, <1>11
     DEF Pool!Next, Pool!Owner, Pool!Update, Pool!Stop, Pool!Destroy
(* Each step moves one task, from one place to the next.                   *)
LEMMA PoolKeepsPlaces ==
  ASSUME PoolTypeOK, Placed, [Pool!Next]_Pool!vars
  PROVE  Placed'
<1>0. /\ adding \subseteq Tasks /\ runnables_ \in Seq(Tasks) /\ ran \in Seq(Tasks) /\ Done \subseteq Tasks
      /\ null \notin Tasks
      /\ runnable_ \in [Pool!Workers -> Tasks \cup {null}]
      /\ pc \in [Pool!Workers -> Steps]
  BY PoolAssumption DEF PoolTypeOK, Done, Range
(* Where no task moves, it matters only which threads have run one, hold   *)
(* one to run, or have not begun.                                          *)
<1>1. ASSUME UNCHANGED <<adding, runnables_, runnable_, ran>>,
             \A v \in Pool!Workers :
               /\ pc[v] = "reset" <=> pc'[v] = "reset"
               /\ pc'[v] = "run" => pc[v] = "run" \/ runnable_[v] # null
               /\ phase' = "init" => pc'[v] = "off"
      PROVE  Placed'
  <2>1. Done' = Done
    BY <1>1 DEF Done
  <2> QED
    BY <1>1,   <2>1 DEF Placed
<1>2. ASSUME NEW t \in Tasks, Pool!AddWork(t)
      PROVE  Placed'
  <2>1. /\ t \in adding /\ adding' = adding \ {t}
        /\ runnables_' = Append(runnables_, t)
        /\ UNCHANGED <<phase, runnable_, pc, Done>>
    BY <1>2 DEF Pool!AddWork, Pool!threadVars, Done
  <2>2. Range(runnables_') = Range(runnables_) \cup {t} /\ IsInjective(runnables_')
    BY <1>0, <2>1, AppendElements DEF Placed
  <2> QED
    BY <2>1, <2>2 DEF Placed
<1>3. CASE Pool!Start
  <2>1. /\ phase = "init" /\ phase' = "run"
        /\ UNCHANGED <<adding, runnables_, runnable_, ran>>
        /\ \A v \in Pool!Workers : pc'[v] = "begin"
    BY <1>3 DEF Pool!Start
  <2>2. \A v \in Pool!Workers : pc[v] = "off"
    BY <2>1 DEF Placed
  <2> QED
    BY <1>1, <2>1, <2>2
<1>4. ASSUME NEW from, NEW to \in {"run", "stop", "end"}, NEW step, Pool!Enter(from, to, step)
      PROVE  Placed'
  BY <1>1, <1>4 DEF Pool!Enter, Pool!threadVars
<1>5. ASSUME NEW w \in Pool!Workers, Pool!Hand(w)
      PROVE  Placed'
  <2> DEFINE t == Head(runnables_)
  <2>1. /\ runnables_ # <<>> /\ runnable_[w] = null
        /\ runnables_' = Tail(runnables_)
        /\ runnable_'[w] = t /\ \A v \in Pool!Workers : v # w => runnable_'[v] = runnable_[v]
        /\ UNCHANGED <<phase, adding, pc, Done>>
    BY <1>0, <1>5 DEF Pool!Hand, Done
  <2>2. /\ t \in Range(runnables_) /\ Range(runnables_') = Range(runnables_) \ {t}
        /\ IsInjective(runnables_')
    BY <1>0, <2>1, TailElements DEF Placed
  <2> HIDE DEF t
  <2>3. t \notin adding /\ t \notin Done /\ pc[w] \notin {"run", "reset"}
    BY <2>1, <2>2 DEF Placed
  <2>4. \A v \in Pool!Workers : runnable_[v] # t
    BY <2>2 DEF Placed
  <2>5. \A v \in Pool!Workers :
          /\ runnable_'[v] \notin adding' \cup Range(runnables_')
          /\ runnable_'[v] \in Done' <=> pc'[v] = "reset"
          /\ pc'[v] \in {"run", "reset"} => runnable_'[v] # null
    BY <2>1, <2>2, <2>3 DEF Placed
  <2>6. \A u, v \in Pool!Workers : runnable_'[u] = runnable_'[v] /\ runnable_'[u] # null => u = v
    BY <2>1, <2>4 DEF Placed
  <2> QED
    BY <2>1, <2>2, <2>5, <2>6 DEF Placed
<1>6. ASSUME NEW w \in Pool!Workers,
             \/ Pool!PassBy(w) \/ Pool!NotifyHanded(w) \/ Pool!Refuse(w)
             \/ Pool!StopWorker(w) \/ Pool!NotifyStopped(w) \/ Pool!Join(w)
      PROVE  Placed'
  <2>1. /\ UNCHANGED <<phase, adding, runnables_, runnable_, ran>>
        /\ pc' = pc \/ (pc[w] = "waiting" /\ pc' = [pc EXCEPT ![w] = "test"])
    BY <1>6 DEF Pool!PassBy, Pool!NotifyHanded, Pool!Refuse, Pool!StopWorker,
                Pool!NotifyStopped, Pool!Join, Pool!Notify, Pool!threadVars
  <2> QED
    BY <1>0, <1>1, <2>1 DEF Placed
<1>7. ASSUME NEW w \in Pool!Workers, Pool!Thread(w) \/ Pool!WakeByItself(w)
      PROVE  Placed'
  <2>1. ASSUME NEW from, NEW to, Pool!Step(w, from, to), from # "off"
        PROVE  /\ pc[w] = from /\ pc'[w] = to
               /\ \A v \in Pool!Workers : v # w => pc'[v] = pc[v]
               /\ UNCHANGED <<phase, adding, runnables_>> /\ phase' # "init"
    BY <1>0, <2>1 DEF Pool!Step, Placed
  <2>2. CASE Pool!Begin(w) \/ Pool!Test(w) \/ Pool!Load(w) \/ Pool!Wait(w) \/ Pool!WakeByItself(w)
    <3>1. \E from \in {"begin", "test", "load", "found null", "waiting"},
             to \in {"test", "load", "off", "found null", "run", "waiting"} :
            /\ Pool!Step(w, from, to)
            /\ to = "run" => runnable_[w] # null
      BY <2>2 DEF Pool!Begin, Pool!Test, Pool!Load, Pool!Wait, Pool!WakeByItself
    <3>2. UNCHANGED <<runnable_, ran>>
      BY <2>2 DEF Pool!Begin, Pool!Test, Pool!Load, Pool!Wait, Pool!WakeByItself
    <3>3. /\ UNCHANGED <<adding, runnables_>> /\ phase' # "init"
          /\ pc[w] # "reset" /\ pc'[w] # "reset" /\ (pc'[w] = "run" => runnable_[w] # null)
          /\ \A v \in Pool!Workers : v # w => pc'[v] = pc[v]
      BY <2>1, <3>1
    <3> QED
      BY <1>1, <3>2, <3>3
  <2>3. CASE Pool!RunTask(w)
    <3>1. Pool!Step(w, "run", "reset") /\ ran' = Append(ran, runnable_[w]) /\ runnable_' = runnable_
      BY <2>3 DEF Pool!RunTask
    <3>2. /\ pc[w] = "run" /\ pc'[w] = "reset"
          /\ \A v \in Pool!Workers : v # w => pc'[v] = pc[v]
          /\ UNCHANGED <<phase, adding, runnables_>> /\ phase' # "init"
      BY <2>1, <3>1
    <3>3. runnable_[w] \in Tasks
      BY <1>0, <3>2 DEF Placed
    <3>4. Done' = Done \cup {runnable_[w]}
      BY <1>0, <3>1, <3>3, AppendElements DEF Done
    <3> QED
      BY <3>1, <3>2, <3>4 DEF Placed
  <2>4. CASE Pool!SetRunnableNull(w)
    <3>1. /\ Pool!Step(w, "reset", "test") /\ Done' = Done
          /\ runnable_'[w] = null /\ \A v \in Pool!Workers : v # w => runnable_'[v] = runnable_[v]
      BY <1>0, <2>4 DEF Pool!SetRunnableNull, Done
    <3>2. /\ pc[w] = "reset" /\ pc'[w] = "test"
          /\ \A v \in Pool!Workers : v # w => pc'[v] = pc[v]
          /\ UNCHANGED <<phase, adding, runnables_>> /\ phase' # "init"
      BY <2>1, <3>1
    <3>3. null \notin adding \cup Done \cup Range(runnables_)
      BY <1>0 DEF Range
    <3> QED
      BY <3>1, <3>2, <3>3 DEF Placed
  <2> QED
    BY <1>7, <2>2, <2>3, <2>4 DEF Pool!Thread
<1>8. CASE UNCHANGED Pool!vars
  BY <1>8 DEF Pool!vars, Pool!threadVars, Placed, Done
<1> QED
  BY <1>2, <1>3, <1>4, <1>5, <1>6, <1>7, <1>8
     DEF Pool!Next, Pool!Owner, Pool!Update, Pool!Stop, Pool!Destroy

LEMMA PoolKeepsInv == PoolInv /\ [Pool!Next]_Pool!vars => PoolInv'
  BY PoolKeepsTypes, PoolKeepsTold, PoolKeepsPlaces DEF PoolInv

LEMMA PoolHasInv == Pool!Spec => []PoolInv
<1>1. Pool!Init => PoolInv
  <2> SUFFICES ASSUME Pool!Init
               PROVE  PoolInv
    OBVIOUS
  <2>1. /\ runnables_ = <<>> /\ ran = <<>> /\ \A w \in Pool!Workers : runnable_[w] = null /\ pc[w] = "off"
        /\ adding = Tasks
    BY DEF Pool!Init
  <2>2. Range(<<>>) = {} /\ IsInjective(<<>>)
    BY DEF Range, IsInjective
  <2>3. Placed
    BY <2>1, <2>2, PoolAssumption DEF Placed, Done
  <2>4. Told
    BY <2>1 DEF Told, Restless, Pool!AboutToWait
  <2> QED
    BY <2>3, <2>4, PoolStartsTyped DEF PoolInv
<1> QED
  BY <1>1, PoolKeepsInv, PTL DEF Pool!Spec

(* A worker sleeps over its task, or over its end, only if it was notified *)
(* between its look at runnable_ and its wait (worker.cpp:39-41).          *)
THEOREM PoolWakesWhoWaits == Pool!Spec => []SleepsOnlyIfMissed
<1>1. PoolInv => SleepsOnlyIfMissed
  <2> SUFFICES ASSUME PoolInv, NEW w \in Pool!Workers, pc[w] = "waiting",
                      runnable_[w] # null \/ (thread_[w] /\ ~isRunning_[w])
               PROVE  w \in missed \/ main \in [at : {"notify", "wake"}, w : {w}]
    BY DEF SleepsOnlyIfMissed, Pool!SleepsOnlyIfMissed
  <2>1. w \in missed \/ Reaching(w)
    BY DEF PoolInv, Told, Restless
  <2> QED
    BY <2>1 DEF Reaching, Pool!At
<1> QED
  BY <1>1, PoolHasInv, PTL

(* No worker runs a task that was run before, by itself or by another:     *)
(* worker.cpp:44-46 forgets the task before it looks again, and            *)
(* thread_pool.cpp:105 hands tasks to those only that have none.           *)
NeverAgain == \A w \in Pool!Workers : Pool!RunTask(w) => runnable_[w] \in Tasks \ Done

(* In every behaviour of the pool.                                         *)
THEOREM TasksNeverRunTwice == Pool!Spec => [][NeverAgain]_Pool!vars
<1>1. PoolInv /\ [Pool!Next]_Pool!vars => [NeverAgain]_Pool!vars
  <2> SUFFICES ASSUME PoolInv, NEW w \in Pool!Workers, Pool!RunTask(w)
               PROVE  runnable_[w] \in Tasks \ Done
    BY DEF NeverAgain
  <2>1. pc[w] = "run"
    BY DEF Pool!RunTask, Pool!Step
  <2> QED
    BY <2>1 DEF PoolInv, PoolTypeOK, Placed
<1> QED
  BY <1>1, PoolHasInv, PTL DEF Pool!Spec

(* What is inside of the mailbox: the queue, and the tasks in hand.        *)
Inside == Range(runnables_) \cup Pool!InHand

LEMMA PoolInside ==
  /\ Pool!Range(runnables_) \cup Pool!InHand = Inside
  /\ (Pool!Range(runnables_) \cup Pool!InHand)' = Inside'
  BY DEF Pool!Range, Range, Inside

(* A step that changes neither a worker's task nor who has run one leaves  *)
(* the tasks in hand as they are.                                          *)
LEMMA InHandStays ==
  ASSUME UNCHANGED runnable_,
         \A w \in Pool!Workers : pc[w] = "reset" <=> pc'[w] = "reset"
  PROVE  UNCHANGED Pool!InHand
<1>1. \A t : t \in Pool!InHand <=> t # null /\ \E w \in Pool!Workers : pc[w] # "reset" /\ runnable_[w] = t
  BY DEF Pool!InHand
<1>2. \A t : t \in Pool!InHand' <=> t # null /\ \E w \in Pool!Workers : pc'[w] # "reset" /\ runnable_'[w] = t
  BY DEF Pool!InHand
<1> QED
  BY <1>1, <1>2

(* The pool implements a mailbox of tasks: AddWork puts one in, the worker *)
(* that runs it takes it out, and the way of a task from the queue to its  *)
(* worker is invisible.  A task that was handed out again, or run again,   *)
(* would be no step of the mailbox (thread_pool.cpp:86-123,                *)
(* worker.cpp:37-49).                                                      *)
THEOREM PoolIsMailbox == Pool!Spec => TasksRunOnce
<1>1. Pool!Init => Pool!MB!Init
  <2> SUFFICES ASSUME Pool!Init
               PROVE  Pool!MB!Init
    OBVIOUS
  <2>1. /\ runnables_ = <<>> /\ ran = <<>> /\ \A w \in Pool!Workers : runnable_[w] = null
        /\ adding = Tasks /\ Range(<<>>) = {}
    BY DEF Pool!Init, Range
  <2>2. Pool!InHand = {}
    BY <2>1 DEF Pool!InHand
  <2> QED
    BY <2>1, <2>2, PoolInside DEF Pool!MB!Init, Inside
<1>2. PoolInv /\ [Pool!Next]_Pool!vars => [Pool!MB!Next]_Pool!MB!vars
  <2> SUFFICES ASSUME PoolInv, [Pool!Next]_Pool!vars
               PROVE  [Pool!MB!Next]_Pool!MB!vars
    OBVIOUS
  <2>0. /\ adding \subseteq Tasks /\ runnables_ \in Seq(Tasks)
        /\ null \notin Tasks
        /\ runnable_ \in [Pool!Workers -> Tasks \cup {null}]
        /\ pc \in [Pool!Workers -> Steps]
    BY PoolAssumption DEF PoolInv, PoolTypeOK
  <2>1. ASSUME NEW t \in Tasks, Pool!AddWork(t)
        PROVE  Pool!MB!Put(t)
    <3>1. /\ t \in adding /\ adding' = adding \ {t}
          /\ runnables_' = Append(runnables_, t)
          /\ UNCHANGED <<runnable_, pc, ran>>
      BY <2>1 DEF Pool!AddWork, Pool!threadVars
    <3>2. Range(runnables_') = Range(runnables_) \cup {t}
      BY <2>0, <3>1, AppendElements
    <3>3. UNCHANGED Pool!InHand
      BY <3>1, InHandStays
    <3>4. Inside' = Inside \cup {t}
      BY <3>2, <3>3 DEF Inside
    <3> QED
      BY <3>1, <3>4, PoolInside DEF Pool!MB!Put
  <2>2. ASSUME NEW w \in Pool!Workers, Pool!Hand(w)
        PROVE  UNCHANGED Pool!MB!vars
    <3> DEFINE t == Head(runnables_)
    <3>1. /\ runnables_ # <<>> /\ runnable_[w] = null
          /\ runnables_' = Tail(runnables_)
          /\ runnable_'[w] = t /\ \A v \in Pool!Workers : v # w => runnable_'[v] = runnable_[v]
          /\ UNCHANGED <<adding, pc, ran>>
      BY <2>0, <2>2 DEF Pool!Hand
    <3>2. /\ t \in Range(runnables_) /\ t \in Tasks
          /\ Range(runnables_') = Range(runnables_) \ {t}
      BY <2>0, <3>1, TailElements DEF PoolInv, Placed
    <3> HIDE DEF t
    <3>3. pc[w] # "reset"
      BY <3>1 DEF PoolInv, Placed
    <3>4. Pool!InHand' = Pool!InHand \cup {t}
      BY <2>0, <3>1, <3>2, <3>3 DEF Pool!InHand
    <3>5. Inside' = Inside
      BY <3>2, <3>4 DEF Inside
    <3> QED
      BY <3>1, <3>5, PoolInside DEF Pool!MB!vars
  <2>3. ASSUME NEW w \in Pool!Workers, Pool!RunTask(w)
        PROVE  Pool!MB!Take(runnable_[w]) /\ runnable_[w] \in Tasks
    <3> DEFINE t == runnable_[w]
    <3>1. /\ pc[w] = "run" /\ pc'[w] = "reset" /\ ran' = Append(ran, t)
          /\ \A v \in Pool!Workers : v # w => pc'[v] = pc[v]
          /\ UNCHANGED <<adding, runnables_, runnable_>>
      BY <2>0, <2>3 DEF Pool!RunTask, Pool!Step
    <3>2. t \in Tasks /\ t # null /\ t \notin Range(runnables_)
      BY <2>0, <3>1 DEF PoolInv, Placed
    <3>3. \A v \in Pool!Workers : runnable_[v] = t => v = w
      BY <3>2 DEF PoolInv, Placed
    <3>4. t \in Pool!InHand
      BY <3>1, <3>2 DEF Pool!InHand
    <3>5. Pool!InHand' = Pool!InHand \ {t}
      BY <3>1, <3>3 DEF Pool!InHand
    <3>6. t \in Inside /\ Inside' = Inside \ {t}
      BY <3>1, <3>2, <3>4, <3>5 DEF Inside
    <3> QED
      BY <3>1, <3>2, <3>6, PoolInside DEF Pool!MB!Take
  <2>4. ASSUME NEW w \in Pool!Workers, Pool!SetRunnableNull(w)
        PROVE  UNCHANGED Pool!MB!vars
    <3>1. /\ pc[w] = "reset" /\ pc'[w] = "test" /\ runnable_'[w] = null
          /\ \A v \in Pool!Workers : v # w => pc'[v] = pc[v] /\ runnable_'[v] = runnable_[v]
          /\ UNCHANGED <<adding, runnables_, ran>>
      BY <2>0, <2>4 DEF Pool!SetRunnableNull, Pool!Step
    <3>2. Pool!InHand' = Pool!InHand
      BY <3>1 DEF Pool!InHand
    <3>3. Inside' = Inside
      BY <3>1, <3>2 DEF Inside
    <3> QED
      BY <3>1, <3>3, PoolInside DEF Pool!MB!vars
  <2>5. ASSUME UNCHANGED <<adding, runnables_, runnable_, ran>>,
               \A w \in Pool!Workers : pc[w] = "reset" <=> pc'[w] = "reset"
        PROVE  UNCHANGED Pool!MB!vars
    <3>1. Inside' = Inside
      BY <2>5, InHandStays DEF Inside
    <3> QED
      BY <2>5, <3>1, PoolInside DEF Pool!MB!vars
  <2>6. ASSUME NEW w \in Pool!Workers,
               \/ Pool!PassBy(w) \/ Pool!NotifyHanded(w) \/ Pool!Refuse(w)
               \/ Pool!StopWorker(w) \/ Pool!NotifyStopped(w) \/ Pool!Join(w)
        PROVE  UNCHANGED Pool!MB!vars
    <3>1. /\ UNCHANGED <<adding, runnables_, runnable_, ran>>
          /\ pc' = pc \/ (pc[w] = "waiting" /\ pc' = [pc EXCEPT ![w] = "test"])
      BY <2>6 DEF Pool!PassBy, Pool!NotifyHanded, Pool!Refuse, Pool!StopWorker,
                  Pool!NotifyStopped, Pool!Join, Pool!Notify, Pool!threadVars
    <3>2. \A v \in Pool!Workers : pc[v] = "reset" <=> pc'[v] = "reset"
      BY <2>0, <3>1
    <3> QED
      BY <2>5, <3>1, <3>2
  <2>7. ASSUME NEW w \in Pool!Workers,
               \/ Pool!Begin(w) \/ Pool!Test(w) \/ Pool!Load(w) \/ Pool!Wait(w)
               \/ Pool!WakeByItself(w)
        PROVE  UNCHANGED Pool!MB!vars
    <3>1. UNCHANGED <<adding, runnables_, runnable_, ran>>
      BY <2>7 DEF Pool!Begin, Pool!Test, Pool!Load, Pool!Wait, Pool!WakeByItself, Pool!Step
    <3>2. \E to \in Steps \ {"reset"} : pc[w] # "reset" /\ pc' = [pc EXCEPT ![w] = to]
      BY <2>7 DEF Pool!Begin, Pool!Test, Pool!Load, Pool!Wait, Pool!WakeByItself, Pool!Step, Steps
    <3>3. \A v \in Pool!Workers : pc[v] = "reset" <=> pc'[v] = "reset"
      BY <2>0, <3>2
    <3> QED
      BY <2>5, <3>1, <3>3
  <2>8. CASE Pool!Start
    <3>1. /\ UNCHANGED <<adding, runnables_, runnable_, ran>>
          /\ \A v \in Pool!Workers : pc[v] = "off" /\ pc'[v] = "begin"
      BY <2>8 DEF Pool!Start, PoolInv, Placed
    <3> QED
      BY <2>5, <3>1
  <2>9. CASE Pool!Update \/ Pool!Stop \/ Pool!Destroy \/ UNCHANGED Pool!vars
    <3>1. UNCHANGED <<adding, runnables_, runnable_, ran, pc>>
      BY <2>9 DEF Pool!Update, Pool!Stop, Pool!Destroy, Pool!Enter, Pool!vars, Pool!threadVars
    <3> QED
      BY <2>5, <3>1
  <2> QED
    BY <2>1, <2>2, <2>3, <2>4, <2>6, <2>7, <2>8, <2>9
       DEF Pool!Next, Pool!Owner, Pool!Thread, Pool!MB!Next
<1> QED
  BY <1>1, <1>2, PoolHasInv, PTL DEF Pool!Spec, TasksRunOnce, Pool!TasksRunOnce
=============================================================================
