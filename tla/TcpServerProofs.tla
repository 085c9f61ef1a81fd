-------------------------- MODULE TcpServerProofs ---------------------------
(***************************************************************************)
(* Proofs about TcpServer, for any connections: each is freed once, and    *)
(* the services are told of the end of what they were handed packets of.   *)
(***************************************************************************)
EXTENDS TcpServer, DataLemmas

(* The connections announced on either queue and not yet taken from it.    *)
Announcing(pushing) ==
  {c \in Conns : pushing[uv] # Nothing /\ pushing[uv].item = c}

Opening == NewConnections!Queued \cup Announcing(new_pushing)
Ending == ClosedConnections!Queued \cup Announcing(closed_pushing)

Queues == [{0, 1} -> Seq(Conns)]
Pushings == [{uv} -> {Nothing} \cup [to : {0, 1}, item : Conns]]

(* A connection is announced on new_connections_ once.                     *)
OnceIn(queues, pushing) ==
  /\ IsInjective(queues[0]) /\ IsInjective(queues[1])
  /\ Range(queues[0]) \cap Range(queues[1]) = {}
  /\ (Range(queues[0]) \cup Range(queues[1])) \cap Announcing(pushing) = {}

-----------------------------------------------------------------------------
(* What the steps of a queue do to the connections announced on it.        *)
InQueues(queues) == Range(queues[0]) \cup Range(queues[1])

LEMMA BeginPushAnnounces ==
  ASSUME NEW p \in Pushings, NEW c \in Conns, NEW i \in {0, 1}, p[uv] = Nothing
  PROVE  LET q == [p EXCEPT ![uv] = [to |-> i, item |-> c]] IN
         q \in Pushings /\ Announcing(p) = {} /\ Announcing(q) = {c}
<1> DEFINE q == [p EXCEPT ![uv] = [to |-> i, item |-> c]]
<1>1. q \in Pushings /\ q[uv] = [to |-> i, item |-> c]
  BY DEF Pushings
<1>2. q[uv] # Nothing /\ q[uv].item = c
  BY <1>1, TcpServerAssumption
<1> QED
  BY <1>1, <1>2 DEF Announcing

LEMMA EndPushQueues ==
  ASSUME NEW s \in Queues, NEW p \in Pushings, p[uv] # Nothing
  PROVE  LET t == [s EXCEPT ![p[uv].to] = Append(@, p[uv].item)]
             q == [p EXCEPT ![uv] = Nothing] IN
         /\ t \in Queues /\ q \in Pushings
         /\ Announcing(q) = {}
         /\ InQueues(t) = InQueues(s) \cup Announcing(p)
         /\ OnceIn(s, p) => OnceIn(t, q)
<1> DEFINE i == p[uv].to
           x == p[uv].item
           t == [s EXCEPT ![i] = Append(@, x)]
           q == [p EXCEPT ![uv] = Nothing]
<1>1. i \in {0, 1} /\ x \in Conns /\ Announcing(p) = {x}
  BY DEF Pushings, Announcing
<1>2. q \in Pushings /\ q[uv] = Nothing
  BY DEF Pushings
<1>3. Announcing(q) = {}
  BY <1>2 DEF Announcing
<1>4. s[0] \in Seq(Conns) /\ s[1] \in Seq(Conns) /\ s[i] \in Seq(Conns)
  BY <1>1 DEF Queues
<1>5. /\ Append(s[i], x) \in Seq(Conns)
      /\ Range(Append(s[i], x)) = Range(s[i]) \cup {x}
      /\ IsInjective(s[i]) /\ x \notin Range(s[i]) => IsInjective(Append(s[i], x))
  BY <1>1, <1>4, AppendElements
<1>6. t \in Queues /\ t[i] = Append(s[i], x) /\ \A j \in {0, 1} : j # i => t[j] = s[j]
  BY <1>1, <1>5 DEF Queues
<1> HIDE DEF i, x, t, q
<1>7. InQueues(t) = InQueues(s) \cup {x}
  <2>1. CASE i = 0
    BY <1>5, <1>6, <2>1 DEF InQueues
  <2>2. CASE i = 1
    BY <1>5, <1>6, <2>2 DEF InQueues
  <2> QED
    BY <1>1, <2>1, <2>2
<1>8. ASSUME OnceIn(s, p)
      PROVE  OnceIn(t, q)
  <2>1. CASE i = 0
    BY <1>1, <1>3, <1>5, <1>6, <1>8, <2>1 DEF OnceIn
  <2>2. CASE i = 1
    BY <1>1, <1>3, <1>5, <1>6, <1>8, <2>2 DEF OnceIn
  <2> QED
    BY <1>1, <2>1, <2>2
<1> QED
  BY <1>1, <1>2, <1>3, <1>6, <1>7, <1>8 DEF i, x, t, q

LEMMA PopQueues ==
  ASSUME NEW s \in Queues, NEW p \in Pushings, NEW i \in {0, 1}, s[i] # <<>>, OnceIn(s, p)
  PROVE  LET t == [s EXCEPT ![i] = Tail(@)] IN
         /\ t \in Queues
         /\ Head(s[i]) \in InQueues(s)
         /\ InQueues(t) = InQueues(s) \ {Head(s[i])}
         /\ OnceIn(t, p) /\ Head(s[i]) \notin Announcing(p)
<1> DEFINE t == [s EXCEPT ![i] = Tail(@)]
           x == Head(s[i])
<1>1. s[0] \in Seq(Conns) /\ s[1] \in Seq(Conns) /\ s[i] \in Seq(Conns) /\ IsInjective(s[i])
  BY DEF Queues, OnceIn
<1>2. /\ Tail(s[i]) \in Seq(Conns) /\ x \in Range(s[i])
      /\ Range(Tail(s[i])) = Range(s[i]) \ {x} /\ IsInjective(Tail(s[i]))
  BY <1>1, TailElements
<1>3. t \in Queues /\ t[i] = Tail(s[i]) /\ \A j \in {0, 1} : j # i => t[j] = s[j]
  BY <1>2 DEF Queues
<1> HIDE DEF t, x
<1>4. CASE i = 0
  BY <1>2, <1>3, <1>4 DEF OnceIn, InQueues, t, x
<1>5. CASE i = 1
  BY <1>2, <1>3, <1>5 DEF OnceIn, InQueues, t, x
<1> QED
  BY <1>4, <1>5

-----------------------------------------------------------------------------
(* The two queues.                                                         *)
NewOK ==
  /\ new_index \in {0, 1} /\ new_queues \in Queues /\ new_pushing \in Pushings
  /\ OnceIn(new_queues, new_pushing)

LEMMA NewQueue ==
  ASSUME NewOK
  PROVE  /\ UNCHANGED newVars \/ NewConnections!Swap \/ NewConnections!EndPush(uv)
              => NewOK' /\ Opening' = Opening
         /\ \A c \in Conns \ Opening : NewConnections!BeginPush(uv, c)
              => NewOK' /\ Opening' = Opening \cup {c}
         /\ \A c \in Conns : NewConnections!Pop(c)
              => NewOK' /\ c \in Opening /\ Opening' = Opening \ {c}
<1>1. Opening = InQueues(new_queues) \cup Announcing(new_pushing)
  BY DEF Opening, NewConnections!Queued, NewConnections!Range, Range, InQueues
<1>2. Opening' = InQueues(new_queues') \cup Announcing(new_pushing')
  BY DEF Opening, NewConnections!Queued, NewConnections!Range, Range, InQueues, Announcing
<1>3. ASSUME UNCHANGED newVars
      PROVE  NewOK' /\ Opening' = Opening
  BY <1>1, <1>2, <1>3 DEF newVars, NewOK
<1>4. ASSUME NewConnections!Swap
      PROVE  NewOK' /\ Opening' = Opening
  <2>1. new_index' \in {0, 1} /\ UNCHANGED <<new_queues, new_pushing>>
    BY <1>4 DEF NewConnections!Swap, NewConnections!NextQueueIndex, NewOK
  <2> QED
    BY <1>1, <1>2, <2>1 DEF NewOK
<1>5. ASSUME NewConnections!EndPush(uv)
      PROVE  NewOK' /\ Opening' = Opening
  <2>1. /\ new_pushing[uv] # Nothing /\ UNCHANGED new_index
        /\ new_queues' = [new_queues EXCEPT ![new_pushing[uv].to] = Append(@, new_pushing[uv].item)]
        /\ new_pushing' = [new_pushing EXCEPT ![uv] = Nothing]
    BY <1>5 DEF NewConnections!EndPush
  <2>2. /\ new_queues' \in Queues /\ new_pushing' \in Pushings
        /\ Announcing(new_pushing') = {}
        /\ InQueues(new_queues') = InQueues(new_queues) \cup Announcing(new_pushing)
        /\ OnceIn(new_queues', new_pushing')
    BY <2>1, EndPushQueues DEF NewOK
  <2> QED
    BY <1>1, <1>2, <2>1, <2>2 DEF NewOK
<1>6. ASSUME NEW c \in Conns \ Opening, NewConnections!BeginPush(uv, c)
      PROVE  NewOK' /\ Opening' = Opening \cup {c}
  <2> DEFINE i == NewConnections!NextQueueIndex(new_index)
  <2>1. /\ new_pushing[uv] = Nothing /\ UNCHANGED <<new_index, new_queues>>
        /\ new_pushing' = [new_pushing EXCEPT ![uv] = [to |-> i, item |-> c]]
        /\ i \in {0, 1}
    BY <1>6 DEF NewConnections!BeginPush, NewConnections!NextQueueIndex, NewOK
  <2> HIDE DEF i
  <2>2. /\ new_pushing' \in Pushings /\ Announcing(new_pushing) = {}
        /\ Announcing(new_pushing') = {c}
    BY <2>1, BeginPushAnnounces DEF NewOK
  <2>3. Opening' = Opening \cup {c} /\ c \notin InQueues(new_queues)
    BY <1>1, <1>2, <1>6, <2>1, <2>2
  <2> QED
    BY <2>1, <2>2, <2>3 DEF NewOK, OnceIn, InQueues
<1>7. ASSUME NEW c \in Conns, NewConnections!Pop(c)
      PROVE  NewOK' /\ c \in Opening /\ Opening' = Opening \ {c}
  <2>1. /\ new_queues[new_index] # <<>> /\ c = Head(new_queues[new_index])
        /\ new_queues' = [new_queues EXCEPT ![new_index] = Tail(@)]
        /\ UNCHANGED <<new_index, new_pushing>>
    BY <1>7 DEF NewConnections!Pop, NewConnections!Front
  <2>2. /\ new_queues' \in Queues /\ c \in InQueues(new_queues)
        /\ InQueues(new_queues') = InQueues(new_queues) \ {c}
        /\ OnceIn(new_queues', new_pushing) /\ c \notin Announcing(new_pushing)
    BY <2>1, PopQueues DEF NewOK
  <2> QED
    BY <1>1, <1>2, <2>1, <2>2 DEF NewOK
<1> QED
  BY <1>3, <1>4, <1>5, <1>6, <1>7

-----------------------------------------------------------------------------
ClosedOK ==
  /\ closed_index \in {0, 1} /\ closed_queues \in Queues /\ closed_pushing \in Pushings
  /\ OnceIn(closed_queues, closed_pushing)

LEMMA ClosedQueue ==
  ASSUME ClosedOK
  PROVE  /\ UNCHANGED closedVars \/ ClosedConnections!Swap \/ ClosedConnections!EndPush(uv)
              => ClosedOK' /\ Ending' = Ending
         /\ \A c \in Conns \ Ending : ClosedConnections!BeginPush(uv, c)
              => ClosedOK' /\ Ending' = Ending \cup {c}
         /\ \A c \in Conns : ClosedConnections!Pop(c)
              => ClosedOK' /\ c \in Ending /\ Ending' = Ending \ {c}
<1>1. Ending = InQueues(closed_queues) \cup Announcing(closed_pushing)
  BY DEF Ending, ClosedConnections!Queued, ClosedConnections!Range, Range, InQueues
<1>2. Ending' = InQueues(closed_queues') \cup Announcing(closed_pushing')
  BY DEF Ending, ClosedConnections!Queued, ClosedConnections!Range, Range, InQueues, Announcing
<1>3. ASSUME UNCHANGED closedVars
      PROVE  ClosedOK' /\ Ending' = Ending
  BY <1>1, <1>2, <1>3 DEF closedVars, ClosedOK
<1>4. ASSUME ClosedConnections!Swap
      PROVE  ClosedOK' /\ Ending' = Ending
  <2>1. closed_index' \in {0, 1} /\ UNCHANGED <<closed_queues, closed_pushing>>
    BY <1>4 DEF ClosedConnections!Swap, ClosedConnections!NextQueueIndex, ClosedOK
  <2> QED
    BY <1>1, <1>2, <2>1 DEF ClosedOK
<1>5. ASSUME ClosedConnections!EndPush(uv)
      PROVE  ClosedOK' /\ Ending' = Ending
  <2>1. /\ closed_pushing[uv] # Nothing /\ UNCHANGED closed_index
        /\ closed_queues' = [closed_queues EXCEPT ![closed_pushing[uv].to] = Append(@, closed_pushing[uv].item)]
        /\ closed_pushing' = [closed_pushing EXCEPT ![uv] = Nothing]
    BY <1>5 DEF ClosedConnections!EndPush
  <2>2. /\ closed_queues' \in Queues /\ closed_pushing' \in Pushings
        /\ Announcing(closed_pushing') = {}
        /\ InQueues(closed_queues') = InQueues(closed_queues) \cup Announcing(closed_pushing)
        /\ OnceIn(closed_queues', closed_pushing')
    BY <2>1, EndPushQueues DEF ClosedOK
  <2> QED
    BY <1>1, <1>2, <2>1, <2>2 DEF ClosedOK
<1>6. ASSUME NEW c \in Conns \ Ending, ClosedConnections!BeginPush(uv, c)
      PROVE  ClosedOK' /\ Ending' = Ending \cup {c}
  <2> DEFINE i == ClosedConnections!NextQueueIndex(closed_index)
  <2>1. /\ closed_pushing[uv] = Nothing /\ UNCHANGED <<closed_index, closed_queues>>
        /\ closed_pushing' = [closed_pushing EXCEPT ![uv] = [to |-> i, item |-> c]]
        /\ i \in {0, 1}
    BY <1>6 DEF ClosedConnections!BeginPush, ClosedConnections!NextQueueIndex, ClosedOK
  <2> HIDE DEF i
  <2>2. /\ closed_pushing' \in Pushings /\ Announcing(closed_pushing) = {}
        /\ Announcing(closed_pushing') = {c}
    BY <2>1, BeginPushAnnounces DEF ClosedOK
  <2>3. Ending' = Ending \cup {c} /\ c \notin InQueues(closed_queues)
    BY <1>1, <1>2, <1>6, <2>1, <2>2
  <2> QED
    BY <2>1, <2>2, <2>3 DEF ClosedOK, OnceIn, InQueues
<1>7. ASSUME NEW c \in Conns, ClosedConnections!Pop(c)
      PROVE  ClosedOK' /\ c \in Ending /\ Ending' = Ending \ {c}
  <2>1. /\ closed_queues[closed_index] # <<>> /\ c = Head(closed_queues[closed_index])
        /\ closed_queues' = [closed_queues EXCEPT ![closed_index] = Tail(@)]
        /\ UNCHANGED <<closed_index, closed_pushing>>
    BY <1>7 DEF ClosedConnections!Pop, ClosedConnections!Front
  <2>2. /\ closed_queues' \in Queues /\ c \in InQueues(closed_queues)
        /\ InQueues(closed_queues') = InQueues(closed_queues) \ {c}
        /\ OnceIn(closed_queues', closed_pushing) /\ c \notin Announcing(closed_pushing)
    BY <2>1, PopQueues DEF ClosedOK
  <2> QED
    BY <1>1, <1>2, <2>1, <2>2 DEF ClosedOK
<1> QED
  BY <1>3, <1>4, <1>5, <1>6, <1>7

-----------------------------------------------------------------------------
(* What FreedOnce and ServicesTold rest on.  A connection that is open is  *)
(* nowhere on its way to being freed; a connection is announced before it  *)
(* is active; one whose closing was taken is in no list unless it was      *)
(* missed; and it is listed to be freed until it is.                       *)
ServerTypeOK ==
  /\ NewOK /\ ClosedOK
  /\ accepted \subseteq Conns /\ running_ \subseteq Conns /\ uv_closing \subseteq Conns
  /\ closing_ \subseteq Conns /\ active_connections_ \subseteq Conns /\ deleted \subseteq Conns
  /\ wait_delete_connections_list_ \in [Conns -> Nat]

Handles ==
  /\ running_ \cup uv_closing \cup Ending \cup closing_ \subseteq accepted
  /\ running_ \cap (uv_closing \cup Ending \cup closing_) = {}
  /\ uv_closing \cap Ending = {}

Lists ==
  /\ Opening \cup active_connections_ \subseteq accepted
  /\ Opening \cap active_connections_ = {}
  /\ closing_ \cap (Opening \cup active_connections_) \subseteq missed

ToFree ==
  /\ \A c \in Conns : wait_delete_connections_list_[c] <= 1
  /\ Waiting \cup deleted \subseteq closing_
  /\ Waiting \cap deleted = {}

Services ==
  /\ told \cup connToGameService_ \subseteq accepted
  /\ told \cap (Opening \cup active_connections_ \cup connToGameService_) = {}
  /\ connToGameService_ \cap closing_ \subseteq missed

ServerInv == ServerTypeOK /\ Handles /\ Lists /\ ToFree /\ Services

LEMMA ServerInvHolds == Spec => []ServerInv
<1>1. Init => ServerInv
  <2> SUFFICES ASSUME Init
               PROVE  ServerInv
    OBVIOUS
  <2>1. /\ NewOK /\ Opening = {}
        /\ ClosedOK /\ Ending = {}
    <3> DEFINE s == [i \in {0, 1} |-> <<>>]
               p == [q \in {uv} |-> Nothing]
    <3>1. s \in Queues /\ p \in Pushings /\ p[uv] = Nothing
      BY DEF Queues, Pushings
    <3>2. Range(s[0]) = {} /\ Range(s[1]) = {} /\ IsInjective(s[0]) /\ IsInjective(s[1])
      BY DEF Range, IsInjective
    <3>3. Announcing(p) = {}
      BY <3>1 DEF Announcing
    <3>4. OnceIn(s, p) /\ InQueues(s) = {}
      BY <3>2, <3>3 DEF OnceIn, InQueues
    <3>5. new_index = 0 /\ new_queues = s /\ new_pushing = p
      BY DEF Init, NewConnections!QueueInit
    <3>6. closed_index = 0 /\ closed_queues = s /\ closed_pushing = p
      BY DEF Init, ClosedConnections!QueueInit
    <3> HIDE DEF s, p
    <3>7. NewOK /\ Opening = {}
      BY <3>1, <3>3, <3>4, <3>5
         DEF NewOK, Opening, NewConnections!Queued, NewConnections!Range, Range, InQueues
    <3>8. ClosedOK /\ Ending = {}
      BY <3>1, <3>3, <3>4, <3>6
         DEF ClosedOK, Ending, ClosedConnections!Queued, ClosedConnections!Range, Range, InQueues
    <3> QED
      BY <3>7, <3>8
  <2>2. Waiting = {}
    BY DEF Init, Waiting
  <2> QED
    BY <2>1, <2>2 DEF Init, ServerInv, ServerTypeOK, Handles, Lists, ToFree, Services
<1>2. ServerInv /\ [Next]_vars => ServerInv'
  <2> SUFFICES ASSUME ServerInv, [Next]_vars
               PROVE  ServerInv'
    OBVIOUS
  <2> USE DEF ServerInv, ServerTypeOK, Handles, Lists, ToFree, Services
  <2>1. UNCHANGED newVars => NewOK' /\ Opening' = Opening
    BY NewQueue
  <2>2. UNCHANGED closedVars => ClosedOK' /\ Ending' = Ending
    BY ClosedQueue
  <2>3. UNCHANGED wait_delete_connections_list_ => Waiting' = Waiting
    BY DEF Waiting
  <2>4. ASSUME NEW c \in Conns, OnNewConnection(c)
        PROVE  ServerInv'
    <3>1. NewOK' /\ Opening' = Opening \cup {c}
      BY <2>4, NewQueue DEF OnNewConnection
    <3> QED
      BY <2>2, <2>3, <2>4, <3>1 DEF OnNewConnection, listVars, serviceVars
  <2>5. CASE NewConnectionPushed
    <3>1. NewOK' /\ Opening' = Opening
      BY <2>5, NewQueue DEF NewConnectionPushed
    <3> QED
      BY <2>2, <2>3, <2>5, <3>1 DEF NewConnectionPushed, handleVars, listVars, serviceVars
  <2>6. ASSUME NEW c \in Conns, DoClose(c) \/ OnCloseMessage(c)
        PROVE  ServerInv'
    <3>1. \/ running_' = running_ \ {c} /\ uv_closing' = uv_closing \cup {c} /\ c \in running_
          \/ running_' = running_ /\ uv_closing' = uv_closing
      BY <2>6 DEF DoClose, OnCloseMessage
    <3>2. UNCHANGED <<newVars, closedVars, accepted, listVars, serviceVars>>
      BY <2>6 DEF DoClose, OnCloseMessage
    <3> QED
      BY <2>1, <2>2, <2>3, <3>1, <3>2 DEF listVars, serviceVars
  <2>7. ASSUME NEW c \in Conns, OnClosedHandle(c)
        PROVE  ServerInv'
    <3>1. ClosedOK' /\ Ending' = Ending \cup {c}
      BY <2>7, ClosedQueue DEF OnClosedHandle
    <3> QED
      BY <2>1, <2>3, <2>7, <3>1 DEF OnClosedHandle, listVars, serviceVars
  <2>8. CASE ClosedConnectionPushed \/ SwapClosed
    <3>1. ClosedOK' /\ Ending' = Ending
      BY <2>8, ClosedQueue DEF ClosedConnectionPushed, SwapClosed
    <3> QED
      BY <2>1, <2>3, <2>8, <3>1
         DEF ClosedConnectionPushed, SwapClosed, handleVars, listVars, serviceVars
  <2>9. CASE SwapNew
    <3>1. NewOK' /\ Opening' = Opening
      BY <2>9, NewQueue DEF SwapNew
    <3> QED
      BY <2>2, <2>3, <2>9, <3>1 DEF SwapNew, handleVars, listVars, serviceVars
  <2>10. ASSUME NEW c \in Conns, TakeNew(c)
         PROVE  ServerInv'
    <3>1. NewOK' /\ c \in Opening /\ Opening' = Opening \ {c}
      BY <2>10, NewQueue DEF TakeNew
    <3> QED
      BY <2>2, <2>3, <2>10, <3>1 DEF TakeNew, handleVars, serviceVars
  <2>11. ASSUME NEW c \in Conns, TakeClosed(c)
         PROVE  ServerInv'
    <3>1. ClosedOK' /\ c \in Ending /\ Ending' = Ending \ {c}
      BY <2>11, ClosedQueue DEF TakeClosed
    <3>2. CASE c \in closing_
      BY <2>1, <2>3, <2>11, <3>1, <3>2 DEF TakeClosed, handleVars, listVars, serviceVars
    <3>3. CASE c \notin closing_
      <4>1. /\ closing_' = closing_ \cup {c} /\ UNCHANGED <<newVars, handleVars, deleted>>
            /\ wait_delete_connections_list_' = [wait_delete_connections_list_ EXCEPT ![c] = @ + 1]
            /\ active_connections_' = active_connections_ \ {c}
            /\ missed' = IF c \in active_connections_ THEN missed ELSE missed \cup {c}
        BY <2>11, <3>3 DEF TakeClosed, ProcessConnClosed
      <4>2. LET bound == {c} \cap active_connections_ \cap connToGameService_ IN
              connToGameService_' = connToGameService_ \ bound /\ told' = told \cup bound
        BY <2>11, <3>3 DEF TakeClosed, ProcessConnClosed
      <4>3. wait_delete_connections_list_[c] = 0
        BY <3>3 DEF Waiting
      <4>4. Waiting' = Waiting \cup {c}
        BY <4>1, <4>3 DEF Waiting
      <4>5. ServerTypeOK' /\ \A d \in Conns : wait_delete_connections_list_'[d] <= 1
        BY <2>1, <3>1, <4>1, <4>3 DEF handleVars
      <4>6. Handles' /\ Lists'
        BY <2>1, <3>1, <4>1 DEF handleVars
      <4>7. ToFree'
        BY <3>3, <4>1, <4>4, <4>5
      <4>8. Services'
        BY <2>1, <4>1, <4>2 DEF handleVars
      <4> QED
        BY <4>5, <4>6, <4>7, <4>8
    <3> QED
      BY <3>2, <3>3
  <2>12. CASE NoMoreNew \/ NoMoreClosed \/ ProcessConnectionsKeepAlive
    BY <2>1, <2>2, <2>3, <2>12
       DEF NoMoreNew, NoMoreClosed, ProcessConnectionsKeepAlive, handleVars, listVars, serviceVars
  <2>13. CASE ProcessWaitDeleteConnections
    <3>1. PICK old \in SUBSET Waiting :
            /\ deleted' = deleted \cup old
            /\ wait_delete_connections_list_' =
                 [c \in Conns |-> IF c \in old THEN 0 ELSE wait_delete_connections_list_[c]]
      BY <2>13 DEF ProcessWaitDeleteConnections
    <3>2. UNCHANGED <<newVars, closedVars, handleVars, closing_, active_connections_, serviceVars>>
      BY <2>13 DEF ProcessWaitDeleteConnections
    <3>3. Waiting' = Waiting \ old
      BY <3>1 DEF Waiting
    <3>4. ServerTypeOK' /\ \A c \in Conns : wait_delete_connections_list_'[c] <= 1
      BY <2>1, <2>2, <3>1, <3>2 DEF handleVars, Waiting
    <3> QED
      BY <2>1, <2>2, <3>1, <3>2, <3>3, <3>4 DEF handleVars, serviceVars
  <2>14. CASE Dispatch
    BY <2>1, <2>2, <2>3, <2>14 DEF Dispatch, handleVars, listVars
  <2>15. CASE UNCHANGED vars
    BY <2>1, <2>2, <2>3, <2>15 DEF vars, handleVars, listVars, serviceVars
  <2> QED
    BY <2>4, <2>5, <2>6, <2>7, <2>8, <2>9, <2>10, <2>11, <2>12, <2>13, <2>14, <2>15
       DEF Next, UvThread, GameLoop
<1> QED
  BY <1>1, <1>2, PTL DEF Spec

(* Every connection is freed once, although two threads close connections: *)
(* what was freed is not open, not listed to be freed again, and in no     *)
(* list of the game loop unless its closing was taken before itself.       *)
THEOREM ConnectionsFreedOnce == Spec => []FreedOnce
<1>1. ServerInv => FreedOnce
  BY DEF ServerInv, ServerTypeOK, Handles, Lists, ToFree, Services, FreedOnce
<1> QED
  BY <1>1, ServerInvHolds, PTL

(* The services are told of the end of each connection of which they were  *)
(* handed packets, and get none of it afterwards.                          *)
THEOREM ServicesAreTold == Spec => []ServicesTold
<1>1. ServerInv => ServicesTold
  BY DEF ServerInv, Services, ServicesTold
<1> QED
  BY <1>1, ServerInvHolds, PTL
=============================================================================
