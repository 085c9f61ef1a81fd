----------------------------- MODULE TcpServer ------------------------------
(***************************************************************************)
(* The life of the connections of TcpServer, between its two threads.      *)
(*                                                                         *)
(* The uv thread accepts a connection and announces it on new_connections_,*)
(* and when its handle has been closed announces that on                   *)
(* closed_connections_.  Once per turn of the game loop, Dispatcher::Update*)
(* runs ProcessConnections, which empties the first queue and then the     *)
(* second, closes what has been silent for a minute, deletes what has been *)
(* closed for five, and then reads the packets of the active connections   *)
(* and hands them to the services.                                         *)
(*                                                                         *)
(* The two queues are DoubleBufferQueues, each with its own index.  The uv *)
(* thread is the only producer of both and does nothing else while it is   *)
(* in push.  A connection stands for one TcpConnection object, which is    *)
(* made once; the reading of its data is TcpRead's subject.                *)
(***************************************************************************)
EXTENDS Integers, Sequences, Functions

CONSTANTS
  Conns,   \* the connections that clients may open
  uv,      \* the uv thread
  Nothing  \* the uv thread is not in push

ASSUME TcpServerAssumption == Nothing \notin [to : {0, 1}, item : Conns]

VARIABLES
  new_index, new_queues, new_pushing,          \* new_connections_
  closed_index, closed_queues, closed_pushing, \* closed_connections_
  accepted,     \* connections that exist or existed
  running_,     \* those whose running_ is set: the handle is open
  uv_closing,   \* those uv_close was called for
  close_posted, \* those with a CLOSE message in the async queue
  closing_,     \* those OnClosed was called for
  active_connections_,
  wait_delete_connections_list_, \* of each connection: how often the list names it
  deleted,      \* those that connection_deletor_ has freed
  connToGameService_, \* Dispatcher: those with a packet handed to a service
  told,         \* those the services' OnConnClosed was called for
  missed,       \* history: taken from closed_connections_ while not active
  main          \* where the game loop is in Update

newVars == <<new_index, new_queues, new_pushing>>
closedVars == <<closed_index, closed_queues, closed_pushing>>
handleVars == <<accepted, running_, uv_closing, close_posted>>
listVars == <<closing_, active_connections_, wait_delete_connections_list_, deleted>>
serviceVars == <<connToGameService_, told, missed>>
vars == <<newVars, closedVars, handleVars, listVars, serviceVars, main>>

NewConnections == INSTANCE DoubleBufferQueue WITH
  queue_index_ <- new_index, queues_ <- new_queues, pushing <- new_pushing,
  Producers <- {uv}, Items <- Conns

ClosedConnections == INSTANCE DoubleBufferQueue WITH
  queue_index_ <- closed_index, queues_ <- closed_queues, pushing <- closed_pushing,
  Producers <- {uv}, Items <- Conns

Init ==
  /\ NewConnections!QueueInit
  /\ ClosedConnections!QueueInit
  /\ accepted = {} /\ running_ = {} /\ uv_closing = {} /\ close_posted = {}
  /\ closing_ = {} /\ active_connections_ = {}
  /\ wait_delete_connections_list_ = [c \in Conns |-> 0] /\ deleted = {}
  /\ connToGameService_ = {} /\ told = {} /\ missed = {}
  /\ main = "SwapNew"

-----------------------------------------------------------------------------
(* The uv thread.                                                          *)
Pushing == new_pushing[uv] # Nothing \/ closed_pushing[uv] # Nothing

(* on_new_connection: Init sets running_, StartRead starts reading, and    *)
(* OnNewConnection pushes.                                                 *)
OnNewConnection(c) ==
  /\ ~Pushing
  /\ c \notin accepted
  /\ accepted' = accepted \cup {c}
  /\ running_' = running_ \cup {c}
  /\ NewConnections!BeginPush(uv, c)
  /\ UNCHANGED <<closedVars, uv_closing, close_posted, listVars, serviceVars, main>>

NewConnectionPushed ==
  /\ NewConnections!EndPush(uv)
  /\ UNCHANGED <<closedVars, handleVars, listVars, serviceVars, main>>

(* A mistake to be caught: uv_close is not called.                         *)
StopOnly(c) ==
  /\ ~Pushing
  /\ c \in running_
  /\ running_' = running_ \ {c}
  /\ UNCHANGED <<newVars, closedVars, accepted, uv_closing, close_posted,
                 listVars, serviceVars, main>>

(* do_close, after the peer closed or a read or a write failed.            *)
DoClose(c) ==
  /\ ~Pushing
  /\ c \in running_
  /\ running_' = running_ \ {c}
  /\ uv_closing' = uv_closing \cup {c}
  /\ UNCHANGED <<newVars, closedVars, accepted, close_posted, listVars, serviceVars, main>>

(* TcpConnection::OnMessage with CLOSE: dropped when OnClosed has been     *)
(* called, and without effect when the handle is closing already.          *)
OnCloseMessage(c) ==
  /\ ~Pushing
  /\ c \in close_posted
  /\ close_posted' = close_posted \ {c}
  /\ LET closes == c \notin closing_ /\ c \in running_ IN
       /\ running_' = IF closes THEN running_ \ {c} ELSE running_
       /\ uv_closing' = IF closes THEN uv_closing \cup {c} ELSE uv_closing
  /\ UNCHANGED <<newVars, closedVars, accepted, listVars, serviceVars, main>>

(* libuv has closed the handle and calls on_closed, which posts CLOSE to   *)
(* the server; this is the server's own thread, so TcpServer::OnMessage    *)
(* runs at once and pushes.                                                *)
OnClosedHandle(c) ==
  /\ ~Pushing
  /\ c \in uv_closing
  /\ uv_closing' = uv_closing \ {c}
  /\ ClosedConnections!BeginPush(uv, c)
  /\ UNCHANGED <<newVars, accepted, running_, close_posted, listVars, serviceVars, main>>

ClosedConnectionPushed ==
  /\ ClosedConnections!EndPush(uv)
  /\ UNCHANGED <<newVars, handleVars, listVars, serviceVars, main>>

-----------------------------------------------------------------------------
(* The game loop: TcpServer::ProcessConnections and Dispatcher::Update.    *)
SwapNew ==
  /\ main = "SwapNew"
  /\ NewConnections!Swap
  /\ main' = "New"
  /\ UNCHANGED <<closedVars, handleVars, listVars, serviceVars>>

TakeNew(c) ==
  /\ main = "New"
  /\ NewConnections!Pop(c)
  /\ active_connections_' = active_connections_ \cup {c}
  /\ UNCHANGED <<closedVars, handleVars, closing_, wait_delete_connections_list_,
                 deleted, serviceVars, main>>

NoMoreNew ==
  /\ main = "New"
  /\ NewConnections!Front = <<>>
  /\ main' = "SwapClosed"
  /\ UNCHANGED <<newVars, closedVars, handleVars, listVars, serviceVars>>

SwapClosed ==
  /\ main = "SwapClosed"
  /\ ClosedConnections!Swap
  /\ main' = "Closed"
  /\ UNCHANGED <<newVars, handleVars, listVars, serviceVars>>

(* A mistake to be caught: the services are not told.                      *)
ForgetServices(c) ==
  /\ active_connections_' = active_connections_ \ {c}
  /\ UNCHANGED <<connToGameService_, told>>

(* ProcessConnClosed: nothing at all unless the connection is active.      *)
ProcessConnClosed(c) ==
  /\ active_connections_' = active_connections_ \ {c}
  /\ LET bound == {c} \cap active_connections_ \cap connToGameService_ IN
       /\ connToGameService_' = connToGameService_ \ bound
       /\ told' = told \cup bound

TakeClosed(c) ==
  /\ main = "Closed"
  /\ ClosedConnections!Pop(c)
  /\ IF c \in closing_
     THEN UNCHANGED <<listVars, serviceVars>>
     ELSE /\ ProcessConnClosed(c)
          /\ closing_' = closing_ \cup {c}
          /\ wait_delete_connections_list_' = [wait_delete_connections_list_ EXCEPT ![c] = @ + 1]
          /\ missed' = IF c \in active_connections_ THEN missed ELSE missed \cup {c}
          /\ UNCHANGED deleted
  /\ UNCHANGED <<newVars, handleVars, main>>

NoMoreClosed ==
  /\ main = "Closed"
  /\ ClosedConnections!Front = <<>>
  /\ main' = "KeepAlive"
  /\ UNCHANGED <<newVars, closedVars, handleVars, listVars, serviceVars>>

(* ProcessConnnectionsKeepAlive: some active connections have been silent. *)
(* Close posts only while running_ is set.                                 *)
ProcessConnectionsKeepAlive ==
  /\ main = "KeepAlive"
  /\ \E silent \in SUBSET active_connections_ :
       close_posted' = close_posted \cup (silent \cap running_)
  /\ main' = "WaitDelete"
  /\ UNCHANGED <<newVars, closedVars, accepted, running_, uv_closing, listVars, serviceVars>>

(* When a connection was closed five minutes ago, which is thousands of    *)
(* turns, what was posted for it has been delivered and its announcement   *)
(* has been taken.                                                         *)
Announced(c) ==
  \/ c \in NewConnections!Queued
  \/ new_pushing[uv] \in [to : {0, 1}, item : {c}]

Settled(c) == c \notin close_posted /\ ~Announced(c)

Waiting == {c \in Conns : wait_delete_connections_list_[c] > 0}

(* A mistake to be caught: what was freed stays in the list.               *)
DeleteAndKeep ==
  /\ main = "WaitDelete"
  /\ \E old \in SUBSET Waiting :
       deleted' = deleted \cup old
  /\ main' = "Dispatch"
  /\ UNCHANGED <<newVars, closedVars, handleVars, closing_, active_connections_,
                 wait_delete_connections_list_, serviceVars>>

(* ProcessWaitDeleteConnections: some were closed five minutes ago.        *)
ProcessWaitDeleteConnections ==
  /\ main = "WaitDelete"
  /\ \E old \in SUBSET Waiting :
       /\ \A c \in old : Settled(c)
       /\ deleted' = deleted \cup old
       /\ wait_delete_connections_list_' =
            [c \in Conns |-> IF c \in old THEN 0 ELSE wait_delete_connections_list_[c]]
  /\ main' = "Dispatch"
  /\ UNCHANGED <<newVars, closedVars, handleVars, closing_, active_connections_, serviceVars>>

(* Dispatcher::Update hands the packets of active connections to services. *)
Dispatch ==
  /\ main = "Dispatch"
  /\ \E readable \in SUBSET active_connections_ :
       connToGameService_' = connToGameService_ \cup readable
  /\ main' = "SwapNew"
  /\ UNCHANGED <<newVars, closedVars, handleVars, listVars, told, missed>>

-----------------------------------------------------------------------------
UvThread ==
  \/ NewConnectionPushed
  \/ ClosedConnectionPushed
  \/ \E c \in Conns :
       \/ OnNewConnection(c)
       \/ DoClose(c)
       \/ OnCloseMessage(c)
       \/ OnClosedHandle(c)

GameLoop ==
  \/ SwapNew \/ NoMoreNew \/ SwapClosed \/ NoMoreClosed
  \/ \E c \in Conns : TakeNew(c) \/ TakeClosed(c)
  \/ ProcessConnectionsKeepAlive
  \/ ProcessWaitDeleteConnections
  \/ Dispatch

Next == UvThread \/ GameLoop

(* The game loop goes on, the uv thread finishes its pushes, delivers what *)
(* was posted and serves the handles it is closing, and what waits to be   *)
(* deleted does so for five minutes; clients need not do anything.         *)
Fairness ==
  /\ WF_vars(GameLoop)
  /\ WF_vars(NewConnectionPushed) /\ WF_vars(ClosedConnectionPushed)
  /\ \A c \in Conns :
       /\ SF_vars(OnClosedHandle(c))
       /\ SF_vars(OnCloseMessage(c))
       /\ SF_vars(ProcessWaitDeleteConnections /\ c \in deleted')

Spec == Init /\ [][Next]_vars /\ Fairness

-----------------------------------------------------------------------------
(* A connection is closed and freed once, although the peer, a failed      *)
(* write and the keep-alive may each close it: uv_close is called on a     *)
(* handle that is open, the list of what is to be freed names it once, and *)
(* what was freed is in no list of the game loop, unless its closing was   *)
(* taken before the connection itself                                      *)
(* (tcp_connection.cpp:52-60, tcp_server.cpp:163-192,210-231,268-288).     *)
FreedOnce ==
  /\ \A c \in Conns : wait_delete_connections_list_[c] <= 1
  /\ Waiting \cap deleted = {}
  /\ deleted \subseteq closing_
  /\ running_ \cap (uv_closing \cup closing_) = {}
  /\ deleted \cap (active_connections_ \cup connToGameService_) \subseteq missed

(* What a service is promised (GameService::OnConnClosed): after it was    *)
(* told that a connection closed it is handed no packet of it any more,    *)
(* and a closed connection has no packet of which the services were not    *)
(* told, unless the game loop took the closing before the connection.      *)
ServicesTold ==
  /\ told \cap (connToGameService_ \cup active_connections_) = {}
  /\ connToGameService_ \cap closing_ \subseteq missed

(* Every connection whose handle was closed is freed in the end.           *)
ClosedIsFreed == \A c \in Conns : (c \in accepted \ running_) ~> (c \in deleted)

-----------------------------------------------------------------------------
(* A statement of the source that the code does not keep.                  *)

(* tcp_server.cpp:224 says that the delay before the deletion keeps a read *)
(* or a write for the closed connection from touching a freed object: no   *)
(* freed connection is among those whose packets Dispatcher::Update reads. *)
NoReadAfterDelete == deleted \cap active_connections_ = {}
=============================================================================
