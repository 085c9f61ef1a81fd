------------------------------ MODULE TcpWrite ------------------------------
(***************************************************************************)
(* The packets one connection is sent.  TcpConnection::Write, in the game  *)
(* loop, posts each as a WRITE message to the server's Async; OnMessage,   *)
(* in the uv thread, hands it to libuv, which calls do_write when it was   *)
(* sent, could not be sent, or the handle is closed.  The data belong to   *)
(* the message, then to the request in write_req_set_, which do_write      *)
(* frees, or else the destructor.                                          *)
(*                                                                         *)
(* Once the handle is closed uv_write refuses: it returns an error, which  *)
(* nobody looks at, and never calls do_write.  Once the game loop has set  *)
(* closing_, OnMessage drops what comes, with its data.                    *)
(***************************************************************************)
EXTENDS Integers, Sequences, Functions

CONSTANTS
  MaxWrites, \* bound: packets written
  CLOSE,     \* TCP_CONNECTION_MESSAGE_CLOSE
  game,      \* the thread that writes
  Nothing

VARIABLES
  queue_index_, queues_, pushing, sending, wake, draining, idle, late, \* of the server's Async
  written,        \* how many packets were written: they are numbered
  life,           \* "open": running_; "closing": uv_close was called; "closed": on_closed too;
                  \* "OnClosed": closing_; "deleted"
  handed,         \* history: what was handed to libuv, in this order,
  answered,       \* and for how many of these do_write was called
  write_req_set_,
  freed,          \* how often the data of each packet were freed
  leaked          \* history: data that were dropped

Packets == 1 .. MaxWrites

Mail == INSTANCE Async WITH Producers <- {game}, Items <- Packets \cup {CLOSE}

mailVars == <<queue_index_, queues_, pushing, sending, wake, draining, idle, late>>
writeVars == <<handed, answered, write_req_set_, freed, leaked>>
vars == <<mailVars, written, life, writeVars>>

Init ==
  /\ Mail!Init
  /\ written = 0
  /\ life = "open"
  /\ handed = <<>> /\ answered = 0
  /\ write_req_set_ = {}
  /\ freed = [x \in Packets |-> 0]
  /\ leaked = {}

-----------------------------------------------------------------------------
(* The game loop, which is not in the midst of PostMessage.                *)
Posted == pushing[game] = Nothing /\ game \notin sending

Write ==
  /\ life \notin {"OnClosed", "deleted"} /\ written < MaxWrites
  /\ written' = written + 1
  /\ Mail!StartPost(game, written')
  /\ UNCHANGED <<life, writeVars>>

Close ==
  /\ life = "open"
  /\ Mail!StartPost(game, CLOSE)
  /\ UNCHANGED <<written, life, writeVars>>

FinishPost == (Mail!FinishPush(game) \/ Mail!Send(game)) /\ UNCHANGED <<written, life, writeVars>>

(* ProcessConnections takes the closed connection, and deletes it when     *)
(* nothing is on its way to it any more.                                   *)
OnClosed ==
  /\ life = "closed" /\ Posted
  /\ life' = "OnClosed"
  /\ UNCHANGED <<mailVars, written, writeVars>>

Free(X) == freed' = [x \in Packets |-> IF x \in X THEN freed[x] + 1 ELSE freed[x]]

Delete ==
  /\ life = "OnClosed" /\ Posted /\ idle = Packets \cup {CLOSE}
  /\ life' = "deleted"
  /\ Free(write_req_set_)
  /\ UNCHANGED <<mailVars, written, handed, answered, write_req_set_, leaked>>

-----------------------------------------------------------------------------
(* The uv thread.                                                          *)
StartCallback == Mail!StartCallback /\ UNCHANGED <<written, life, writeVars>>
EndCallback == Mail!EndCallback /\ UNCHANGED <<written, life, writeVars>>

OnMessage(x) ==
  /\ Mail!OnMessage(x)
  /\ \/ /\ life = "OnClosed"
        /\ leaked' = leaked \cup ({x} \ {CLOSE})
        /\ UNCHANGED <<life, handed, write_req_set_>>
     \/ /\ life # "OnClosed" /\ x = CLOSE
        /\ life' = IF life = "open" THEN "closing" ELSE life
        /\ UNCHANGED <<handed, write_req_set_, leaked>>
     \/ /\ life # "OnClosed" /\ x \in Packets
        /\ write_req_set_' = write_req_set_ \cup {x}
        /\ handed' = IF life = "open" THEN Append(handed, x) ELSE handed
        /\ UNCHANGED <<life, leaked>>
  /\ UNCHANGED <<written, answered, freed>>

(* A mistake to be caught: the request stays in write_req_set_.            *)
DoWriteOnly(n) ==
  LET done == {handed[answered + i] : i \in 1 .. n}
  IN  /\ answered' = answered + n
      /\ Free(done)
      /\ UNCHANGED <<mailVars, written, handed, write_req_set_, leaked>>

(* libuv is done with its next n requests and calls do_write for each.     *)
DoWrite(n) ==
  LET done == {handed[answered + i] : i \in 1 .. n}
  IN  /\ answered' = answered + n
      /\ Free(done)
      /\ write_req_set_' = write_req_set_ \ done
      /\ UNCHANGED <<mailVars, written, handed, leaked>>

Waiting == Len(handed) - answered

(* A request was sent, or could not be: status says so.                    *)
Answer ==
  /\ life = "open" /\ ~draining /\ Waiting > 0
  /\ life' \in {"open", "closing"}
  /\ DoWrite(1)

PeerCloses ==
  /\ life = "open" /\ ~draining
  /\ life' = "closing"
  /\ UNCHANGED <<mailVars, written, writeVars>>

(* Before on_closed libuv gives up all requests that wait.                 *)
OnClosedHandle ==
  /\ life = "closing" /\ ~draining
  /\ life' = "closed"
  /\ DoWrite(Waiting)

-----------------------------------------------------------------------------
Next ==
  \/ Write \/ Close \/ FinishPost \/ OnClosed \/ Delete
  \/ StartCallback \/ EndCallback \/ (\E x \in Packets \cup {CLOSE} : OnMessage(x))
  \/ Answer \/ PeerCloses \/ OnClosedHandle

Spec == Init /\ [][Next]_vars

-----------------------------------------------------------------------------
(* Packets are handed to the socket in the order in which they were        *)
(* written, unless a swap overtook the push of one: then those after it    *)
(* may go first, though one thread writes them all                         *)
(* (tcp_connection.cpp:204-232,326-345, async.cpp:17-41).                  *)
WrittenInOrder ==
  life = "open" => \A j \in Range(handed) : \A i \in 1 .. j : i \in Range(handed) \/ i \in late

(* However the connection ends, the data of each packet are freed once, by *)
(* do_write or by the destructor, but for those that OnMessage drops       *)
(* because closing_ is set: nobody frees them                              *)
(* (tcp_connection.cpp:62-80,119-141,204-211).                             *)
WritesFreedOnce ==
  /\ \A x \in Packets : freed[x] <= 1
  /\ life = "deleted" => \A x \in 1 .. written : freed[x] = (IF x \in leaked THEN 0 ELSE 1)
=============================================================================
