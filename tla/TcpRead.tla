------------------------------ MODULE TcpRead -------------------------------
(***************************************************************************)
(* The data of one connection on its way from the uv thread to the game    *)
(* loop: TcpConnection::OnRead pushes each chunk to read_queue_, a         *)
(* CircularFifo of Size places, and stops reading when it has filled it;   *)
(* TcpConnection::Read pops, and asks the uv thread to start reading again *)
(* with a READ message when it sees that reading_ is not set.              *)
(*                                                                         *)
(* Every load and store of the fifo's two indices and of reading_ is a     *)
(* step: they are sequentially consistent atomics.  Chunks are numbered in *)
(* the order in which they arrive.  READ messages are counted: they are    *)
(* all alike, and the uv thread gets each of them at some later time       *)
(* (Async).                                                                *)
(***************************************************************************)
EXTENDS Integers, Sequences

CONSTANTS
  Size,      \* places of the fifo: 128 in the code
  MaxChunks  \* bound: the chunks that arrive

ASSUME TcpReadAssumption == Size \in Nat \ {0} /\ MaxChunks \in Nat

VARIABLES
  tail, head, array, \* CircularFifo::_tail, _head, _array
  reading_,          \* TcpConnection::reading_
  open,              \* the handle is open: do_close was not called
  started,           \* libuv reads from the handle
  arrived,           \* chunks read from the handle
  uv_at,             \* where the uv thread is in OnRead
  read_posted,       \* READ messages on their way
  main_at,           \* where the game loop is in Read
  item,              \* the chunk pop has in hand
  pushed,            \* history: the chunks that were put into the fifo
  got,               \* history: the chunks that Read returned
  restarted_full,    \* history: reading was started on a full fifo and goes on
  raced              \* history: Read saw reading_ while OnRead was stopping

fifoVars == <<tail, head, array>>
flowVars == <<reading_, open, started, arrived, read_posted>>
historyVars == <<pushed, got, restarted_full, raced>>
vars == <<fifoVars, flowVars, uv_at, main_at, item, historyVars>>

Capacity == Size + 1

increment(idx) == (idx + 1) % Capacity

IsFull == increment(tail) = head

Init ==
  /\ tail = 0 /\ head = 0 /\ array = [i \in 0 .. Size |-> 0]
  /\ reading_ = TRUE /\ open = TRUE /\ started = TRUE
  /\ arrived = 0 /\ read_posted = 0
  /\ uv_at = "loop" /\ main_at = "poll" /\ item = 0
  /\ pushed = <<>> /\ got = <<>>
  /\ restarted_full = FALSE /\ raced = FALSE

-----------------------------------------------------------------------------
(* The uv thread.                                                          *)

(* A mistake to be caught: push does not look whether there is room.       *)
OnReadAnyway ==
  /\ uv_at = "loop" /\ started /\ arrived < MaxChunks
  /\ arrived' = arrived + 1
  /\ uv_at' = "write"
  /\ UNCHANGED <<fifoVars, reading_, open, started, read_posted, main_at, item, historyVars>>

(* do_read calls OnRead with a chunk, and push looks at head.              *)
OnRead ==
  /\ uv_at = "loop" /\ started /\ arrived < MaxChunks
  /\ arrived' = arrived + 1
  /\ uv_at' = IF IsFull THEN "refused" ELSE "write"
  /\ UNCHANGED <<fifoVars, reading_, open, started, read_posted, main_at, item, historyVars>>

(* push writes the place at tail, and then makes it visible.               *)
WriteItem ==
  /\ uv_at = "write"
  /\ array' = [array EXCEPT ![tail] = arrived]
  /\ uv_at' = "publish"
  /\ UNCHANGED <<tail, head, flowVars, main_at, item, historyVars>>

StoreTail ==
  /\ uv_at = "publish"
  /\ tail' = increment(tail)
  /\ pushed' = Append(pushed, arrived)
  /\ uv_at' = "wasFull"
  /\ UNCHANGED <<head, array, flowVars, main_at, item, got, restarted_full, raced>>

(* push returned false: assert(ret) ends the process, or, where asserts    *)
(* are compiled out, the chunk is dropped.                                 *)
Refused ==
  /\ uv_at = "refused"
  /\ uv_at' \in {"aborted", "wasFull"}
  /\ UNCHANGED <<fifoVars, flowVars, main_at, item, historyVars>>

(* A mistake to be caught: the fifo is never found full.                   *)
NeverFull ==
  /\ uv_at = "wasFull"
  /\ uv_at' = "loop"
  /\ UNCHANGED <<fifoVars, flowVars, main_at, item, historyVars>>

WasFull ==
  /\ uv_at = "wasFull"
  /\ uv_at' = IF IsFull THEN "stop" ELSE "loop"
  /\ UNCHANGED <<fifoVars, flowVars, main_at, item, historyVars>>

(* uv_read_stop and reading_ = false; the connection is closed if it fails.*)
StopRead ==
  /\ uv_at = "stop"
  /\ started' = FALSE
  /\ \/ reading_' = FALSE /\ UNCHANGED open
     \/ open' = FALSE /\ UNCHANGED reading_
  /\ restarted_full' = FALSE
  /\ uv_at' = "loop"
  /\ UNCHANGED <<fifoVars, arrived, read_posted, main_at, item, pushed, got, raced>>

(* do_close: the peer closed, or the game loop asked for it.               *)
DoClose ==
  /\ uv_at = "loop" /\ open
  /\ open' = FALSE /\ started' = FALSE
  /\ UNCHANGED <<fifoVars, reading_, arrived, read_posted, uv_at, main_at, item, historyVars>>

(* OnMessage with READ: StartRead, which fails on a handle that is closing.*)
(* Once the game loop has called OnClosed the message is dropped instead.  *)
StartRead ==
  /\ uv_at = "loop" /\ read_posted > 0
  /\ read_posted' = read_posted - 1
  /\ started' = open
  /\ \/ reading_' = open
     \/ ~open /\ UNCHANGED reading_
  /\ restarted_full' = (restarted_full \/ IsFull)
  /\ raced' = FALSE
  /\ UNCHANGED <<fifoVars, open, arrived, uv_at, main_at, item, pushed, got>>

-----------------------------------------------------------------------------
(* The game loop in TcpConnection::Read.                                   *)

(* Mistakes to be caught: pop leaves the last chunk, and Read asks the     *)
(* wrong way round.                                                        *)
PopButLast ==
  /\ main_at = "poll" /\ uv_at # "aborted"
  /\ head # tail /\ increment(head) # tail
  /\ item' = array[head]
  /\ main_at' = "taken"
  /\ UNCHANGED <<fifoVars, flowVars, uv_at, historyVars>>

AskWhileReading ==
  /\ main_at = "popped" /\ uv_at # "aborted"
  /\ read_posted' = IF reading_ THEN read_posted + 1 ELSE read_posted
  /\ raced' = (raced \/ (reading_ /\ uv_at = "stop"))
  /\ main_at' = "poll"
  /\ UNCHANGED <<fifoVars, reading_, open, started, arrived, uv_at, item,
                 pushed, got, restarted_full>>

(* pop finds the fifo not empty.  (When it is, Read returns 0.)            *)
Pop ==
  /\ main_at = "poll" /\ uv_at # "aborted"
  /\ head # tail
  /\ item' = array[head]
  /\ main_at' = "taken"
  /\ UNCHANGED <<fifoVars, flowVars, uv_at, historyVars>>

StoreHead ==
  /\ main_at = "taken" /\ uv_at # "aborted"
  /\ head' = increment(head)
  /\ got' = Append(got, item)
  /\ main_at' = "popped"
  /\ UNCHANGED <<tail, array, flowVars, uv_at, item, pushed, restarted_full, raced>>

(* Read looks at reading_ and posts READ when it is not set.               *)
AskToRead ==
  /\ main_at = "popped" /\ uv_at # "aborted"
  /\ read_posted' = IF reading_ THEN read_posted ELSE read_posted + 1
  /\ raced' = (raced \/ (reading_ /\ uv_at = "stop"))
  /\ main_at' = "poll"
  /\ UNCHANGED <<fifoVars, reading_, open, started, arrived, uv_at, item,
                 pushed, got, restarted_full>>

-----------------------------------------------------------------------------
Next ==
  \/ OnRead \/ WriteItem \/ StoreTail \/ Refused \/ WasFull \/ StopRead
  \/ DoClose \/ StartRead
  \/ Pop \/ StoreHead \/ AskToRead

(* Both threads go on, and the game loop calls Read on every turn until    *)
(* the connection is closed; the peer need not send.                       *)
Fairness ==
  /\ WF_vars(WriteItem) /\ WF_vars(StoreTail) /\ WF_vars(Refused)
  /\ WF_vars(WasFull) /\ WF_vars(StopRead)
  /\ WF_vars(open /\ Pop) /\ WF_vars(StoreHead) /\ WF_vars(AskToRead)

Spec == Init /\ [][Next]_vars /\ Fairness

-----------------------------------------------------------------------------
TypeOK ==
  /\ tail \in 0 .. Size /\ head \in 0 .. Size
  /\ array \in [0 .. Size -> 0 .. MaxChunks]
  /\ reading_ \in BOOLEAN /\ open \in BOOLEAN /\ started \in BOOLEAN
  /\ arrived \in 0 .. MaxChunks /\ read_posted \in Nat
  /\ uv_at \in {"loop", "write", "publish", "refused", "wasFull", "stop", "aborted"}
  /\ main_at \in {"poll", "taken", "popped"}
  /\ item \in 0 .. MaxChunks
  /\ pushed \in Seq(1 .. MaxChunks) /\ got \in Seq(0 .. MaxChunks)
  /\ restarted_full \in BOOLEAN /\ raced \in BOOLEAN

(* Read returns the chunks that were pushed, in order, each once: neither  *)
(* thread touches a place of the ring that the other is using              *)
(* (circularfifo_memory_sequential_consistent.hpp:80-124).                 *)
ReadInOrder ==
  /\ Len(got) <= Len(pushed)
  /\ \A n \in DOMAIN got : got[n] = pushed[n]

(* No push finds the fifo full, except where a READ message has started    *)
(* reading on a full fifo and it has not been stopped since: Read saw      *)
(* reading_ cleared by a stop that came after its pop                      *)
(* (tcp_connection.cpp:261-282).                                           *)
RefusedOnlyIfRestartedFull == uv_at \in {"refused", "aborted"} => restarted_full

(* A connection stops reading for good only if Read emptied the fifo while *)
(* OnRead was between finding it full and clearing reading_: otherwise a   *)
(* READ message is on its way or Read will yet post one                    *)
(* (tcp_connection.cpp:266-270,299-304).                                   *)
Paused ==
  /\ open /\ ~started /\ uv_at = "loop"
  /\ head = tail /\ main_at = "poll" /\ read_posted = 0

PausedOnlyIfRaced == Paused => raced

(* What was pushed is read, unless the connection is closed or the process *)
(* ends before: the game loop reads from active connections only.          *)
EveryChunkRead ==
  \A n \in 1 .. MaxChunks :
    (Len(pushed) >= n) ~> (Len(got) >= n \/ ~open \/ uv_at = "aborted")

-----------------------------------------------------------------------------
(* A statement of the source that the code does not keep.                  *)

(* tcp_connection.cpp:262, assert(ret): the push of a chunk succeeds.      *)
PushSucceeds == uv_at # "refused"
=============================================================================
