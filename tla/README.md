# white_board_server: specification and proofs

This directory holds TLA+ models of the white board server in `src/`, the TLC
configurations that check them on small instances, and theorems about them
checked by TLAPS. The server is a C++ process in which clients connect over TCP,
enter rooms, and draw shapes that everybody in the room is sent.

- [The system](#the-system): components, state, operations, interactions, hazards
- [The plan](#the-plan): modules, abstractions, runs, theorems, and their order
- [The modules](#the-modules): how each corresponds to the code
- [The runs](#the-runs): what is checked, with which bounds and fairness
- [The proofs](#the-proofs): what holds for every value of the constants
- [Where code and comments disagree](#where-code-and-comments-disagree)
- [What is not modelled](#what-is-not-modelled)

To repeat everything, in this directory: `tlc -config <run>.cfg MC<Module>.tla` for
each run of PROJECT.json, and `tlapm <Module>.tla` for `DataLemmas`,
`WhiteBoardProofs`, `BaseProofs`, `AsyncProofs`, `TcpServerProofs`, `TcpConnectionProofs`,
`ClientsProofs` and `ServicesProofs`.

## The system

Paths are relative to `src/`.

### Threads and how the parts meet

`runner/main.cpp` starts two threads that matter here.

- The **uv thread** runs a libuv loop. It accepts connections, reads chunks of
  bytes from them, writes to them, and closes their handles.
- The **game loop** (`framework/base/game_loop.cpp`, `OurGameLoop::Update`) turns
  every 30 ms. A turn runs `Dispatcher::Update`, which first calls
  `TcpServer::ProcessConnections` and then reads packets from the active
  connections and hands each to the service of its opcode, and afterwards the
  services' own `Update`, of which the account service's deletes old rooms.

Everything that has to do with players, rooms and shapes runs in the game loop,
one handler after the other. The two threads share, per connection, a ring of
chunks with the flag `reading_`; and, per server, two double buffer queues that
announce new and closed connections. In the other direction the game loop posts
READ, WRITE and CLOSE messages to an `Async`, a third double buffer queue, which
the uv thread empties when libuv wakes it.

```
 uv thread                                            game loop
 on_new_connection --- new_connections_ ----------->  ProcessConnections
 on_closed ----------- closed_connections_ -------->       |
 OnRead -------------- read_queue_ (a ring) ------->  Dispatcher::Update
 OnMessage <---------- Async (READ, WRITE, CLOSE) --       | packets
                                                      AccountService -> PlayerSession
                                                                     -> RoomManager -> Room
```

### Inventory

**Rooms and players** (`game_base/account/source/room.cpp`, `room_manager.cpp`,
`player_session.cpp`, `player_manager.cpp`, `account_service_pimpl.cpp`)
- State: `RoomManager::rooms_` by key; of each `Room` its `sessions_`, the map
  `shape_object_`, the counter `shape_max_id_` and `can_delete_time_`;
  `PlayerManager::player_sessions_`; of each `PlayerSession` its `room_` and
  `usr_name_`.
- Operations: the seven room operations of `HandleRoomOperate` (list, create,
  enter, leave, delete, copy, list players), adding and removing shapes, the end
  of a connection, and the deletion of rooms whose time has come.
- Hard: rooms and sessions point to each other and are deleted by different code;
  entering leaves the old room first, and then may fail; the broadcast of new
  shapes carries ids the loop has rewritten; an iterator is used after its element
  was erased; the id counter wraps.
- Correct when: no pointer dangles and both ends agree; everybody in a room sees
  its drawing; ids are given once; everybody is told of who comes and goes and of
  which rooms there are; empty rooms are deleted, and occupied ones are not.

**DoubleBufferQueue** (`framework/base/double_buffer_queue.h`)
- State: two queues with a mutex each, and an index without one.
- Operations: push (any thread), swap, pop and empty (one thread).
- Hard: push reads the index before it locks.
- Correct when: nothing is lost, doubled or delivered out of order.

**Async** (`framework/server/async.cpp`)
- State: a DoubleBufferQueue and a `uv_async_t`.
- Operations: `PostMessage`, `async_callback`.
- Hard: wake-ups coalesce, and the queue is swapped only on a wake-up.
- Correct when: what is posted is delivered.

**TcpServer** (`framework/server/tcp_server.cpp`) with the life of `TcpConnection`
- State: `active_connections_`, `wait_delete_connections_list_` and two queues;
  `running_` and `closing_` of each connection.
- Operations: accept, close (by peer, by failure, by keep-alive), taking new and
  closed connections, delayed deletion.
- Hard: two threads close; the announcements of a connection's beginning and end go
  through two queues; deletion is by delay.
- Correct when: each connection is freed once, after nobody refers to it any more;
  services are told of the end of what they served; nothing is kept for ever.

**TcpConnection reading and writing** (`framework/server/tcp_connection.cpp`,
`framework/base/circularfifo_memory_sequential_consistent.hpp`)
- State: the ring, `reading_`, whether libuv is reading, READ messages on their way;
  WRITE messages on theirs, libuv's write requests, `write_req_set_`.
- Operations: `OnRead`, `Read`, `StartRead`; `Write`, `Close`, `OnMessage`, `do_write`,
  the destructor.
- Hard: lock-free ring between two threads; flow control over a flag both look at; a
  packet's data belong to a message, then to a request, then to nobody; the handle may
  be closed between any two steps.
- Correct when: chunks come out in order; no push finds the ring full; reading does
  not stop for good; packets are sent in the order they were written, and their data
  freed once.

**Dispatcher** (`framework/server/packet_dispatcher.cpp`)
- State: subscriptions by opcode, `connToGameService_`.
- Operations: subscribe, unsubscribe, `Update` (up to a number of packets), telling
  services of closed connections.
- Correct when: a packet reaches the service of its opcode, and a service is told of
  the end of its connections only.

**AccountService versions** (`game_base/account/source/account_service.cpp`)
- State: one `AccountServicePimpl` per loaded version, which of them has which
  connection.
- `Reload` is called from `Init` only, so that there is one version while the server
  runs, and `OnConnClosed` stopping at the first version does no harm.

**Framing** (`framework/server/transcode*.cpp`, `TcpConnection::BufCat`, `BufClear`)
- State: the buffer of a connection. Operations: append, is a packet complete, take it.
- Hard: lengths at their limits, and packets that span chunks.
- Correct when: the packets that are read depend on the bytes and not on the chunks;
  what was encoded is decoded; no complete packet is left.

**ServiceManager, DependencyResolver, game loop, main** (`framework/server/service_manager.cpp`,
`dependencyResolver.cpp`, `server.cpp`, `framework/base/game_loop.cpp`, `runner/main.cpp`)
- State: services by name, the order of their dependencies, `isRunning_` of the loop, the
  uv thread.
- Operations: init, start, turn, the signal, stop, destroy.
- Hard: circles and services that are not there; a start that fails half-way; the message
  that stops the uv thread goes through the same `Async` as everything else.
- Correct when: a service runs only while those it depends on do; a signal ends the process.

**ThreadPool, Worker** (`framework/base/thread_pool.cpp`, `worker.cpp`)
- State: queued tasks; of each worker its task, `isRunning_`, a thread, a condition variable.
- Operations: `AddWork`, `Start`, `Update`, `Stop`, the destructor, `Worker::Run`.
- Hard: a worker looks at its task without the mutex, then waits without a condition.
- Correct when: each task is run once, and in the end; no worker sleeps over its task;
  stopping returns.

**Redis and MySQL** (`framework/server/redis_manager.cpp`, `mysql_database.cpp`,
`mysql_connection.cpp`)
- State: connections with `is_free_`, their count, an index that goes round; of a Redis
  connection the replies that are owed; of a MySQL connection its transaction.
- Operations: get and put a connection; commands, pipelines, replies; begin, execute,
  commit, roll back; reconnection in any of them.
- Hard: the pool's flags are read and written without a lock; what is retried on a new
  connection has lost what went before it.
- Correct when: no two threads hold one connection and none is lost; nobody waits for a
  reply that will not come; a transaction is whole or not at all.

**RabbitMQ client** (`framework/server/rabbitmq_client.cpp`)
- State: two double buffer queues, two connections with `need_reconnect` flags,
  `readQueueRep_`, which is a copied name.
- Operations: `Write` and the sending thread; the listening thread, `Read`, `Ack`, `Reject`;
  start and stop.
- Hard: messages that failed are put back behind others; tags outlive their connection; a
  pointer is freed in several places and initialised in none.
- Correct when: what is written is published; what is acknowledged was read; what the
  broker has is read in the end; nothing is freed twice.

**ZooKeeper client** (`framework/server/zookeeper_*.cpp`)
- State: the session, watches, `isChanged_`, the node's `ZkRole`s and their `info_`,
  `mergedConfig_`.
- Operations: start and stop, the callbacks (session, node created, node changed, role
  changed), `GetConfigure`.
- Hard: watches fire once; callbacks run in another thread; a watch holds a pointer to a
  role that may be gone; a merge moves values out of the roles; ephemeral nodes of a
  process that crashed.
- Correct when: the merged configuration is the server's; a running service is registered.

**FileMonitor** (`framework/server/file_monitor.cpp`)
- State: modification times, callbacks, and changed files, in maps without a mutex.
- Operations: add, delete, check, call back in one of two threads, start, stop.
- Hard: a list is gone through by one thread and written by another.
- Correct when: a file that changed is called back for.

`main` starts none of Redis, MySQL, RabbitMQ, ZooKeeper, FileMonitor and the thread pool,
which are compiled into the server.

**Poker rules** (`DN_application/DN_Account`): hand ranking and player data of another
product; no handler of the white board reaches them.

**The rest**: mongoose and the HTTP wrappers, tinyxml, csv_parser, lua and lua_tinker
(vendored); logging, formatting, encryption, time; generated protocol buffers.

PROJECT.json lists the hazards one by one, each at its line.

## The plan

Written in this order, the most important behaviour first.

| step | modules | state |
|---|---|---|
| 1 | `ShapeStore`, `WhiteBoard` | done |
| 2 | `DoubleBufferQueue`, `Mailbox`, `DoubleBufferUse` | done |
| 3 | `Async` over DoubleBufferQueue | done |
| 4 | `TcpServer` over two DoubleBufferQueues | done |
| 5 | `TcpRead`: ring and flow control | done |
| 6 | proofs: types and pointers of WhiteBoard, the drawings, the queue | done |
| 7 | `Framing`: a byte stream cut into packets, against a reference definition | done |
| 8 | `ServerStop` over Async: dependency order, start, turns, stop | done |
| 9 | `TcpWrite` over Async | done |
| 10 | `ThreadPool`: workers, lost wake-ups, stopping, against `Mailbox` | done |
| 11 | `ConnectionPool`, `RedisClient`, `MySqlSession` | done |
| 12 | `RabbitProducer`, against `Mailbox`, and `RabbitConsumer`, over DoubleBufferQueue | done |
| 13 | `ZooKeeper`, `FileMonitor` | done |
| 14 | proofs: `FreshIds`, the lists players are sent; order and delay of the queue; `TcpServer`, `TcpRead`, `ConnectionPool` | done |
| 15 | proofs: `Async`, `ThreadPool`, `ServerStop`, `TcpWrite`, `Framing`, the clients, `ZooKeeper` | done |
| 16 | proofs of what the liveness properties rest on: types of `FileMonitor`, the time of a room that was left | later |
| 17 | `Dispatch`: opcodes, subscriptions, several account services; keep-alive clocks; poker hands | later |

Abstract specifications: `Mailbox`, which the double buffer queue, the pool of threads and
the sending half of the RabbitMQ client implement, each under its own mapping; and the
packets of a byte stream that is there as a whole, for the framing (`Ends`, `PacketOf`).

The runs are kept to a dozen. Where components share nothing and are small, one run checks
several of them: its MC module has a variable `part` that says whose behaviour this is, and
the others stay as they begin. So the states of such a run are the sum of its parts', not
the product.

Modules about which something is proved use no recursive operators: the loops of
`ShapeStore`, of `Framing`, of `TopSort` and of the broker's redelivery are recursive
functions over a number of turns.

## The modules

Definitions keep the names of the code; PROJECT.json maps each to its lines.

### ShapeStore

The contents of a room, without state of its own. A board is a record of
`shape_object_`, a function from ids to shapes, and `shape_max_id_`. `AddOne` is one
turn of the loop of `Room::PlayerAddShape`: an id the room has is overwritten, any
other is replaced by the counter's, which then advances modulo `IdSpace` (2^32);
`std::map::insert` leaves an entry alone that is already there. `Turns` is the whole
loop, and `Numbered` the request as the loop leaves it, which is what is broadcast.
`Draw` and `Erase` are what a client does with what it is sent; the client is not in
`src/`, these are marked external. A shape's other fields and the stroke data are one
value of `Shapes`.

### WhiteBoard

One variable per member named above, plus `canvas`, `player_list` and `room_list`,
what each player was last sent, and `up`. Each handler is an action, named after the
function; `HandleRoomOperate` is the prologue they share (the name is taken over
whatever the operation). Sending is modelled by what it does to the receiver.

- A handler that calls others includes them: entering includes leaving the old room,
  and with a key that no room has it is only that (`PlayerLeaveRoom` models both).
- A packet that does not parse is answered with an error and then executed with the
  fields that were read; all values of the fields are in the inputs anyway.
- `ForceDeleteRoom` erases the element its iterator stands on and then advances it.
  That is undefined behaviour. The outcomes modelled are: the loop ends after the
  first player, goes on to any others, or the process crashes.
- A room is its key. `Membership` shows that a `Room*` held by a session is always the
  live room of that key, so nothing is lost by this.
- Time is relative: `can_delete_time_` counts down, -1 is any time in the past, `Never`
  is the code's 0. `Tick` is a second.
- There is one version of the account service, the newest.

### DoubleBufferQueue, DoubleBufferUse, Mailbox

`DoubleBufferQueue` gives the operations; push is two steps, since the index is read
before the mutex is taken. `swap` and `pop` are one step each, since only the consumer
writes the index. `DoubleBufferUse` adds the producers and the consumer's loop (swap,
pop until empty), the same in `TcpServer::ProcessConnections` and `async_callback`, and
history variables for the properties. `Mailbox` is the abstract specification: things
that are put in come out once, in the end. What came out is a sequence, so that a thing
that came out twice, or that nobody put in, is no step of a mailbox.

### Async

The same queue with `uv_async_send`: sends coalesce into one mark, libuv clears the mark
before it calls the callback. A message that was delivered may be posted again, which
stands for the next one, so runs are infinite. The module has no run of its own:
`ServerStop` and `TcpWrite` instantiate it, the one as the server's mailbox while the
process starts and stops, the other as the way that packets take to one connection.

### TcpServer

Two instances of `DoubleBufferQueue`, with the uv thread as their only producer, and the
game loop's turn as a sequence of steps (`main`). `DoClose`, `OnCloseMessage` and
`OnClosedHandle` are `do_close`, `TcpConnection::OnMessage` with CLOSE, and libuv's
closed callback. `Dispatch` is `Dispatcher::Update` reduced to which connections had
packets. Of `wait_delete_connections_list_` the model keeps how often it names each
connection; its order decides nothing. Seconds are abstracted: a connection may be found silent at any time and may be
found old at any time, except that `Settled` requires of an old one that what was posted
for it before has been delivered, and its announcement taken. Five minutes are thousands
of turns, and the code relies on this itself (`tcp_server.cpp:224`).
`Server::SyncProcessConnClosed`, `BindConnToSerice`, `TcpServer::OnShutDown` and
`AccountService::OnShutDown` are called by nothing and left out; the start and the stop of
the server are in `ServerStop`.

### TcpRead

Every load and store of `_tail`, `_head` and `reading_` is a step. Chunks are numbered.
A failed push ends the process where asserts are compiled in (Debug, and Release, which
does not define NDEBUG here) and drops the chunk where they are not (RelWithDebInfo).
READ messages arrive at any later time, or, after a stranding as in `Async`, never: there
is no fairness for them.

### Framing

The buffer of one connection and the packets cut from it. A number is its bytes, `Digits`
and `Number`, with a base, widths and lengths that are constants, so that small bytes and
short headers reach every boundary; `Left` is what is left of a number when its low bytes
are written. `ReadPacket` and `BufCat` are the two branches of
`Read(transcoder)`; `OnRead` pushes a chunk of any size, and `TcpRead` shows that the ring
in between keeps the chunks in order, so it is a sequence here. Reading past the end of a
packet gives zeros, as `Transcode::Read` does, for a length as for a body. Growing the
buffer is left out: its capacity shows only when an allocation fails.

The reference looks at all bytes that have arrived at once: `Ends` finds the ends of its
packets from the beginning, `PacketOf` is the n-th of them. `Encodable` says of a packet
that its numbers fit into the bytes they have, which four bytes do for all that the server
sends.

### TcpWrite

The way of a packet to one connection: a WRITE message, a request in `write_req_set_`,
freed. `OnMessage` drops what comes after `closing_` is set and leaks its data, which is
kept in `leaked`; once the handle is closed `uv_write` returns an error that nobody looks
at, and its callback never comes, so that the request stays in the set until the
destructor. When libuv answers, and with an error or without, is not the program's choice.

### ServerStop

`GameLoop::Run` with `ServiceManager` and `DependencyResolver`: the dependencies are any of
the graphs of the constant `Graphs`, with circles and with services that are not
registered. With a circle nothing is initialised and what is sorted is started all the same;
a server among it uses what `Init` sets and ends the process (`ListenFails`). Resolving, `Init`, `Start` of one service after the other, turns, the signal,
`Stop` in the opposite order, deletion. The uv thread is the server's: it serves its
`Async` until it finds STOP in it, which `StopServer` posts before `WaitForStop` joins the
thread. `Post`, `FinishPush`, `Send`, `StartCallback`, `OnMessage` and `EndCallback` are
`Async`'s actions. What other services do in `Init` and `Stop` is left out.

### ThreadPool

`main` is the step of the pool's owner, who calls `Start`, `Update`, `Stop` and the
destructor; `pc` is that of each worker's thread. `Worker::Run` reads `runnable_` without
its mutex, and then waits without a condition, which is a step of its own: a notification
in between is lost, and `missed` remembers for whom. A wait may end spuriously, but no
fairness says that it does. The pool is a mailbox of tasks: inside are those queued
and those that workers have yet to run (`InHand`), and what has come out is the sequence
of runs. A task that is handed to a second worker, forgotten by the first, or run again is no
step of the mailbox.

### ConnectionPool, RedisClient, MySqlSession

`ConnectionPool` is the two pools, which differ in three lines; `isRedis` says which.
Reading `is_free_`, clearing it, and each step of connecting are steps of their own.
`pool_index_` counts modulo `Period`; the code's wraps at 2^32 (Redis) and 2^31 (MySQL),
which only says where the search begins. `RedisClient` is one connection in the hands of
one thread, with the replies that Redis owes on it; `GetReply` may be called when none is,
and then waits for ever. `MySqlSession` is one connection with a transaction. `_Query` sends a
statement again after any error. The first may have been a refusal which left the
transaction open (`ExecuteInside`), or which ended it, like that of a deadlock's victim, so
that the second is permanent at once (`ExecuteOutside`); so may be that of a COMMIT, after
which the second finds nothing to commit. `before` is what the transaction had done when it
ended. Servers are external: they break connections at any time and answer in order.

### RabbitProducer, RabbitConsumer

Each is a `DoubleBufferQueue` with a thread of the client on one side and the game loop on
the other. Turns of `Run` are divided where the queue or the connection is used. The
broker is external: it may lose a connection at any time, and it numbers what it delivers
from 1 on each. No prefetch is set (`amqp_basic_qos` is commented out), so it sends ahead:
`Deliver` puts a message in the `socket`, unacknowledged, and `ConsumeMessage` takes it from
there, maybe when the connection is broken already; of what was on its way any part may still
arrive. After `Stop` the broker and what is under way are followed no further. The blocking
variants, which use the same calls without threads, are left out.

### ZooKeeper

`ZkService`, `ZkClient`, `ZkNode` and `ZkRole`, with callbacks as steps between which the
user's `GetConfigure` may run. The node holds a list of roles, and a role has members with
values, or none if it is no object. `MergeConfigure` is `MergeJsonValue` for role after role:
each member takes the place of the one of its name, so that of several roles with it the last
is left, and one that no role has any more stays. rapidjson's `AddMember` moves the value out
of the role and leaves Null (`Moved`), which a second merge then takes; `again` remembers for
which roles. When a role is deleted, what was moved out of it lost its memory (`Freed`). A role's
object is known by the reading of the node that
made it, so that one that is gone differs from its successor. ZooKeeper passes no path with
an error, and `on_node_created` then returns: a creation that fails, or finds the node of an
earlier process, is not tried again in its session (`refused`). Using what is freed, or shared without
a lock, ends the behaviour in `corrupted`. The server is external: watches fire once, and
an ephemeral node outlives the process that made it until its session expires.
What `UpdateNode` writes
into the service's own node is left out: the client reads it nowhere.

### FileMonitor

The maps `mapFileList_`, `mapFileCallback_` and `changedFileList_`, the thread that looks
at modification times, which have whole seconds, and `ProcessCallback`, called by it or by
the user. They have no mutex; a write while the other goes through the list takes effect
in between or ends the process. `AddFile` and `DeleteFile` may come at any time while the
monitor's thread checks or calls back; only where the user itself calls back they
come between two such calls.

### MC modules

`MCBase` (queue, pool of threads), `MCTcpConnection` (reading, framing, writing),
`MCClients` (pool, Redis, MySQL, both halves of RabbitMQ) and `MCConfiguration`
(ZooKeeper, file monitor) are the sums described above. They instantiate the models under
names of their own (`Pool`, `Cut`, `Write`, `Redis`, `MySql`, `Producer`, `Consumer`, `Zoo`,
`Monitor`) and restate their properties; the proofs are about these instances. Assumptions
on constants of several models, and on those without a place for them, are in these modules,
so that TLC evaluates them. The other MC modules give constants values.

## The runs

All runs are exhaustive. Each cfg that switches the check for deadlock off says why: the
process may have crashed or ended, or a peer stops sending.

| run | instance | distinct states | shows |
|---|---|---|---|
| `whiteboard_rooms` | 3 players, 2 keys, 2 names, delay 1 | 284 000 | `Membership`, `RoomListInSync`, `PlayersTold` |
| `whiteboard_drawing` | 2 players, 2 keys, ids 0..3, lists up to 2, 2 shapes | 420 000 | `CanvasInSync`, `FreshIds`, `EmptyRoomGoes` |
| `whiteboard_delete` | 3 players, 2 keys | violated | `DeletePutsAllOut` |
| `whiteboard_deadline` | 3 players, 2 keys | violated | `EmptyRoomHasDeadline` |
| `framework_base` | 2 producers, 3 items; 2 workers, 3 tasks | 114 000 | `ExactlyOnce`, `OvertakenOnlyIfLate`, `DeliveredInTwo`, `MailboxSpec`; `SleepsOnlyIfMissed`, `TasksRunOnce`, `TasksRun`, `StopReturns` |
| `server_stop` | 3 services, 64 graphs, 2 messages | 30 000 | `RunsOnRunning`, `StopsWhenAsked`, `StrandedOnlyIfLate`, `DeliveredByLaterPosts` |
| `tcp_server` | 2 connections | 32 000 | `FreedOnce`, `ServicesTold`, `ClosedIsFreed` |
| `read_after_delete` | 1 connection | violated | `NoReadAfterDelete` |
| `tcp_connection` | a ring of 3+1 places, 9 chunks; streams of 6 bytes; 3 writes | 84 000 | `ReadInOrder`, `RefusedOnlyIfRestartedFull`, `PausedOnlyIfRaced`, `EveryChunkRead`; `ReadAsSent`, `EveryPacketRead`; `WrittenInOrder`, `WritesFreedOnce` |
| `read_assert` | 1 place, 4 chunks | violated | `PushSucceeds` |
| `clients` | 2 users of a pool of 2; 2 replies; 2 statements; 3 messages out, 2 in on 3 connections | 242 000 | `SharedOnlyIfRaced`, `NoneLost`; `NeverWaitsInVain`; `AtomicUnlessEnded`; `WrittenIsPublished`; `AckedWasRead`, `FreedOnce`, `EveryMessageRead` |
| `configuration` | 2 roles, 4 contents, 2 changes; 2 files, 2 seconds | 495 000 | `ConfigurationFollows`, `RegisteredAgain`; `ChangesReported` |

### Bounds, and why they are enough

- Players and keys: `Membership`, `PlayersTold` and the lists speak of two players who
  share a room while a third moves, and of moving between two rooms. Three players
  and two keys have all of this, and names need two values for a stale one to show.
- `MaxShapeId`, `MaxList`: a list of two can name an id twice, name an id the loop is
  about to give, and mix old and new ids. Two ids beyond the first allow removing,
  copying and adding again. The guard of `HandleAddShape` keeps the counter within
  `MaxShapeId` + 1 < `IdSpace`, so that the counter does not wrap in the runs; what
  happens when it does, after 2^32 shapes in a room, is excluded here and by the
  assumption of `DrawingsShared`.
- `DeleteDelay`: 3600 in the code; with 1 or 2 the three cases before, at and after the
  deadline exist.
- Queue: two producers race with each other and the consumer, and three items put two
  behind one that was overtaken by a swap.
- `Size` 3 and `MaxChunks` 9: the ring of four places wraps twice. A real ring has 128.
- Pool of threads: two workers, so that one is free while the other runs, and three tasks,
  so that one stays queued. A lost wake-up needs one worker.
- ServerStop: the server and two services. `MCGraphs` has 64 of the graphs: the account
  service may depend on the two others and on one that is not there, the dispatcher on the
  two others, and the server on the account service. So there are chains in several orders,
  circles of two and of three, and a service that lacks; no service depends on itself, and the
  server not on the dispatcher. `TopSortSorts` and `ServicesRunOnRunning` are for all graphs.
  Two messages can strand one behind the other.
- Writing: three packets and CLOSE, in any order with the closing of the handle.
- Pools: two users race for a place, and two places are the limit and one below it. Redis'
  limit, which is looked at before the mutex is taken, is exceeded by one per user.
- RedisClient: two replies, one of which may be fetched and the other lost.
- RabbitMQ: three messages, of which one that failed is put back behind another; for the
  other half two messages and a queue of one place, so that a tag of the first connection is
  one of the second, and three connections, of which two may fail or be lost, so that
  what a stale tag acknowledged on the second may be lost with it. `MaxTag` bounds how often
  messages are rejected.
- ZooKeeper: two roles, so that one is removed while the other stays, and overrides it or is
  overridden; two changes, so that one happens while the other is read. `MCContents` has four
  contents: nothing, a member with either of two values, and that with a second member, so that
  members come, go and change. Roles begin with the same content, and the node is absent at
  first or lists both, in either order; the changes lead to the other lists and contents.
- FileMonitor: two files, so that one changes while the
  other's callback runs, and two seconds, so that one changes twice in a second.
- Framing: all 729 streams of six bytes with a two-byte length have lengths 0, 1 (shorter
  than the length field itself), shorter than a header, shorter than a body's length,
  exact, and longer than what comes. Two encoded packets, of 36 pairs, meet in one chunk
  or in several. Two chunks in the queue are one more than one turn takes.
- Connections: two, so that one may be taken between the swaps while another is closed.

Symmetry (players, and keys) is used in `whiteboard_rooms` only, which has no liveness.

### Fairness

- WhiteBoard: weak fairness of `Update` and `Tick`; the loop turns and time passes.
  `EmptyRoomGoes` assumes that delete requests end, since each one restarts the time.
- DoubleBufferUse: weak fairness of the end of a push and of the consumer, which polls.
- Async: the same, except that the callback runs only on a wake-up. A message that a swap
  overtook then waits for somebody else's post: `StrandedOnlyIfLate` shows that only
  such messages wait, `DeliveredByLaterPosts` that posts without end deliver all.
- TcpServer: weak fairness of the game loop and of the uv thread's pushes. Strong fairness
  of the closed callback and of the delivery of a CLOSE message, since the uv thread is
  shared by all connections and serves every one of its handles, and of the deletion of
  what waits, which stands for the passing of five minutes. Clients need do nothing.
- Framing: weak fairness of `Read`, which the loop calls on every turn. The peer and TCP
  need do nothing.
- ThreadPool: weak fairness of the owner's steps once it has begun one, of `Update`, which
  it calls on every turn, and of each thread. None of a spurious end of a wait.
- ServerStop: weak fairness of each step of the main thread and of the uv thread. Strong
  fairness of the end of a turn, which may post any number of times.
- RabbitProducer, RabbitConsumer: weak fairness of both threads' loops and of the game's
  reading, and of the broker's sending what it has. Strong fairness of what depends on the
  broker: connecting, publishing a message and taking one that has arrived do not fail, or
  time out, every time they are tried.
- ZooKeeper: weak fairness of the start and of the callbacks, which one thread runs one by
  one; strong fairness of the answer to a creation, whichever it is: some session lasts
  until it comes.
- FileMonitor: weak fairness of the start, of the thread and of whoever calls back.
- TcpRead: both threads finish what they have begun, and `Read` is called while the
  connection is open.

### What the more interesting results mean

- `OvertakenOnlyIfLate`, `DeliveredInTwo`: the race in push costs order and a turn, never
  an item. An item is late when a swap came between reading the index and locking.
- `ServicesTold`, `FreedOnce`: both hold but for connections in `missed`, those whose
  end was taken before their beginning. Because of the order of the two swaps this takes
  a connection that opens after the first swap and closes before the second. The
  exception is exact: without it the properties fail, as `read_after_delete` shows.
- `StopsWhenAsked`: after a signal the process ends, unless a swap overtook the push of
  STOP. Nobody posts after it, so it is never delivered and `Stop` waits for the uv thread
  for ever.
- `WrittenInOrder`, `WritesFreedOnce`: libuv is handed packets in the order of `Write`, but
  for those a swap overtook; all data are freed once when the connection is gone, but for
  those that came after `closing_` was set, which leak.
- `SleepsOnlyIfMissed`, `TasksRun`, `StopReturns`: a worker that looks at its task before
  its owner sets it, and waits after the owner has notified it, sleeps over it until it is
  notified again, by the next task, which it is not given as it is not free, or by `Stop`.
  The properties name exactly these workers as the exception.
- `SharedOnlyIfRaced`: a pool hands one connection to two users when both looked at its flag
  before either cleared it, or when one found a connection that another had put into the
  array and not yet marked as taken. In no other way; and, `NoneLost`, for all that none
  that is not free is without a user.
- `NeverWaitsInVain`: `GetReply` waits only for replies that will come, although connecting
  anew forgets those that were owed: this is what resetting the count is for. The
  exception is a connection on which `GetReply` was called: it does not count down, and waits
  itself when nothing is owed.
- `TasksRunOnce`: the refinement of `Mailbox`, whose safety it states: a task goes in once,
  and comes out once, when a worker has run it. `TasksRun` is that it does, `StopReturns`
  that `Stop` and the destructor return: both but for the workers that missed a notification,
  and the destructor also but for a worker whose thread has not begun: it is not joined, and
  deleting it ends the process.
- `AtomicUnlessEnded`: a transaction that was open until the user ended it is stored as a
  whole or not at all. Of one that a lost connection or a refused statement ended, `_Query`
  goes on with the next statement outside any transaction, where it is permanent at once: then
  exactly the statements before the end are missing, and this is all that may go wrong.
- `AckedWasRead`, `EveryMessageRead`: tags are numbered by connection, and a message read on
  one and acknowledged on a later one acknowledges another there, or closes the channel.
  `stale` keeps what was acknowledged so, and the connection of the message in whose place:
  the first property says that nothing else leaves the broker unread, and that this one came on
  an earlier connection; the second, that a message acknowledged so is still read if the
  client has taken it, or it lies in the socket, which is lost only with its connection; all
  others are read in any case, or deleted with the queue.
- `FreedOnce` of the consumer: each copy of the queue's name is freed once, through failures
  after the copy, losses, reconnections and `Stop`. The exceptions: the connection that is
  given up is one that failed before the copy, or `Stop` came before there was any.
- `ConfigurationFollows`: when all is quiet, the roles of a node that is watched by a read are
  the server's, and a member of a watched role that no later role has is merged as it is on
  the server. The exceptions are the code's. A change that comes between reading and clearing
  `isChanged_` is overlooked until the next one (`overlooked`). A role that did not change is
  `Null` after a second merge (`again`). A role whose reading failed has no watch any more; nor
  has a node whose reading failed, or that was deleted, which only has an exists watch until it
  is there again: what is merged of these stays as it was. Members that a role has lost stay in
  what is merged, and nothing is said of a member while a later role may have it. And a
  callback for a role that was deleted uses freed memory (`corrupted`).
- `RegisteredAgain`: a service that runs is registered time and again, whatever sessions end.
  The exceptions are those of the code: the creation was answered with an error (`refused`),
  also that the node of an earlier process is still there, which goes with that one's session;
  or the session expired while the deletion of the node in the configuration is
  to be handled (`Stuck`): its watcher then tries again for ever, and holds up all other
  callbacks; or memory was corrupted before.
- `ChangesReported`: a change is called back for unless it was noted while the list was
  gone through, which is cleared afterwards.
- `EveryPacketRead` speaks of the packets before the first of length 0. Such a packet takes
  nothing from the buffer, and `Read` returns 0 for ever: its connection is stalled until
  the keep-alive closes it.
- `RefusedOnlyIfRestartedFull`, `PausedOnlyIfRaced`: flow control fails in two races only.
  In one, `Read` finds `reading_` cleared by a later stop and restarts a full ring; in the
  other, `Read` empties the ring between `wasFull` and `reading_ = false`. A turn pops
  one chunk per connection at most, so for the second the uv thread has to be held up for
  128 turns.

## The proofs

All theorems are proved from the specifications for every value of the constants, with
the assumptions named in the modules, which TLC evaluates in the runs.

| assumption | says |
|---|---|
| `ShapeStoreAssumption` | `IdSpace` > 1, bounds are naturals |
| `WhiteBoardAssumption` | the delay is a natural, `Never` is not a number, `NULL` is neither key nor name |
| `DoubleBufferAssumption`, `TcpServerAssumption` | `Nothing` is not a push |
| `TcpReadAssumption` | sizes are positive |
| `CutAssumption` (MCTcpConnection) | a body is bytes, an opcode a natural, widths are naturals, there is a byte |
| `WriteAssumption` (MCTcpConnection) | a packet is not CLOSE, `Nothing` is not a push |
| `PoolAssumption` (ConnectionPool) | the period of the index is a multiple of every size of the pool |
| `PoolAssumption` (MCBase) | the pool of threads has one at least, and the null pointer is not a task |
| `ClientsAssumption` (MCClients) | `nothing` is neither message nor push |
| `ServerStopAssumption` | a name is registered once, dependencies are those of the names, STOP is not one of the game loop's messages |
| `ConfigurationAssumption` (MCConfiguration) | there are finitely many roles, and what they have in them is neither Null nor freed |

The type invariants `TypeOK` of `WhiteBoard`, `DoubleBufferUse` and `TcpRead`, and
`PoolTyped`, are proved and are not in the runs: the theorems hold for all instances.

**`WhiteBoardTyped`** (`Spec => []TypeOK`). In two stages: `RoomsTypeOK`, inductive alone;
then the drawings and the lists, which need it before and after the step, because the
lists sent are computed from the new rooms and names. The two lemmas on shapes,
`AddShapesTyped` and `DrawTyped`, hold even when the counter wraps.

**`PointersGood`** (`Spec => []Membership`). `Membership` is inductive relative to
`RoomsTypeOK`. Its two halves need each other: that a session's room is live needs that
`Update` deletes only rooms without sessions, and that those are the rooms no session
points to.

**`DrawingsShared`**, **`IdsAreFresh`** (assuming `MaxShapeId + 1 < IdSpace`:
`Spec => []CanvasInSync`, `Spec => FreshIds`). `CanvasInSync` is not inductive: if the
counter were at an id in use, `insert` would drop a shape that is broadcast. `BoardInv`
adds that every board is `Numberable` (all ids below the counter) and its counter within
the bound; lemma `BoardsGood` has it from the specification, and both theorems follow. The
heart is `AddShapesDrawn`: drawing the broadcast list on the old drawing gives the new one,
and every id that is new is at least the old counter. It is by induction on the turns of
the loop, for which `NatSetInduction` states induction with a set in the place of a predicate,
from the least element of a set of naturals (`DataLemmas`).

**`RoomListCurrent`**, **`PlayersAreTold`** (`Spec => []RoomListInSync`,
`Spec => PlayersTold`). The first is inductive with `Membership`: every action that changes
`rooms_` sends the list to all who are in a room. For the second, `Membership` before and
after the step makes the players of a room (`sessions_`) those whose `room_` it is, and
these are whom a broadcast reaches. It is an action property, proved action by action.

**`QueueTyped`**, **`NothingLostOrDoubled`** (`Spec => []ExactlyOnce`). `ExactlyOnce` is
inductive relative to the types: it says where every item is, that these places are
disjoint, and that no sequence repeats. `AppendElements` and `TailElements` give what
`Append` and `Tail` do to the set of elements.

**`QueueIsMailbox`** (`Spec => MB!Init /\ [][MB!Next]_MB!vars`). Each step of the queue is
a step of the mailbox or a stutter under the mapping inside <- InPush and Queued,
out <- Received. `ExactlyOnce` is what makes a pop a `Take`.

**`WaitsForTwoSwaps`**, **`OnlyLateAreOvertaken`** (`Spec => []DeliveredInTwo`,
`Spec => []OvertakenOnlyIfLate`). The invariant `Waits` says that what lies in the
back queue was put there since the last swap, unless it is late, and that between the
consumer's turns the front queue holds late items only. `Ordered` extends the
order from what was received to what is queued: an item stands behind whatever was pushed
before it began, in the same queue, or in the other which is drained first, unless that is
late.

**`NoWakeUpLost`**, **`StrandedIfLateOnly`** (`[]StrandedOnlyIfLate`, of `Async` alone and of
the process that starts and stops). `Apart` says that a message is in one place at a time,
and `Woken` that while the callback does not run the queue it read last holds late messages
only, and that for any other message in the queue to be read next the mark is set or a
thread has yet to send. A process that stops does to its queue what `Async` allows
(`MailStep`), so that its invariant carries over.

**`ServicesRunOnRunning`**, **`TopSortSorts`** (`[]RunsOnRunning`). `TopSortSorts` is about the
loop of `DependencyResolver`: one turn adds a service after those it depends on, as long as
there is one left and no circle (`SortOneAdds`), and a list of as many different services as
there are has all of them. `FirstRun` says that what runs
are the first services of this order, one more after each start, one less after each stop, where
there is no circle (with one, the property promises nothing);
`StopOnItsWay`, that the server stops only when it was told to, by the main thread that
waits for it.

**`PoolWakesWhoWaits`**, **`TasksNeverRunTwice`**, **`PoolIsMailbox`** (of the pool of threads:
`[]SleepsOnlyIfMissed`, `[][NeverAgain]_vars`, `TasksRunOnce`). `Told` extends the first to
threads that have looked and not yet waited: whoever should not sleep is in `missed`, or the
owner's notification is on its way (`Reaching`). `Placed` says where each task is: with its
caller, queued, with one worker, or run, and that no place has one twice; only the worker that
has just run one still holds it. The other two theorems follow from it: running a task is the
mailbox's `Take`, since no other worker holds it (`InHandStays`), and handing it out invisible.

**`ConnectionsFreedOnce`**, **`ServicesAreTold`** (`Spec => []FreedOnce`,
`Spec => []ServicesTold`). Both follow from `ServerInv`, which follows a connection through
both threads: it is being opened (`Opening`: announced on `new_connections_` or in the push
to it), active, being ended (`Ending`: the same of `closed_connections_`), closing, waiting,
deleted. A handle that is open has no end announced, and an end is announced once
(`Handles`), so the game loop puts a connection in the list once (`ToFree`); what is closing
and yet to be taken from `new_connections_`, or active, was `missed` (`Lists`), which is the
exception both properties name. `NewQueue` and `ClosedQueue` say what each step of a queue
does to `Opening` and `Ending`. The delay of the deletion (`Settled`) is not used: no
connection is freed twice however soon it is freed.

**`TcpReadTyped`**, **`ChunksInOrder`**, **`RefusedByRestartOnly`**, **`PausedByRaceOnly`**
(`[]TypeOK`, `[]ReadInOrder`, `[]RefusedOnlyIfRestartedFull`, `[]PausedOnlyIfRaced`). The
invariant of the ring relates its places to the history of chunks: the chunk at the n-th
place from `_head` is the n-th of those pushed and not read (`Ring`), with what either
thread holds between its loads and its store (`Held`, `Slot`). For the flow control,
`StoppedWhenFull` says that libuv does not read while the ring is full, unless a READ came
late; and `Resumes` says what is still under way, from the stop of reading on, that will
start it again.

**`PacketsAsSent`** (`Cut!Spec => []ReadAsSent`). For every stream of bytes, all packets and
widths. `CutInv` says that there are marks in the stream between which the packets lie that
were read, each of the length that is written there (`Marked`), and cuts between which lie
the buffer and the queue's chunks, from the last mark to what has arrived (`Chunked`). More
that arrives does not move the marks (`LengthThere`: the length of a packet is in the bytes
that have arrived already), so they are the reference's `Ends` (`ArrivedPackets`). The second
half is `DecodeEncode`, from `NumberOfDigits`: the number read from as many of the last bytes
is what is left of it without the others.

**`DataFreedOnce`**, **`PacketsInOrder`** (`Write!Spec => []WritesFreedOnce`,
`Write!Spec => []WrittenInOrder`). `Accounted` says that whatever was delivered is in
`write_req_set_`, leaked or answered, in one of them only, and freed if answered or if the
destructor found it in the set. `Sequel` is `Ordered` above for this use of the queue, where
what was written earlier is ahead, and delivery excuses as lateness does.

**`PoolIsTyped`**, **`NoConnectionLost`**, **`SharedByRaceOnly`** (`[]PoolTyped`,
`[]NoneLost`, `[]SharedOnlyIfRaced`). `PoolTyped` bounds the index and the places by the
count, which is where MySQL's look at the limit under the mutex and Redis' look before it
differ. `HeldApart` extends the exclusion from users to those who are between look and
claim, with `raced` for whom they overtook.

**`PipelineNeverHangs`** (`Redis!Spec => []NeverWaitsInVain`). The count of pending replies is
what Redis owes on the connection that is up, unless `GetReply` was called, which does not
count (`RedisCounts`); connecting anew makes both 0.

**`TransactionsAreWhole`** (`MySql!Spec => []AtomicUnlessEnded`). A busy user is in a
transaction that holds exactly the statements it has made (`InTransaction`), or never had a
connection (`NeverBegun`), or its transaction was ended, and what is stored are the statements
made but for those before the end (`EndedByItself`); `SessionInv` says which of these fits
what. One lemma for each way to lose, execute and commit.

**`PublishingIsMailbox`** (`Producer!Spec => Producer!MB!Init /\ [][Producer!MB!Next]_vars`).
`InOnePlace` says that a message is not yet written, in `Write`, once in one of the queues, or
in the sending thread's hands. So publishing is a `Take`, and popping a message and pushing
it back, however often, invisible.

**`QueueNameFreedOnce`**, **`AcknowledgedWasRead`** (`Consumer!Spec => []FreedOnce`,
`Consumer!Spec => []AckedWasRead`). `NameCopied` says when there is a name: from the first
connection on, unless the last one failed before; so each reconnection and `Stop` free a copy
that is good. `TagsKept` says of every delivery, in the socket, in the queue, between the
listening thread and the game loop or in the game's hands, that it is numbered by its
connection, and if that is the one that is open its tag is still the one of its message
(`TagIsCurrent`); `ArrivedIsSent`, that what is in the socket was sent. So an acknowledgement
is one of the right message, which was read, or the delivery came on an earlier connection,
which is what `stale` then keeps of it (`AckAnswersRead`).

**`MergedKeepsUp`** (`Zoo!Spec => []ConfigurationFollows`). Stated of what is quiet, it is
strengthened to every state: the service's roles are the node's unless its watch has fired
(`NodeFollows`); of each role whose watch has not, what was read is the server's, or moved
(`RoleFollows`); and a member that no later role has is merged as that says or is to be merged
(`MembersFollow`), where `ToBeMerged` lists what may still bring that about: the callback that
has yet to set the flag, the flag, the user who has seen it, or the flaw that a change was
cleared unseen. `MergingFollows` is the merge of all roles, of which the last that has a member
gives its value.

Loops. `LoopExists` (`DataLemmas`) proves by induction over a set that a loop of so many turns
has values, which is what a recursive function's definition needs; `LoopInduction`, that what
each turn keeps holds after all. With these the proofs reach what the loops of
`PlayerAddShape`, `TopSort`, the redelivery, and of reading and writing numbers compute.

Only model-checked: all liveness, which includes `WrittenIsPublished`, `MailboxSpec` and
`TasksRun` beyond their safety, `RegisteredAgain` and `ChangesReported`; and the four
properties that TLC refutes. Every invariant that a run checks is a theorem, and so are the
action properties.

## Where code and comments disagree

Each is a run that TLC finds violated.

- `whiteboard_delete`: `account_opcode_def.h:42` says of Shape_Room_Delete_You_Out that the
  room is deleted and the player removed. `ForceDeleteRoom` (`room.cpp:105-111`) removes
  the first player and then uses an erased iterator; others may stay.
- `whiteboard_deadline`: `room.cpp:54` says an empty room may be deleted after an hour. A
  room that nobody ever entered never gets a time (`room.cpp:13`).
- `read_after_delete`: `tcp_server.cpp:224` says deletion is delayed so that later reads and
  writes do no harm. A connection whose end is taken before its beginning stays active
  and is read after it was freed.
- `read_assert`: `tcp_connection.cpp:262` asserts that a push succeeds. READ may restart
  reading on a full ring.

## What is not modelled

- The dispatcher's subscriptions: the packets of a connection and the end of a connection
  concern one service here. `connToGameService_` with several services, opcodes nobody
  subscribed to, and unsubscribing belong to step 17 of the plan.
- Clocks: keep-alive, the five minutes before a connection is freed, and ZooKeeper's session
  timeouts may pass at any time the code allows.
- Several versions of the account service: `Reload` is called from `Init` only.
- RabbitMQ's blocking variants, what `ZkClient::UpdateNode` writes, Redis' individual commands (they
  differ in the format string), and the SQL that is sent.
- Poker (`DN_application/DN_Account/dn_poker.cpp`): it is compiled into a library of its own,
  and nothing calls it. `dn_player.cpp` and `player_def.cpp` are attributes and their
  packing, and the first is not compiled at all.
- Failing allocations, everywhere.
- Of the transcodes: stream operators that no handler of the white board uses, and the
  encryption and zip kernels.
- Out of scope: vendored and generated code, logging, formatting, HTTP, lua bindings: no
  protocol state. The clients' code is not in the repository; what they show is modelled
  from the messages they are sent.
- Data that no property tells apart: stroke contents, player attributes, error codes and
  texts, addresses and session ids.
- Weak memory: the index of a double buffer queue, those of the ring, `reading_`, `running_`
  and `closing_` are sequentially consistent atomics in the code, and are modelled so.
