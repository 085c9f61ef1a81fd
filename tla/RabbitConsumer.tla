--------------------------- MODULE RabbitConsumer ---------------------------
(***************************************************************************)
(* The receiving half of RabbitMQClient.  The listening thread takes       *)
(* messages from the broker and pushes them, each with its delivery tag,   *)
(* to readQueue_, a DoubleBufferQueue; the game loop's Read pops them,     *)
(* swapping when it finds nothing, and it acknowledges or rejects each by  *)
(* its tag, on whatever connection there is by then.                       *)
(*                                                                         *)
(* The broker numbers what it sends from 1 on every connection, and sends  *)
(* all it has: how much may be unanswered is not limited, since            *)
(* amqp_basic_qos is commented out.  When a connection is lost it takes    *)
(* back what was not acknowledged, though some of it may have arrived; or  *)
(* it deletes the queue, which was declared with auto_delete, and all that *)
(* was in it.  A tag it does not know makes it close the channel.          *)
(*                                                                         *)
(* readQueueRep_ is set by no constructor, and not reset when it is freed. *)
(* The use of one connection by two threads is left out.                   *)
(***************************************************************************)
EXTENDS DoubleBufferQueue

CONSTANTS
  MaxMessages, \* how many messages are in the queue when the client starts
  listener,    \* the thread that pushes, the only one in Producers
  QueueMax,    \* QUEUEMAXSIZE
  MaxConnects, \* bound: only earlier connections fail or are lost, no later one sees a Reject
  MaxTag       \* bound: messages sent on a connection with a Reject

VARIABLES
  ready,            \* the broker: messages in the queue,
  sent, unacked,    \* messages sent on this connection, and the tags of those still its own,
  socket,           \* what was sent and not taken by the client yet,
  done, gone,       \* messages acknowledged, and deleted with the queue
  conn_,            \* "none", "open" or "broken"
  connects,         \* how many connections were tried
  need_reconnect_,
  readQueueRep_,    \* "null", "good" or "dangling"
  reader,           \* where the listening thread is
  running,          \* "waiting" to be started, "running" or "stopping"
  holds,            \* the message the game has read and not answered
  read,             \* history: messages the game has read,
  stale,            \* messages acknowledged in another's place, and the connection that one came on,
  failedEarly,      \* the last connection failed before it copied the name, or Stop found none
  corrupted         \* memory was freed twice, or never allocated

brokerVars == <<ready, sent, unacked, socket, done, gone, stale>>
connVars == <<conn_, connects, need_reconnect_, readQueueRep_, failedEarly, corrupted>>
queueVars == <<queue_index_, queues_, pushing>>
gameVars == <<holds, read>>
vars == <<brokerVars, connVars, queueVars, gameVars, reader, running>>

Init ==
  /\ QueueInit
  /\ ready = [i \in 1 .. MaxMessages |-> i] /\ sent = <<>> /\ unacked = {} /\ socket = <<>>
  /\ done = {} /\ gone = {} /\ stale = {}
  /\ conn_ = "none" /\ connects = 0 /\ need_reconnect_ = TRUE
  /\ readQueueRep_ \in {"null", "dangling"}
  /\ failedEarly = FALSE /\ corrupted = FALSE
  /\ reader = "top" /\ running = "waiting"
  /\ holds = Nothing /\ read = {}

(* Read starts the threads two seconds after Init.                         *)
StartRabbitMQClient ==
  /\ running = "waiting"
  /\ running' = "running"
  /\ UNCHANGED <<brokerVars, connVars, queueVars, gameVars, reader>>

(* What the broker takes back comes before what it has.                    *)
TakenBack ==
  LET back[t \in 0 .. Len(sent)] ==
        IF t = 0 THEN <<>>
        ELSE IF t \in unacked THEN Append(back[t - 1], sent[t])
        ELSE back[t - 1]
  IN  back[Len(sent)]

ChannelGone ==
  /\ conn_' = "broken"
  /\ unacked' = {} /\ sent' = <<>>
  /\ \E n \in 0 .. Len(socket) : socket' = SubSeq(socket, 1, n)
  /\ \/ ready' = TakenBack \o ready /\ UNCHANGED gone
     \/ ready' = <<>> /\ gone' = gone \cup Range(TakenBack \o ready)

Lose ==
  /\ conn_ = "open" /\ running = "running" /\ connects < MaxConnects
  /\ ChannelGone
  /\ UNCHANGED <<done, stale, connects, need_reconnect_, readQueueRep_, failedEarly, corrupted>>
  /\ UNCHANGED <<queueVars, gameVars, reader, running>>

(* A mistake to be caught: the name is not copied, but freed it is.        *)
ConnectUncopied(rep) ==
  \/ conn_' = "broken" /\ readQueueRep_' = rep /\ failedEarly' = TRUE /\ connects + 1 < MaxConnects
     /\ UNCHANGED need_reconnect_
  \/ conn_' = "open" /\ readQueueRep_' = rep /\ need_reconnect_' = FALSE /\ failedEarly' = FALSE

(* Connecting fails before the name of the queue is copied, after, or not. *)
Connect(rep) ==
  \/ conn_' = "broken" /\ readQueueRep_' = rep /\ failedEarly' = TRUE /\ connects + 1 < MaxConnects
     /\ UNCHANGED need_reconnect_
  \/ conn_' = "broken" /\ readQueueRep_' = "good" /\ connects + 1 < MaxConnects
     /\ failedEarly' = FALSE /\ UNCHANGED need_reconnect_
  \/ conn_' = "open" /\ readQueueRep_' = "good" /\ need_reconnect_' = FALSE /\ failedEarly' = FALSE

Freed(rep) == IF rep = "good" THEN "dangling" ELSE rep

(* What is left of the old connection is given up, with all that came on   *)
(* it, and the name is freed: a second time, if it was, which crashes.     *)
Reconnect ==
  /\ connects' = connects + 1
  /\ IF conn_ # "none" /\ readQueueRep_ = "dangling"
     THEN corrupted' = TRUE /\ UNCHANGED <<conn_, need_reconnect_, readQueueRep_, failedEarly>>
     ELSE UNCHANGED corrupted /\ Connect(IF conn_ = "none" THEN readQueueRep_ ELSE Freed(readQueueRep_))

(* One turn of the thread, which sleeps while what the game is reading is  *)
(* long.  size() counts this queue, not the one it pushes to.              *)
Listen ==
  /\ running = "running" /\ reader = "top" /\ ~corrupted
  /\ Len(Front) < QueueMax
  /\ IF need_reconnect_ THEN Reconnect /\ socket' = <<>> ELSE UNCHANGED <<connVars, socket>>
  /\ reader' = "consume"
  /\ UNCHANGED <<ready, sent, unacked, done, gone, stale, queueVars, gameVars, running>>

(* A mistake to be caught: the broker is told not to wait for an answer.   *)
DeliverUnanswered ==
  /\ conn_ = "open" /\ running = "running" /\ ready # <<>>
  /\ sent' = Append(sent, Head(ready))
  /\ done' = done \cup {Head(ready)}
  /\ ready' = Tail(ready)
  /\ socket' = Append(socket, [message |-> Head(ready), delivery_tag |-> Len(sent'), of |-> connects])
  /\ UNCHANGED <<unacked, gone, stale, connVars, queueVars, gameVars, reader, running>>

(* The broker sends on a connection that consumes, whether or not the      *)
(* client has taken and answered what came before.                         *)
Deliver ==
  /\ conn_ = "open" /\ running = "running" /\ ready # <<>>
  /\ sent' = Append(sent, Head(ready))
  /\ unacked' = unacked \cup {Len(sent')}
  /\ ready' = Tail(ready)
  /\ socket' = Append(socket, [message |-> Head(ready), delivery_tag |-> Len(sent'), of |-> connects])
  /\ UNCHANGED <<done, gone, stale, connVars, queueVars, gameVars, reader, running>>

(* What has arrived is taken also when its connection was lost meanwhile.  *)
ConsumeMessage ==
  /\ reader = "consume" /\ socket # <<>> /\ ~corrupted
  /\ BeginPush(listener, Head(socket))
  /\ socket' = Tail(socket)
  /\ reader' = "push"
  /\ UNCHANGED <<ready, sent, unacked, done, gone, stale, connVars, gameVars, running>>

Pushed ==
  /\ EndPush(listener)
  /\ reader' = "top"
  /\ UNCHANGED <<brokerVars, connVars, gameVars, running>>

(* A mistake to be caught: every error is taken for the end of the 50 ms.  *)
ConsumeTimesOut ==
  /\ reader = "consume" /\ ~corrupted
  /\ reader' = "top"
  /\ UNCHANGED <<brokerVars, connVars, queueVars, gameVars, running>>

(* Nothing comes in 50 ms, or the connection is found broken behind what   *)
(* has arrived on it.                                                      *)
ConsumeNothing ==
  /\ reader = "consume" /\ ~corrupted
  /\ reader' = "top"
  /\ need_reconnect_' = (need_reconnect_ \/ (conn_ = "broken" /\ socket = <<>>))
  /\ UNCHANGED <<conn_, connects, readQueueRep_, failedEarly, corrupted>>
  /\ UNCHANGED <<brokerVars, queueVars, gameVars, running>>

Read(x) ==
  /\ running = "running" /\ holds = Nothing /\ ~corrupted
  /\ Pop(x)
  /\ holds' = x
  /\ read' = read \cup {x.message}
  /\ UNCHANGED <<brokerVars, connVars, reader, running>>

ReadSwaps ==
  /\ running = "running" /\ holds = Nothing /\ ~corrupted
  /\ Front = <<>>
  /\ Swap
  /\ UNCHANGED <<brokerVars, connVars, gameVars, reader, running>>

(* The broker is told a tag: it is that of a message it waits for, or it   *)
(* closes the channel, or there is nobody to tell.                         *)
Tell(known) ==
  /\ holds # Nothing /\ running = "running" /\ ~corrupted
  /\ holds' = Nothing
  /\ \/ /\ conn_ = "open" /\ holds.delivery_tag \in unacked
        /\ unacked' = unacked \ {holds.delivery_tag}
        /\ known
        /\ UNCHANGED <<conn_, sent, socket, gone>>
     \/ /\ conn_ = "open" /\ holds.delivery_tag \notin unacked
        /\ ChannelGone
        /\ UNCHANGED <<done, stale>>
     \/ /\ conn_ = "broken"
        /\ UNCHANGED <<brokerVars, conn_>>
  /\ UNCHANGED <<connects, need_reconnect_, readQueueRep_, failedEarly, corrupted>>
  /\ UNCHANGED <<queueVars, read, reader, running>>

Told == sent[holds.delivery_tag]

Ack == Tell(/\ done' = done \cup {Told}
            /\ stale' = IF Told = holds.message THEN stale ELSE stale \cup {[acked |-> Told, of |-> holds.of]}
            /\ UNCHANGED ready)

Reject ==
  /\ Len(sent) + Len(ready) < MaxTag /\ connects <= MaxConnects
  /\ Tell(ready' = <<Told>> \o ready /\ UNCHANGED <<done, stale>>)

(* Stop waits for the threads and gives up the connections; before the     *)
(* threads are started there are none to wait for, and it crashes.  The    *)
(* broker and what is under way are followed no further: they are cleared. *)
Stop ==
  /\ running \in {"waiting", "running"} /\ ~corrupted
  /\ running' = "stopping"
  /\ failedEarly' = (failedEarly \/ conn_ = "none")
  /\ corrupted' = (running = "waiting")
  /\ ready' = <<>> /\ sent' = <<>> /\ unacked' = {} /\ socket' = <<>> /\ holds' = Nothing
  /\ UNCHANGED <<conn_, connects, need_reconnect_, readQueueRep_>>
  /\ queues_' = [i \in {0, 1} |-> <<>>]
  /\ UNCHANGED <<done, gone, stale, read, queue_index_, pushing, reader>>

Joined ==
  /\ running = "stopping" /\ reader = "top" /\ ~corrupted
  /\ reader' = "ended"
  /\ corrupted' = (conn_ = "none" \/ readQueueRep_ = "dangling")
  /\ readQueueRep_' = Freed(readQueueRep_)
  /\ UNCHANGED <<conn_, connects, need_reconnect_, failedEarly>>
  /\ UNCHANGED <<brokerVars, queueVars, gameVars, running>>

ReadAny == \E x \in Range(Front) : Read(x)

Next ==
  \/ StartRabbitMQClient \/ Lose \/ Listen \/ Deliver \/ ConsumeMessage \/ Pushed \/ ConsumeNothing
  \/ ReadAny \/ ReadSwaps \/ Ack \/ Reject \/ Stop \/ Joined

(* The threads go on, the broker sends what it has, and what has arrived   *)
(* is taken some time.                                                     *)
Fairness ==
  /\ WF_vars(StartRabbitMQClient) /\ WF_vars(Listen) /\ WF_vars(Pushed) /\ WF_vars(ConsumeNothing)
  /\ WF_vars(Deliver) /\ SF_vars(ConsumeMessage)
  /\ WF_vars(ReadAny) /\ WF_vars(ReadSwaps) /\ WF_vars(Ack \/ Reject)

Spec == Init /\ [][Next]_vars /\ Fairness

-----------------------------------------------------------------------------
(* What the broker is done with was read by the game, which may still have *)
(* crashed before it was worked off, or it was acknowledged in the place   *)
(* of a message that came on an earlier connection with the same tag       *)
(* (rabbitmq_client.cpp:661-730,822-828).                                  *)
AckedWasRead == \A x \in done \ read : \E s \in stale : s.acked = x /\ s.of < connects

(* The copied name of the queue is freed once, unless the connection that  *)
(* is given up failed before it made a copy, or Stop finds none: earlier   *)
(* failures of any kind do no harm (rabbitmq_client.cpp:413-417,668-673,   *)
(* 752-766).                                                               *)
FreedOnce == corrupted => failedEarly

(* However often the connection breaks, or the broker closes it for a tag  *)
(* it does not know, every message is read in the end, as long as the      *)
(* client runs and the queue is not deleted.  The one exception: it was    *)
(* acknowledged by a delivery of an earlier connection, and the connection *)
(* then broke before the client had taken it (rabbitmq_client.cpp:436-437, *)
(* 661-730,822-828).                                                       *)
OnItsWay ==
  {x.message : x \in Range(socket) \cup Queued
                      \cup {pushing[p].item : p \in {q \in Producers : pushing[q] # Nothing}}}
Forgotten == {s.acked : s \in stale} \ OnItsWay

EveryMessageRead ==
  \A x \in 1 .. MaxMessages :
    <>(x \in read \cup gone \cup Forgotten \/ corrupted \/ running = "stopping")
=============================================================================
