----------------------------- MODULE MCClients ------------------------------
(***************************************************************************)
(* The clients of the databases and of the broker for TLC, each by itself: *)
(* they share nothing, and part says whose behaviour this is.  The others  *)
(* stay as they begin.  The pool's properties are ConnectionPool's own.    *)
(***************************************************************************)
EXTENDS ConnectionPool

CONSTANTS
  MaxPipeline,                                \* of RedisClient
  Statements,                                 \* of MySqlSession
  Messages,                                   \* that are written
  MaxMessages, QueueMax, MaxConnects, MaxTag, \* of RabbitConsumer
  game, listener, nothing

(* What the listening thread hands to the game: a message, the tag it was  *)
(* sent with and the connection it came on.                                *)
Deliveries == [message : 1 .. MaxMessages, delivery_tag : Nat, of : Nat]

ASSUME ClientsAssumption ==
  /\ MaxMessages \in Nat
  /\ nothing \notin Messages \cup Deliveries
  /\ nothing \notin [to : {0, 1}, item : Messages \cup Deliveries]

VARIABLES
  part,
  redis, waiting, uncounted,
  link, open, undone, stored, user, todo, ended, before,
  queue_index_, queues_, pushing, sender, producer_conn_, producer_need_reconnect_, pMember,
  unwritten, published,
  readIndex, readQueues, listening, ready, sent, unacked, socket, done, gone, conn_, connects,
  need_reconnect_, readQueueRep_, reader, running, holds, read, stale, failedEarly, corrupted

Redis == INSTANCE RedisClient

MySql == INSTANCE MySqlSession

Producer == INSTANCE RabbitProducer WITH
  Producers <- {game}, Items <- Messages, Nothing <- nothing

Consumer == INSTANCE RabbitConsumer WITH
  Producers <- {listener}, Items <- Deliveries, Nothing <- nothing,
  queue_index_ <- readIndex, queues_ <- readQueues, pushing <- listening

redisVars == <<redis, waiting, uncounted>>
mysqlVars == <<link, open, undone, stored, user, todo, ended, before>>
producerVars == <<queue_index_, queues_, pushing, sender, producer_conn_,
  producer_need_reconnect_, pMember, unwritten, published>>
consumerVars == <<readIndex, readQueues, listening, ready, sent, unacked, socket, done, gone, conn_, connects,
  need_reconnect_, readQueueRep_, reader, running, holds, read, stale, failedEarly, corrupted>>
clientVars == <<vars, redisVars, mysqlVars, producerVars, consumerVars, part>>

PoolBegins == part = "pool" \/ (isRedis /\ count = 0)

ClientsInit ==
  /\ part \in {"pool", "redis", "mysql", "producer", "consumer"}
  /\ Init /\ PoolBegins
  /\ Redis!Init /\ MySql!Init /\ Producer!Init
  /\ Consumer!Init /\ (part = "consumer" \/ readQueueRep_ = "null")

ClientsNext ==
  /\ UNCHANGED part
  /\ \/ /\ part = "pool" /\ Next
        /\ UNCHANGED <<redisVars, mysqlVars, producerVars, consumerVars>>
     \/ /\ part = "redis" /\ Redis!Next
        /\ UNCHANGED <<vars, mysqlVars, producerVars, consumerVars>>
     \/ /\ part = "mysql" /\ MySql!Next
        /\ UNCHANGED <<vars, redisVars, producerVars, consumerVars>>
     \/ /\ part = "producer" /\ Producer!Next
        /\ UNCHANGED <<vars, redisVars, mysqlVars, consumerVars>>
     \/ /\ part = "consumer" /\ Consumer!Next
        /\ UNCHANGED <<vars, redisVars, mysqlVars, producerVars>>

(* The fairness of each client, which it owes when it is the one that moves*)
ProducerFairness ==
  /\ WF_producerVars(part = "producer" /\ Producer!Written) /\ WF_producerVars(part = "producer" /\ Producer!Reconnect)
  /\ WF_producerVars(part = "producer" /\ Producer!SwapWriteQueue) /\ WF_producerVars(part = "producer" /\ Producer!Sleep)
  /\ WF_producerVars(part = "producer" /\ \E x \in Messages : Producer!PopMember(x))
  /\ WF_producerVars(part = "producer" /\ Producer!PublishFails)
  /\ SF_producerVars(part = "producer" /\ Producer!Reconnect /\ producer_conn_' = "open")
  /\ \A x \in Messages : SF_producerVars(part = "producer" /\ Producer!Publish /\ pMember = x)

ConsumerFairness ==
  /\ WF_consumerVars(part = "consumer" /\ Consumer!StartRabbitMQClient)
  /\ WF_consumerVars(part = "consumer" /\ Consumer!Listen)
  /\ WF_consumerVars(part = "consumer" /\ Consumer!Pushed)
  /\ WF_consumerVars(part = "consumer" /\ Consumer!ConsumeNothing)
  /\ WF_consumerVars(part = "consumer" /\ Consumer!Deliver)
  /\ SF_consumerVars(part = "consumer" /\ Consumer!ConsumeMessage)
  /\ WF_consumerVars(part = "consumer" /\ Consumer!ReadAny)
  /\ WF_consumerVars(part = "consumer" /\ Consumer!ReadSwaps)
  /\ WF_consumerVars(part = "consumer" /\ (Consumer!Ack \/ Consumer!Reject))

ClientsSpec == ClientsInit /\ [][ClientsNext]_clientVars /\ ProducerFairness /\ ConsumerFairness

-----------------------------------------------------------------------------
(* Of a connection to Redis (redis_manager.cpp:43-255).                    *)
NeverWaitsInVain == Redis!NeverWaitsInVain

(* Of a connection to MySQL (mysql_connection.cpp:91-122,200-211).         *)
AtomicUnlessEnded == MySql!AtomicUnlessEnded

(* Of the sending half of RabbitMQClient (rabbitmq_client.cpp:566-648).    *)
WrittenIsPublished == Producer!WrittenIsPublished

(* Of its receiving half (rabbitmq_client.cpp:651-802,822-828).            *)
AckedWasRead == Consumer!AckedWasRead
FreedOnce == Consumer!FreedOnce
EveryMessageRead == part = "consumer" => Consumer!EveryMessageRead
=============================================================================
