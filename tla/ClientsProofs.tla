--------------------------- MODULE ClientsProofs ----------------------------
(***************************************************************************)
(* Proofs about the clients of the databases and of the broker. Of the     *)
(* pool of connections: what its unlocked flags still guarantee, for any   *)
(* number of users and any limit. Of a Redis connection: it never waits    *)
(* for a reply that cannot come. Of a MySQL transaction: it is there as a  *)
(* whole or not at all, unless the connection was lost in its midst. Of    *)
(* the RabbitMQ producer: it implements Mailbox. Of the consumer: its      *)
(* queue's name is freed once for each time it got one, and what it        *)
(* acknowledges is what it read.                                           *)
(***************************************************************************)
EXTENDS MCClients, DataLemmas

Places == {"out", "scan", "look", "found", "connect", "mark", "using"}

(* Types, and that whoever has a place of the array has one that was       *)
(* connected, until one is stored past its end.  The count only grows, so  *)
(* a user who still has a try found at least one connection.               *)
PoolTyped ==
  /\ count \in 0 .. Max
  /\ pool_index_ \in Int
  /\ is_free_ \in [Conns -> BOOLEAN]
  /\ pc \in [Users -> Places]
  /\ tries \in [Users -> Nat]
  /\ conn \in [Users -> Int]
  /\ \A u \in Users : tries[u] > 0 => count > 0
  /\ ~overflow => \A u \in Users :
       pc[u] \in {"look", "found", "mark", "using"} => conn[u] \in 0 .. count - 1

LEMMA Remainder ==
  ASSUME NEW a \in Int, NEW n \in Nat, n > 0
  PROVE  a % n \in 0 .. n - 1
  BY Z3

(* Every step of a pool's user keeps these.                                *)
THEOREM PoolIsTyped == Spec => []PoolTyped
<1> USE PoolAssumption
<1>1. Init => PoolTyped
  BY DEF Init, PoolTyped, Places
<1>2. PoolTyped /\ [Next]_vars => PoolTyped'
  <2> SUFFICES ASSUME PoolTyped, [Next]_vars
               PROVE  PoolTyped'
    OBVIOUS
  <2>0. CASE UNCHANGED vars
    BY <2>0 DEF PoolTyped, vars
  <2>1. ASSUME NEW u \in Users, GetConnection(u)
        PROVE  PoolTyped'
    BY <2>1 DEF PoolTyped, GetConnection, Go, Places
  <2>2. ASSUME NEW u \in Users, Probe(u)
        PROVE  PoolTyped'
    <3>1. count \in Nat /\ count > 0 /\ pool_index_' \in Int
      <4>1. (pool_index_ + 1) % Period \in 0 .. Period - 1
        BY Remainder DEF PoolTyped
      <4> QED
        BY <2>2, <4>1 DEF PoolTyped, Probe
    <3>2. pool_index_' % count \in 0 .. count - 1
      BY <3>1, Remainder
    <3> QED
      BY <2>2, <3>1, <3>2 DEF PoolTyped, Probe, Go, Places
  <2>3. ASSUME NEW u \in Users, Look(u) \/ FindNone(u) \/ Fail(u)
        PROVE  PoolTyped'
    BY <2>3 DEF PoolTyped, Look, FindNone, Fail, Go, Places
  <2>4. ASSUME NEW u \in Users, Claim(u) \/ Mark(u) \/ PutConnection(u)
        PROVE  PoolTyped'
    BY <2>4 DEF PoolTyped, Claim, Mark, PutConnection, Go, Places
  <2>5. ASSUME NEW u \in Users, AddConnection(u)
        PROVE  PoolTyped'
    <3>1. CASE count < Max
      <4>1. /\ count \in Conns /\ count' = count + 1 /\ count' \in 1 .. Max
            /\ is_free_' = [is_free_ EXCEPT ![count] = TRUE]
            /\ pc' = [pc EXCEPT ![u] = "mark"]
            /\ conn' = [conn EXCEPT ![u] = count]
            /\ pool_index_' = pool_index_ /\ tries' = tries /\ overflow' = overflow
            /\ ~overflow
        BY <2>5, <3>1 DEF PoolTyped, AddConnection, Go, Conns
      <4>2. \A v \in Users :
              pc'[v] \in {"look", "found", "mark", "using"} => conn'[v] \in 0 .. count' - 1
        <5> SUFFICES ASSUME NEW v \in Users,
                            pc'[v] \in {"look", "found", "mark", "using"}
                     PROVE  conn'[v] \in 0 .. count' - 1
          OBVIOUS
        <5>1. CASE v = u
          BY <4>1, <5>1 DEF PoolTyped
        <5>2. CASE v # u
          BY <4>1, <5>2 DEF PoolTyped
        <5> QED
          BY <5>1, <5>2
      <4>3. is_free_' \in [Conns -> BOOLEAN] /\ pc' \in [Users -> Places] /\ conn' \in [Users -> Int]
        BY <4>1 DEF PoolTyped, Places
      <4> QED
        BY <4>1, <4>2, <4>3 DEF PoolTyped
    <3>2. CASE ~(count < Max)
      BY <2>5, <3>2 DEF PoolTyped, AddConnection, Go, Places
    <3> QED
      BY <3>1, <3>2
  <2> QED
    BY <2>0, <2>1, <2>2, <2>3, <2>4, <2>5 DEF Next, Seek
<1> QED
  BY <1>1, <1>2, PTL DEF Spec

-----------------------------------------------------------------------------
(* No connection is lost to the pool, however its users race, and the      *)
(* arrays of MySQL's pool are never written past their end.                *)
THEOREM NoConnectionLost == Spec => []NoneLost
<1> USE PoolAssumption
<1>1. Init => NoneLost
  <2> SUFFICES ASSUME Init, NEW i \in 0 .. count - 1
               PROVE  is_free_[i] /\ ~overflow
    BY DEF Init, NoneLost
  <2>1. i \in Conns /\ i < count
    BY DEF Init, Conns
  <2> QED
    BY <2>1 DEF Init
<1>2. PoolTyped /\ NoneLost /\ [Next]_vars => NoneLost'
  <2> SUFFICES ASSUME PoolTyped, NoneLost, [Next]_vars
               PROVE  NoneLost'
    OBVIOUS
  <2> USE DEF PoolTyped, NoneLost
  <2>0. CASE UNCHANGED vars
    BY <2>0 DEF vars
  <2>1. ASSUME NEW u \in Users, GetConnection(u) \/ Probe(u) \/ Look(u) \/ FindNone(u) \/ Fail(u)
        PROVE  NoneLost'
    BY <2>1 DEF GetConnection, Probe, Look, FindNone, Fail, Go
  <2>2. ASSUME NEW u \in Users, Claim(u) \/ Mark(u) \/ PutConnection(u)
        PROVE  NoneLost'
    BY <2>2 DEF Claim, Mark, PutConnection, Go, Conns
  <2>3. ASSUME NEW u \in Users, AddConnection(u)
        PROVE  NoneLost'
    <3>1. CASE count < Max
      <4>1. /\ is_free_' = [is_free_ EXCEPT ![count] = TRUE] /\ count' = count + 1
            /\ conn' = [conn EXCEPT ![u] = count] /\ pc' = [pc EXCEPT ![u] = "mark"]
            /\ pc[u] = "connect" /\ UNCHANGED <<overflow, isRedis>>
        BY <2>3, <3>1 DEF AddConnection, Go
      <4>2. ASSUME NEW i \in 0 .. count' - 1
            PROVE  is_free_'[i] \/ \E v \in Users : conn'[v] = i /\ pc'[v] = "using"
        <5>1. CASE i = count
          BY <3>1, <4>1, <5>1 DEF Conns
        <5>2. CASE i # count
          <6>1. i \in 0 .. count - 1 /\ i \in Conns
            BY <3>1, <4>1, <4>2, <5>2 DEF Conns
          <6>2. CASE is_free_[i]
            BY <4>1, <5>2, <6>1, <6>2
          <6>3. CASE ~is_free_[i]
            <7>1. PICK v \in Users : conn[v] = i /\ pc[v] = "using"
              BY <6>1, <6>3
            <7>2. v # u
              BY <4>1, <7>1
            <7> QED
              BY <4>1, <7>1, <7>2
          <6> QED
            BY <6>2, <6>3
        <5> QED
          BY <5>1, <5>2
      <4> QED
        BY <4>1, <4>2
    <3>2. CASE ~(count < Max)
      BY <2>3, <3>2 DEF AddConnection, Go
    <3> QED
      BY <3>1, <3>2
  <2> QED
    BY <2>0, <2>1, <2>2, <2>3 DEF Next, Seek
<1> QED
  BY <1>1, <1>2, PoolIsTyped, PTL DEF Spec

-----------------------------------------------------------------------------
(* What SharedOnlyIfRaced rests on.  A connection in use that nobody took  *)
(* in a race is not free; one that was just connected, and not past the end*)
(* of the arrays, is in the hands of one user, and of another by a race.   *)
Raced(i) == i \in raced

HeldApart ==
  /\ SharedOnlyIfRaced
  /\ \A u \in Users : pc[u] = "using" => ~is_free_[conn[u]] \/ Raced(conn[u])
  /\ ~overflow => \A u, v \in Users :
       pc[u] = "mark" /\ conn[u] = conn[v] =>
         /\ pc[v] = "using" => Raced(conn[u])
         /\ pc[v] = "mark" => u = v

(* Two users hold the same connection only if one of them took it between  *)
(* the other's look and claim, or before it was marked: the races of       *)
(* GetConnection and of nothing else let a connection be shared.           *)
THEOREM SharedByRaceOnly == Spec => []SharedOnlyIfRaced
<1> USE PoolAssumption
<1>1. Init => HeldApart
  BY DEF Init, HeldApart, SharedOnlyIfRaced
<1>2. PoolTyped /\ HeldApart /\ [Next]_vars => HeldApart'
  <2> SUFFICES ASSUME PoolTyped, HeldApart, [Next]_vars
               PROVE  HeldApart'
    OBVIOUS
  <2> USE DEF PoolTyped, HeldApart, SharedOnlyIfRaced, Raced
  <2>0. CASE UNCHANGED vars
    BY <2>0 DEF vars
  <2>1. ASSUME NEW u \in Users, GetConnection(u) \/ Probe(u) \/ Look(u) \/ FindNone(u) \/ Fail(u)
        PROVE  HeldApart'
    BY <2>1 DEF GetConnection, Probe, Look, FindNone, Fail, Go
  <2>2. ASSUME NEW u \in Users, Claim(u)
        PROVE  HeldApart'
    BY <2>2 DEF Claim, Go, Conns
  <2>3. ASSUME NEW u \in Users, Mark(u)
        PROVE  HeldApart'
    BY <2>3 DEF Mark, Go, Conns
  <2>4. ASSUME NEW u \in Users, PutConnection(u)
        PROVE  HeldApart'
    BY <2>4 DEF PutConnection, Go, Conns
  <2>5. ASSUME NEW u \in Users, AddConnection(u)
        PROVE  HeldApart'
    <3>1. CASE count < Max
      BY <2>5, <3>1 DEF AddConnection, Go, Conns
    <3>2. CASE ~(count < Max)
      BY <2>5, <3>2 DEF AddConnection, Go
    <3> QED
      BY <3>1, <3>2
  <2> QED
    BY <2>0, <2>1, <2>2, <2>3, <2>4, <2>5 DEF Next, Seek
<1>3. HeldApart => SharedOnlyIfRaced
  BY DEF HeldApart
<1> QED
  BY <1>1, <1>2, <1>3, PoolIsTyped, PTL DEF Spec

-----------------------------------------------------------------------------
(* Redis.  As long as GetReply took no reply, a connection without an error*)
(* owes as many replies as are counted.                                    *)
RedisCounts ==
  /\ redis \in [up : BOOLEAN, owed : Nat, pending_reply_count_ : Nat]
  /\ redis.up /\ ~uncounted => redis.pending_reply_count_ = redis.owed
  /\ waiting \in BOOLEAN /\ uncounted \in BOOLEAN
  /\ NeverWaitsInVain

Counted(k) ==
  /\ k \in [up : BOOLEAN, owed : Nat, pending_reply_count_ : Nat]
  /\ k.up => k.pending_reply_count_ = k.owed

(* What a connection becomes is counted right, if it was, and a new one is.*)
LEMMA NewConnectionCounts ==
  /\ Counted(Redis!Connected) /\ Counted(Redis!Failed)
  /\ \A k : \A r \in Redis!ReConnect(k) : r \in {Redis!Connected, Redis!Failed}
  BY DEF Counted, Redis!Connected, Redis!Failed, Redis!ReConnect

(* One more command in the pipeline.                                       *)
LEMMA OneMoreOwed ==
  ASSUME NEW k \in [up : BOOLEAN, owed : Nat, pending_reply_count_ : Nat], NEW n \in Nat
  PROVE  LET l == [k EXCEPT !.owed = n, !.pending_reply_count_ = @ + 1]
         IN  /\ l \in [up : BOOLEAN, owed : Nat, pending_reply_count_ : Nat]
             /\ l.up = k.up /\ l.owed = n /\ l.pending_reply_count_ = k.pending_reply_count_ + 1
<1> DEFINE m == [k EXCEPT !.owed = n]
<1>1. /\ m \in [up : BOOLEAN, owed : Nat, pending_reply_count_ : Nat]
      /\ m.up = k.up /\ m.owed = n /\ m.pending_reply_count_ = k.pending_reply_count_
  OBVIOUS
<1> HIDE DEF m
<1> DEFINE l == [m EXCEPT !.pending_reply_count_ = @ + 1]
<1>2. /\ l \in [up : BOOLEAN, owed : Nat, pending_reply_count_ : Nat]
      /\ l.up = k.up /\ l.owed = n /\ l.pending_reply_count_ = k.pending_reply_count_ + 1
  BY <1>1
<1> QED
  BY <1>1, <1>2 DEF m

LEMMA BecomeCounts ==
  ASSUME RedisCounts, UNCHANGED waiting, NEW k, Redis!Become(k),
         k \in [up : BOOLEAN, owed : Nat, pending_reply_count_ : Nat],
         ~uncounted => Counted(k)
  PROVE  ~waiting => RedisCounts'
<1>1. CASE k \in {Redis!Connected, Redis!Failed}
  BY <1>1, NewConnectionCounts
     DEF RedisCounts, Counted, NeverWaitsInVain, Redis!NeverWaitsInVain, Redis!Become
<1>2. CASE k \notin {Redis!Connected, Redis!Failed}
  BY <1>2 DEF RedisCounts, Counted, NeverWaitsInVain, Redis!NeverWaitsInVain, Redis!Become
<1> QED
  BY <1>1, <1>2

(* A pipeline never waits for a reply that will not come, however often    *)
(* its connection breaks, unless GetReply took one uncounted.              *)
THEOREM PipelineNeverHangs == Redis!Spec => []NeverWaitsInVain
<1>1. Redis!Init => RedisCounts
  BY NewConnectionCounts
     DEF Redis!Init, RedisCounts, Counted, NeverWaitsInVain, Redis!NeverWaitsInVain
<1>2. RedisCounts /\ [Redis!Next]_Redis!vars => RedisCounts'
  <2> SUFFICES ASSUME RedisCounts, [Redis!Next]_Redis!vars
               PROVE  RedisCounts'
    OBVIOUS
  <2> DEFINE Objects == [up : BOOLEAN, owed : Nat, pending_reply_count_ : Nat]
  <2>0. CASE UNCHANGED Redis!vars
    BY <2>0 DEF RedisCounts, Redis!vars, NeverWaitsInVain, Redis!NeverWaitsInVain
  <2>1. \A k : k \in {Redis!Connected, Redis!Failed} => k \in Objects /\ Counted(k)
    BY NewConnectionCounts DEF Counted
  <2>2. ~uncounted => Counted(redis)
    BY DEF RedisCounts, Counted
  <2>3. \A k \in Redis!Ensure(redis) : k \in Objects /\ (~uncounted => Counted(k))
    BY <2>1, <2>2, NewConnectionCounts DEF Redis!Ensure, RedisCounts
  <2>4. \A k : k \in Objects => Redis!Broken(k) \in Objects /\ Counted(Redis!Broken(k))
    BY DEF Redis!Broken, Counted
  <2>5. ASSUME NEW k, k \in Objects, ~uncounted => Counted(k), Redis!Become(k),
               UNCHANGED waiting, ~waiting
        PROVE  RedisCounts'
    BY <2>5, BecomeCounts
  <2> HIDE DEF Objects
  <2>6. CASE Redis!ExecuteCommand
    <3>1. ~waiting /\ UNCHANGED waiting
      BY <2>6 DEF Redis!ExecuteCommand
    <3>2. PICK k \in Redis!Ensure(redis) :
            \/ Redis!Become(k)
            \/ \E r \in Redis!ReConnect(k) : Redis!Become(r) \/ Redis!Become(Redis!Broken(r))
      BY <2>6 DEF Redis!ExecuteCommand
    <3> QED
      BY <2>1, <2>3, <2>4, <2>5, <3>1, <3>2, NewConnectionCounts
  <2>7. CASE Redis!ExecuteCommandInPipeline
    <3>1. ~waiting /\ UNCHANGED waiting
      BY <2>7 DEF Redis!ExecuteCommandInPipeline
    <3>2. PICK k \in Redis!Ensure(redis) :
            \/ Redis!Become(k)
            \/ k.up /\ Redis!Become([k EXCEPT !.owed = @ + 1, !.pending_reply_count_ = @ + 1])
      BY <2>7 DEF Redis!ExecuteCommandInPipeline
    <3> DEFINE l == [k EXCEPT !.owed = @ + 1, !.pending_reply_count_ = @ + 1]
    <3>3. k \in Objects /\ (~uncounted => Counted(k))
      BY <2>3
    <3>4. k.up => l \in Objects /\ (~uncounted => Counted(l))
      <4>1. k.owed + 1 \in Nat /\ (k.up /\ ~uncounted => k.pending_reply_count_ = k.owed)
        BY <3>3 DEF Objects, Counted
      <4> QED
        BY <3>3, <4>1, OneMoreOwed DEF Objects, Counted
    <3> QED
      BY <2>5, <3>1, <3>2, <3>3, <3>4
  <2>8. CASE Redis!ExecuteCommandRefused
    <3>1. ~waiting /\ UNCHANGED waiting
      BY <2>8 DEF Redis!ExecuteCommandRefused
    <3>2. PICK k \in Redis!Ensure(redis) :
            \/ Redis!Become(k)
            \/ \E r \in Redis!ReConnect(k) :
                 \/ r.up /\ Redis!Become([r EXCEPT !.owed = 1, !.pending_reply_count_ = @ + 1])
                 \/ \E s \in Redis!ReConnect([r EXCEPT !.pending_reply_count_ = @ + 1]) : Redis!Become(s)
      BY <2>8 DEF Redis!ExecuteCommandRefused
    <3>3. ASSUME NEW r \in Redis!ReConnect(k), r.up
          PROVE  LET l == [r EXCEPT !.owed = 1, !.pending_reply_count_ = @ + 1]
                 IN  l \in Objects /\ Counted(l)
      <4>1. r = Redis!Connected
        BY <3>3, NewConnectionCounts DEF Redis!Failed
      <4> QED
        <5>1. r \in Objects /\ r.up /\ r.pending_reply_count_ = 0
          BY <2>1, <4>1 DEF Redis!Connected
        <5> DEFINE l == [r EXCEPT !.owed = 1, !.pending_reply_count_ = @ + 1]
        <5>2. l \in Objects /\ l.up = r.up /\ l.owed = 1 /\ l.pending_reply_count_ = r.pending_reply_count_ + 1
          <6>1. 1 \in Nat
            OBVIOUS
          <6> QED
            BY <5>1, <6>1, OneMoreOwed, Zenon DEF Objects
        <5> HIDE DEF l
        <5>3. l \in Objects /\ Counted(l)
          BY <5>1, <5>2 DEF Objects, Counted
        <5> QED
          BY <5>3 DEF l
    <3>4. CASE Redis!Become(k)
      BY <2>3, <2>5, <3>1, <3>4
    <3>5. CASE ~Redis!Become(k)
      <4>1. PICK r \in Redis!ReConnect(k) :
                 \/ r.up /\ Redis!Become([r EXCEPT !.owed = 1, !.pending_reply_count_ = @ + 1])
                 \/ \E s \in Redis!ReConnect([r EXCEPT !.pending_reply_count_ = @ + 1]) : Redis!Become(s)
        BY <3>2, <3>5
      <4> QED
        BY <2>1, <2>5, <3>1, <3>3, <4>1, NewConnectionCounts
    <3> QED
      BY <3>4, <3>5
  <2>9. CASE Redis!GetReplyInPipeline
    <3>1. CASE ~redis.up
      BY <2>1, <2>5, <2>9, <3>1, NewConnectionCounts DEF Redis!GetReplyInPipeline
    <3>2. CASE redis.up
      <4> DEFINE k == [redis EXCEPT !.pending_reply_count_ = @ - 1]
      <4>1. ~waiting /\ redis.pending_reply_count_ > 0 /\ Redis!RedisGetReply(k) /\ UNCHANGED uncounted
        BY <2>9, <3>2 DEF Redis!GetReplyInPipeline
      <4>2. /\ k \in Objects /\ k.up = redis.up /\ k.owed = redis.owed
            /\ k.pending_reply_count_ = redis.pending_reply_count_ - 1
        BY <4>1 DEF Objects, RedisCounts
      <4> HIDE DEF k
      <4>3. CASE k.owed > 0 /\ redis' = [k EXCEPT !.owed = @ - 1] /\ UNCHANGED waiting
        BY <4>1, <4>2, <4>3 DEF Objects, RedisCounts, NeverWaitsInVain, Redis!NeverWaitsInVain
      <4>4. CASE k.owed = 0 /\ redis' = k /\ waiting' = TRUE
        BY <3>2, <4>1, <4>2, <4>4 DEF Objects, RedisCounts, NeverWaitsInVain, Redis!NeverWaitsInVain
      <4>5. CASE redis' = Redis!Broken(k) /\ UNCHANGED waiting
        BY <4>1, <4>2, <4>5
           DEF Redis!Broken, Objects, RedisCounts, NeverWaitsInVain, Redis!NeverWaitsInVain
      <4> QED
        BY <4>1, <4>3, <4>4, <4>5 DEF Redis!RedisGetReply
    <3> QED
      BY <3>1, <3>2
  <2>10. CASE Redis!GetReply
    <3>1. CASE ~redis.up
      BY <2>1, <2>5, <2>10, <3>1, NewConnectionCounts DEF Redis!GetReply
    <3>2. CASE redis.up
      <4>1. ~waiting /\ Redis!RedisGetReply(redis) /\ uncounted' = TRUE
        BY <2>10, <3>2 DEF Redis!GetReply
      <4>2. CASE redis.owed > 0 /\ redis' = [redis EXCEPT !.owed = @ - 1] /\ UNCHANGED waiting
        BY <4>1, <4>2 DEF RedisCounts, NeverWaitsInVain, Redis!NeverWaitsInVain
      <4>3. CASE redis' = redis /\ waiting' = TRUE
        BY <4>1, <4>3 DEF RedisCounts, NeverWaitsInVain, Redis!NeverWaitsInVain
      <4>4. CASE redis' = Redis!Broken(redis) /\ UNCHANGED waiting
        BY <4>1, <4>4 DEF Redis!Broken, RedisCounts, NeverWaitsInVain, Redis!NeverWaitsInVain
      <4> QED
        BY <4>1, <4>2, <4>3, <4>4 DEF Redis!RedisGetReply
    <3> QED
      BY <3>1, <3>2
  <2> QED
    BY <2>0, <2>6, <2>7, <2>8, <2>9, <2>10 DEF Redis!Next
<1>3. RedisCounts => NeverWaitsInVain
  BY DEF RedisCounts
<1> QED
  BY <1>1, <1>2, <1>3, PTL DEF Redis!Spec

-----------------------------------------------------------------------------
(* MySQL.  What was executed in a transaction that is open is in it; of    *)
(* one that ended by itself it is stored, but for what was in it when it   *)
(* ended; or there was no connection from the begin on.                    *)
Executed == Statements \ todo

InTransaction == open /\ undone = Executed

NeverBegun == link = "null" /\ ~open /\ todo = Statements /\ stored = {} /\ before = {}

EndedByItself == ended /\ ~open /\ before \subseteq Executed /\ stored = Executed \ before

SessionInv ==
  /\ link \in {"up", "down", "null"} /\ open \in BOOLEAN /\ ended \in BOOLEAN
  /\ user \in {"idle", "busy", "failed", "committed", "rolled back"}
  /\ todo \subseteq Statements
  /\ ~open => undone = {}
  /\ open => /\ link = "up" /\ user \in {"busy", "failed"}
             /\ ~ended /\ before = {} /\ stored = {}
  /\ user = "idle" => stored = {} /\ todo = Statements
  /\ user = "busy" => InTransaction \/ NeverBegun \/ EndedByItself
  /\ user = "failed" => stored \cap before = {} /\ (ended \/ stored = {})
  /\ AtomicUnlessEnded

(* A connection that is lost takes the transaction with it.                *)
LEMMA LosingKeepsSession ==
  ASSUME SessionInv, MySql!Lose
  PROVE  SessionInv'
<1> USE DEF SessionInv, InTransaction, NeverBegun, EndedByItself, Executed,
           AtomicUnlessEnded, MySql!AtomicUnlessEnded
<1>1. /\ link = "up" /\ link' = "down" /\ open' = FALSE /\ undone' = {}
      /\ ended' = (ended \/ open) /\ before' = before \cup undone
      /\ UNCHANGED <<stored, user, todo>>
  BY DEF MySql!Lose, MySql!EndsIt
<1>2. CASE open
  <2>1. before' = undone /\ ended' /\ stored = {}
    BY <1>1, <1>2
  <2>2. user = "busy" => EndedByItself'
    BY <1>1, <1>2, <2>1
  <2> QED
    BY <1>1, <1>2, <2>1, <2>2
<1>3. CASE ~open
  <2>1. before' = before /\ ended' = ended
    BY <1>1, <1>3
  <2> QED
    BY <1>1, <1>3, <2>1
<1> QED
  BY <1>2, <1>3

(* A statement is done in the transaction, or outside, after its end.      *)
LEMMA ExecutingKeepsSession ==
  ASSUME SessionInv, NEW x \in Statements, MySql!Execute(x)
  PROVE  SessionInv'
<1> USE DEF SessionInv, InTransaction, NeverBegun, EndedByItself, Executed,
           AtomicUnlessEnded, MySql!AtomicUnlessEnded
<1>1. user = "busy" /\ x \in todo /\ todo' = todo \ {x}
  BY DEF MySql!Execute
<1>2. Executed' = Executed \cup {x} /\ x \notin Executed
  BY <1>1
<1>3. CASE MySql!ExecuteInside(x)
  <2>1. /\ open /\ link = "up" /\ link' = "up" /\ UNCHANGED <<stored, open, ended, before>>
        /\ \/ undone' = undone \cup {x} /\ user' = "busy"
           \/ user' = "failed" /\ undone' = undone
    BY <1>1, <1>3 DEF MySql!ExecuteInside, MySql!Query
  <2>2. user' = "busy" => InTransaction'
    BY <1>1, <1>2, <2>1
  <2> QED
    BY <1>1, <2>1, <2>2
<1>4. CASE MySql!ExecuteOutside(x)
  <2>1. /\ open' = FALSE /\ undone' = {}
        /\ ended' = (ended \/ open) /\ before' = before \cup undone
    BY <1>4 DEF MySql!ExecuteOutside, MySql!EndsIt
  <2>2. \/ link # "null" /\ link' = "up" /\ stored' = stored \cup {x} /\ user' = "busy"
        \/ link' \in {"up", "null"} /\ stored' = stored /\ user' = "failed"
        \/ link # "null" /\ link' = "down" /\ stored' = stored \cup {x} /\ user' = "failed"
    BY <1>1, <1>4 DEF MySql!ExecuteOutside, MySql!Query
  <2>3. /\ before' \subseteq Executed
        /\ stored \cap before' = {}
        /\ link # "null" => ended' /\ stored = Executed \ before'
        /\ ended' \/ stored = {}
    <3>1. CASE InTransaction
      BY <2>1, <3>1
    <3>2. CASE NeverBegun
      BY <2>1, <3>2
    <3>3. CASE EndedByItself
      BY <2>1, <3>3
    <3> QED
      BY <1>1, <3>1, <3>2, <3>3
  <2>4. x \notin before'
    BY <1>2, <2>3
  <2>5. user' = "busy" => EndedByItself'
    BY <1>1, <1>2, <2>1, <2>2, <2>3, <2>4
  <2>6. user' = "failed" => stored' \cap before' = {} /\ (ended' \/ stored' = {})
    BY <2>2, <2>3, <2>4
  <2> QED
    BY <1>1, <2>1, <2>2, <2>5, <2>6
<1> QED
  BY <1>3, <1>4 DEF MySql!Execute

(* COMMIT stores what is open, or is refused and ends it.                  *)
LEMMA CommittingKeepsSession ==
  ASSUME SessionInv, MySql!Commit
  PROVE  SessionInv'
<1> USE DEF SessionInv, InTransaction, NeverBegun, EndedByItself, Executed,
           AtomicUnlessEnded, MySql!AtomicUnlessEnded
<1>1. user = "busy" /\ todo = {} /\ user' = "committed" /\ UNCHANGED todo /\ Executed = Statements
  BY DEF MySql!Commit
<1>2. \/ /\ link' = "up" /\ stored' = stored \cup undone /\ open' = FALSE /\ undone' = {}
         /\ UNCHANGED <<ended, before>>
      \/ /\ link' = "up" /\ open' = FALSE /\ undone' = {} /\ ended' = (ended \/ open)
         /\ before' = before \cup undone /\ UNCHANGED stored
      \/ link # "up" /\ link' = "null" /\ UNCHANGED <<stored, open, undone, ended, before>>
  BY DEF MySql!Commit, MySql!Query, MySql!EndsIt
<1>3. open' = FALSE /\ undone' = {} /\ link' \in {"up", "null"}
  <2>1. link # "up" => open = FALSE /\ undone = {}
    OBVIOUS
  <2>2. open' = FALSE
    BY <1>2, <2>1
  <2>3. undone' = {}
    BY <1>2, <2>1
  <2>4. link' \in {"up", "null"}
    BY <1>2
  <2> QED
    BY <2>2, <2>3, <2>4
<1>4. ended' \in BOOLEAN
  BY <1>2
<1>5. stored' = Statements \ before' /\ (ended' \/ before' = {})
  <2>1. CASE InTransaction
    BY <1>1, <1>2, <2>1
  <2>2. CASE NeverBegun
    BY <1>1, <1>2, <2>2
  <2>3. CASE EndedByItself
    BY <1>1, <1>2, <2>3
  <2> QED
    BY <1>1, <2>1, <2>2, <2>3
<1>6. AtomicUnlessEnded'
  BY <1>1, <1>5
<1>7. todo' \subseteq Statements
  BY <1>1
<1> QED
  BY <1>1, <1>3, <1>4, <1>6, <1>7

(* A transaction that its user ended is stored as a whole or not at all;   *)
(* of one that ended before, what was committed lacks exactly what was     *)
(* done before its end (mysql_connection.cpp:91-122,200-211).              *)
THEOREM TransactionsAreWhole == MySql!Spec => []AtomicUnlessEnded
<1>1. MySql!Init => SessionInv
  BY DEF MySql!Init, SessionInv, AtomicUnlessEnded, MySql!AtomicUnlessEnded
<1>2. SessionInv /\ [MySql!Next]_MySql!vars => SessionInv'
  <2> SUFFICES ASSUME SessionInv, [MySql!Next]_MySql!vars
               PROVE  SessionInv'
    OBVIOUS
  <2> USE DEF SessionInv, InTransaction, NeverBegun, EndedByItself, Executed,
             AtomicUnlessEnded, MySql!AtomicUnlessEnded
  <2>1. CASE UNCHANGED MySql!vars
    BY <2>1 DEF MySql!vars
  <2>2. CASE MySql!TransactionBegin
    <3>1. /\ user = "idle" /\ user' = "busy" /\ ended' = FALSE /\ before' = {}
          /\ UNCHANGED <<undone, stored, todo>>
          /\ \/ link' = "up" /\ open' = TRUE
             \/ link' = "null" /\ UNCHANGED open
      BY <2>2 DEF MySql!TransactionBegin, MySql!Query
    <3>2. ~open /\ undone = {} /\ stored = {} /\ todo = Statements
      BY <3>1
    <3>3. CASE link' = "up" /\ open' = TRUE
      <4>1. InTransaction'
        BY <3>1, <3>2, <3>3
      <4> QED
        BY <3>1, <3>2, <3>3, <4>1
    <3>4. CASE link' = "null" /\ UNCHANGED open
      <4>1. NeverBegun'
        BY <3>1, <3>2, <3>4
      <4> QED
        BY <3>1, <3>2, <3>4, <4>1
    <3> QED
      BY <3>1, <3>3, <3>4
  <2>3. CASE MySql!Rollback
    <3>1. /\ user = "failed" /\ user' = "rolled back" /\ UNCHANGED <<stored, todo, ended, before>>
          /\ \/ open' = FALSE /\ undone' = {} /\ link' \in {"up", "null"}
             \/ link # "up" /\ link' = "null" /\ UNCHANGED <<open, undone>>
      BY <2>3 DEF MySql!Rollback, MySql!Query
    <3>2. open' = FALSE /\ undone' = {} /\ link' \in {"up", "null"}
      BY <3>1
    <3>3. stored' \cap before' = {} /\ (ended' \/ stored' = {}) /\ ended' \in BOOLEAN
      BY <3>1
    <3> QED
      BY <3>1, <3>2, <3>3
  <2>4. CASE MySql!Again
    BY <2>4 DEF MySql!Again
  <2> QED
    BY <2>1, <2>2, <2>3, <2>4, LosingKeepsSession, ExecutingKeepsSession, CommittingKeepsSession
       DEF MySql!Next
<1>3. SessionInv => AtomicUnlessEnded
  BY DEF SessionInv
<1> QED
  BY <1>1, <1>2, <1>3, PTL DEF MySql!Spec

-----------------------------------------------------------------------------
(* The sending half of the RabbitMQ client.                                *)
Pushed == IF pushing[game] = nothing THEN {} ELSE {pushing[game].item}
Popped == IF pMember = nothing THEN {} ELSE {pMember}
Waiting == Range(queues_[0]) \cup Range(queues_[1])
Other == IF queue_index_ = 0 THEN 1 ELSE 0

PublisherTyped ==
  /\ queue_index_ \in {0, 1}
  /\ queues_ \in [{0, 1} -> Seq(Messages)]
  /\ pushing \in [{game} -> {nothing} \cup [to : {0, 1}, item : Messages]]
  /\ pMember \in Messages \cup {nothing}
  /\ unwritten \subseteq Messages
  /\ sender = "send" <=> pMember # nothing

(* A message is in one place at a time: not yet written, in Write, once in *)
(* one of the queues, or in the thread's hands.                            *)
InOnePlace ==
  /\ \A i \in {0, 1} : IsInjective(queues_[i])
  /\ Range(queues_[0]) \cap Range(queues_[1]) = {}
  /\ unwritten \cap (Pushed \cup Waiting \cup Popped) = {}
  /\ Pushed \cap (Waiting \cup Popped) = {}
  /\ Waiting \cap Popped = {}

PublisherInv == PublisherTyped /\ InOnePlace

LEMMA SamePlaces ==
  /\ Producer!InPush = Pushed /\ Producer!Queued = Waiting /\ Producer!Held = Popped
  /\ Producer!InPush' = Pushed' /\ Producer!Queued' = Waiting' /\ Producer!Held' = Popped'
  BY DEF Producer!InPush, Producer!Queued, Producer!Held, Producer!Range,
         Pushed, Waiting, Popped, Range

LEMMA OtherQueue ==
  ASSUME PublisherTyped
  PROVE  /\ Producer!NextQueueIndex(queue_index_) = Other /\ Other \in {0, 1}
         /\ {queue_index_, Other} = {0, 1} /\ queue_index_ # Other
  BY DEF PublisherTyped, Producer!NextQueueIndex, Other

(* An item put behind one of the queues.                                   *)
LEMMA PutBehind ==
  ASSUME PublisherInv, NEW i \in {0, 1}, NEW x \in Messages, x \notin Waiting,
         queues_' = [queues_ EXCEPT ![i] = Append(@, x)]
  PROVE  /\ queues_' \in [{0, 1} -> Seq(Messages)]
         /\ \A j \in {0, 1} : IsInjective(queues_'[j])
         /\ Range(queues_'[0]) \cap Range(queues_'[1]) = {}
         /\ Waiting' = Waiting \cup {x}
<1>1. /\ queues_ \in [{0, 1} -> Seq(Messages)] /\ \A j \in {0, 1} : IsInjective(queues_[j])
      /\ Range(queues_[0]) \cap Range(queues_[1]) = {}
  BY DEF PublisherInv, PublisherTyped, InOnePlace
<1>2. /\ Append(queues_[i], x) \in Seq(Messages)
      /\ Range(Append(queues_[i], x)) = Range(queues_[i]) \cup {x}
      /\ IsInjective(Append(queues_[i], x))
  BY <1>1, AppendElements DEF Waiting
<1>3. \A j \in {0, 1} : queues_'[j] = IF j = i THEN Append(queues_[i], x) ELSE queues_[j]
  BY <1>1
<1>4. CASE i = 0
  BY <1>1, <1>2, <1>3, <1>4 DEF Waiting
<1>5. CASE i = 1
  BY <1>1, <1>2, <1>3, <1>5 DEF Waiting
<1> QED
  BY <1>4, <1>5

LEMMA PublisherStarts == Producer!Init => PublisherInv
<1> SUFFICES ASSUME Producer!Init
             PROVE  PublisherInv
  OBVIOUS
<1>1. /\ queue_index_ = 0 /\ queues_ = [i \in {0, 1} |-> <<>>] /\ pMember = nothing
      /\ pushing = [p \in {game} |-> nothing] /\ sender = "top" /\ unwritten = Messages
  BY DEF Producer!Init, Producer!QueueInit
<1>2. Range(<<>>) = {} /\ IsInjective(<<>>) /\ <<>> \in Seq(Messages)
  BY DEF Range, IsInjective
<1>3. PublisherTyped
  BY <1>1, <1>2 DEF PublisherTyped
<1>4. InOnePlace
  BY <1>1, <1>2 DEF InOnePlace, Pushed, Waiting, Popped
<1> QED
  BY <1>3, <1>4 DEF PublisherInv

(* Each step of the client keeps every message in one place, and is a step *)
(* of the mailbox or invisible to it.                                      *)
MailboxVars == <<unwritten, Pushed \cup Waiting \cup Popped, published>>

LEMMA WriteIsPut ==
  ASSUME PublisherInv, NEW x \in Messages, Producer!Write(x)
  PROVE  PublisherInv' /\ Producer!MB!Put(x)
<1>1. /\ x \in unwritten /\ unwritten' = unwritten \ {x} /\ pushing[game] = nothing
      /\ pushing' = [pushing EXCEPT ![game] = [to |-> Other, item |-> x]]
      /\ UNCHANGED <<queue_index_, queues_, sender, pMember, published>>
  BY OtherQueue DEF Producer!Write, Producer!BeginPush, Producer!threadVars, PublisherInv
<1>2. /\ pushing'[game] = [to |-> Other, item |-> x] /\ pushing'[game] # nothing
      /\ pushing' \in [{game} -> {nothing} \cup [to : {0, 1}, item : Messages]]
  BY <1>1, OtherQueue, ClientsAssumption DEF PublisherInv, PublisherTyped
<1>3. /\ Pushed = {} /\ Pushed' = {x} /\ Waiting' = Waiting /\ Popped' = Popped
  BY <1>1, <1>2 DEF Pushed, Waiting, Popped
<1>4. PublisherTyped'
  BY <1>1, <1>2 DEF PublisherInv, PublisherTyped
<1>5. InOnePlace'
  BY <1>1, <1>3 DEF PublisherInv, InOnePlace
<1> QED
  BY <1>1, <1>3, <1>4, <1>5, SamePlaces DEF PublisherInv, Producer!MB!Put

LEMMA WrittenIsInvisible ==
  ASSUME PublisherInv, Producer!Written
  PROVE  PublisherInv' /\ UNCHANGED MailboxVars
<1>1. /\ pushing[game] # nothing /\ pushing' = [pushing EXCEPT ![game] = nothing]
      /\ queues_' = [queues_ EXCEPT ![pushing[game].to] = Append(@, pushing[game].item)]
      /\ UNCHANGED <<queue_index_, sender, pMember, unwritten, published>>
  BY DEF Producer!Written, Producer!EndPush, Producer!threadVars
<1>2. PICK i \in {0, 1}, x \in Messages : pushing[game] = [to |-> i, item |-> x]
  BY <1>1 DEF PublisherInv, PublisherTyped
<1>3. Pushed = {x} /\ x \notin Waiting
  BY <1>1, <1>2 DEF Pushed, PublisherInv, InOnePlace
<1>4. queues_' = [queues_ EXCEPT ![i] = Append(@, x)]
  BY <1>1, <1>2
<1>5. /\ queues_' \in [{0, 1} -> Seq(Messages)]
      /\ \A j \in {0, 1} : IsInjective(queues_'[j])
      /\ Range(queues_'[0]) \cap Range(queues_'[1]) = {}
      /\ Waiting' = Waiting \cup {x}
  BY <1>3, <1>4, PutBehind
<1>6. /\ pushing'[game] = nothing
      /\ pushing' \in [{game} -> {nothing} \cup [to : {0, 1}, item : Messages]]
  BY <1>1 DEF PublisherInv, PublisherTyped
<1>7. Pushed' = {} /\ Popped' = Popped
  BY <1>1, <1>6 DEF Pushed, Popped
<1>8. PublisherTyped'
  BY <1>1, <1>5, <1>6 DEF PublisherInv, PublisherTyped
<1>9. InOnePlace'
  BY <1>1, <1>3, <1>5, <1>7 DEF PublisherInv, InOnePlace
<1> QED
  BY <1>1, <1>3, <1>5, <1>7, <1>8, <1>9 DEF PublisherInv, MailboxVars

LEMMA PopIsInvisible ==
  ASSUME PublisherInv, NEW x \in Messages, Producer!PopMember(x)
  PROVE  PublisherInv' /\ UNCHANGED MailboxVars
<1>1. /\ queues_[queue_index_] # <<>> /\ x = Head(queues_[queue_index_])
      /\ queues_' = [queues_ EXCEPT ![queue_index_] = Tail(@)]
      /\ sender # "send" /\ sender' = "send" /\ pMember' = x
      /\ UNCHANGED <<queue_index_, pushing, unwritten, published>>
  BY DEF Producer!PopMember, Producer!Pop, Producer!Front
<1>2. /\ queue_index_ \in {0, 1} /\ queues_ \in [{0, 1} -> Seq(Messages)]
      /\ \A j \in {0, 1} : IsInjective(queues_[j])
      /\ Range(queues_[0]) \cap Range(queues_[1]) = {}
  BY DEF PublisherInv, PublisherTyped, InOnePlace
<1>3. PICK i \in {0, 1} : i = queue_index_
  BY <1>2
<1>4. /\ Tail(queues_[i]) \in Seq(Messages) /\ x \in Range(queues_[i])
      /\ Range(Tail(queues_[i])) = Range(queues_[i]) \ {x}
      /\ IsInjective(Tail(queues_[i]))
  BY <1>1, <1>2, <1>3, TailElements
<1>5. \A j \in {0, 1} : queues_'[j] = IF j = i THEN Tail(queues_[i]) ELSE queues_[j]
  BY <1>1, <1>2, <1>3
<1>6. /\ x \in Waiting /\ Waiting' = Waiting \ {x}
      /\ \A j \in {0, 1} : IsInjective(queues_'[j])
      /\ Range(queues_'[0]) \cap Range(queues_'[1]) = {}
  <2>1. CASE i = 0
    BY <1>2, <1>4, <1>5, <2>1 DEF Waiting
  <2>2. CASE i = 1
    BY <1>2, <1>4, <1>5, <2>2 DEF Waiting
  <2> QED
    BY <2>1, <2>2
<1>7. x # nothing /\ pMember = nothing
  BY <1>1, ClientsAssumption DEF PublisherInv, PublisherTyped
<1>8. Popped = {} /\ Popped' = {x} /\ Pushed' = Pushed
  BY <1>1, <1>7 DEF Popped, Pushed
<1>9. queues_' \in [{0, 1} -> Seq(Messages)]
  BY <1>1, <1>2, <1>3, <1>4
<1>10. PublisherTyped'
  BY <1>1, <1>7, <1>9 DEF PublisherInv, PublisherTyped
<1>11. InOnePlace'
  BY <1>1, <1>6, <1>8 DEF PublisherInv, InOnePlace
<1> QED
  BY <1>1, <1>6, <1>8, <1>10, <1>11 DEF PublisherInv, MailboxVars

LEMMA PublishIsTake ==
  ASSUME PublisherInv, Producer!Publish
  PROVE  PublisherInv' /\ \E x \in Messages : Producer!MB!Take(x)
<1>1. /\ sender = "send" /\ sender' = "top" /\ published' = Append(published, pMember)
      /\ pMember' = nothing /\ UNCHANGED <<queue_index_, queues_, pushing, unwritten>>
  BY DEF Producer!Publish, Producer!queueVars
<1>2. pMember \in Messages /\ pMember # nothing
  BY <1>1 DEF PublisherInv, PublisherTyped
<1>3. /\ Popped = {pMember} /\ Popped' = {} /\ Pushed' = Pushed /\ Waiting' = Waiting
  BY <1>1, <1>2 DEF Popped, Pushed, Waiting
<1>4. PublisherTyped'
  BY <1>1 DEF PublisherInv, PublisherTyped
<1>5. InOnePlace'
  BY <1>1, <1>3 DEF PublisherInv, InOnePlace
<1>6. pMember \notin Pushed \cup Waiting
  BY <1>3 DEF PublisherInv, InOnePlace
<1>7. Producer!MB!Take(pMember)
  BY <1>1, <1>3, <1>6, SamePlaces DEF Producer!MB!Take
<1> QED
  BY <1>2, <1>4, <1>5, <1>7 DEF PublisherInv

LEMMA FailureIsInvisible ==
  ASSUME PublisherInv, Producer!PublishFails
  PROVE  PublisherInv' /\ UNCHANGED MailboxVars
<1>1. /\ sender = "send" /\ sender' = "top" /\ pMember' = nothing
      /\ queues_' = [queues_ EXCEPT ![Other] = Append(@, pMember)]
      /\ UNCHANGED <<queue_index_, pushing, unwritten, published>>
  BY OtherQueue DEF Producer!PublishFails, PublisherInv
<1>2. pMember \in Messages /\ pMember # nothing
  BY <1>1 DEF PublisherInv, PublisherTyped
<1>3. Popped = {pMember} /\ Popped' = {} /\ Pushed' = Pushed /\ pMember \notin Waiting
  BY <1>1, <1>2 DEF Popped, Pushed, PublisherInv, InOnePlace
<1>4. /\ queues_' \in [{0, 1} -> Seq(Messages)]
      /\ \A j \in {0, 1} : IsInjective(queues_'[j])
      /\ Range(queues_'[0]) \cap Range(queues_'[1]) = {}
      /\ Waiting' = Waiting \cup {pMember}
  BY <1>1, <1>2, <1>3, OtherQueue, PutBehind DEF PublisherInv
<1>5. PublisherTyped'
  BY <1>1, <1>4 DEF PublisherInv, PublisherTyped
<1>6. InOnePlace'
  BY <1>1, <1>3, <1>4 DEF PublisherInv, InOnePlace
<1> QED
  BY <1>1, <1>3, <1>4, <1>5, <1>6 DEF PublisherInv, MailboxVars

LEMMA OthersAreInvisible ==
  ASSUME PublisherInv,
         Producer!Reconnect \/ Producer!SwapWriteQueue \/ Producer!Sleep \/ UNCHANGED Producer!vars
  PROVE  PublisherInv' /\ UNCHANGED MailboxVars
<1>1. /\ UNCHANGED <<queues_, pushing, pMember, unwritten, published>>
      /\ queue_index_' \in {queue_index_, Other}
  BY OtherQueue DEF Producer!Reconnect, Producer!SwapWriteQueue, Producer!Sleep, Producer!Swap,
       Producer!vars, Producer!queueVars, Producer!threadVars, PublisherInv
<1>2. sender' = "send" <=> sender = "send"
  BY DEF Producer!Reconnect, Producer!SwapWriteQueue, Producer!Sleep,
       Producer!vars, Producer!threadVars
<1>3. PublisherTyped'
  BY <1>1, <1>2, OtherQueue DEF PublisherInv, PublisherTyped
<1>4. UNCHANGED <<Pushed, Waiting, Popped>>
  BY <1>1 DEF Pushed, Waiting, Popped
<1> QED
  BY <1>1, <1>3, <1>4 DEF PublisherInv, InOnePlace, MailboxVars

(* What is written to RabbitMQ is published once, as far as the client is  *)
(* told: Write puts a message into a mailbox, amqp_basic_publish takes it  *)
(* out, and popping it and pushing it back however often are invisible     *)
(* (rabbitmq_client.cpp:566-648,804-820).  That it is published in the end *)
(* is left to the model checker.                                           *)
THEOREM PublishingIsMailbox ==
  Producer!Spec => Producer!MB!Init /\ [][Producer!MB!Next]_(Producer!MB!vars)
<1>1. Producer!Init => Producer!MB!Init
  <2> SUFFICES ASSUME Producer!Init
               PROVE  Producer!MB!Init
    OBVIOUS
  <2>1. /\ queues_ = [i \in {0, 1} |-> <<>>] /\ pushing = [p \in {game} |-> nothing]
        /\ pMember = nothing /\ unwritten = Messages /\ published = <<>>
    BY DEF Producer!Init, Producer!QueueInit
  <2>2. Pushed = {} /\ Waiting = {} /\ Popped = {}
    BY <2>1 DEF Pushed, Waiting, Popped, Range
  <2> QED
    BY <2>1, <2>2, SamePlaces DEF Producer!MB!Init
<1>2. PublisherInv /\ [Producer!Next]_(Producer!vars) =>
        PublisherInv' /\ [Producer!MB!Next]_(Producer!MB!vars)
  <2> SUFFICES ASSUME PublisherInv, [Producer!Next]_(Producer!vars)
               PROVE  PublisherInv' /\ [Producer!MB!Next]_(Producer!MB!vars)
    OBVIOUS
  <2>1. UNCHANGED MailboxVars => UNCHANGED Producer!MB!vars
    BY SamePlaces DEF MailboxVars, Producer!MB!vars
  <2>2. CASE \E x \in Messages : Producer!Write(x)
    BY <2>2, WriteIsPut DEF Producer!MB!Next
  <2>3. CASE \E x \in Messages : Producer!PopMember(x)
    BY <2>1, <2>3, PopIsInvisible
  <2>4. CASE Producer!Publish
    BY <2>4, PublishIsTake DEF Producer!MB!Next
  <2>5. CASE Producer!Written \/ Producer!PublishFails
    BY <2>1, <2>5, WrittenIsInvisible, FailureIsInvisible
  <2>6. CASE Producer!Reconnect \/ Producer!SwapWriteQueue \/ Producer!Sleep \/ UNCHANGED Producer!vars
    BY <2>1, <2>6, OthersAreInvisible
  <2> QED
    BY <2>2, <2>3, <2>4, <2>5, <2>6 DEF Producer!Next
<1> QED
  BY <1>1, <1>2, PublisherStarts, PTL DEF Producer!Spec

-----------------------------------------------------------------------------
(* RabbitMQ.  Loop is what TakenBack's definition says, when there is such *)
(* a function.                                                             *)
LEMMA TakenBackTyped ==
  ASSUME NEW S, sent \in Seq(S)
  PROVE  Consumer!TakenBack \in Seq(S)
<1> DEFINE Loop(f, m) ==
             f = [t \in 0 .. m |->
                    IF t = 0 THEN <<>>
                    ELSE IF t \in unacked THEN Append(f[t - 1], sent[t])
                    ELSE f[t - 1]]
           Runs == {m \in Nat : \E f : Loop(f, m)}
<1>1. 0 \in Runs
  <2>1. Loop([t \in 0 .. 0 |-> <<>>], 0)
    OBVIOUS
  <2> QED
    BY <2>1
<1>2. ASSUME NEW m \in Nat, m \in Runs
      PROVE  m + 1 \in Runs
  <2>1. PICK f : Loop(f, m)
    BY <1>2
  <2> DEFINE last == IF m + 1 \in unacked THEN Append(f[m], sent[m + 1]) ELSE f[m]
             g == [t \in 0 .. m + 1 |-> IF t = m + 1 THEN last ELSE f[t]]
  <2>2. ASSUME NEW t \in 0 .. m + 1
        PROVE  g[t] = IF t = 0 THEN <<>>
                      ELSE IF t \in unacked THEN Append(g[t - 1], sent[t])
                      ELSE g[t - 1]
    <3>1. CASE t = m + 1
      BY <3>1
    <3>2. CASE t # m + 1
      <4>1. t \in 0 .. m /\ g[t] = f[t] /\ (t # 0 => g[t - 1] = f[t - 1])
        BY <3>2
      <4>2. f[t] = IF t = 0 THEN <<>>
                   ELSE IF t \in unacked THEN Append(f[t - 1], sent[t])
                   ELSE f[t - 1]
        BY <2>1, <4>1
      <4> QED
        BY <4>1, <4>2
    <3> QED
      BY <3>1, <3>2
  <2>3. Loop(g, m + 1)
    BY <2>2
  <2>4. \E h : Loop(h, m + 1)
    <3> HIDE DEF g
    <3> QED
      BY <2>3
  <2> HIDE DEF Loop
  <2> QED
    BY <2>4
<1>3. Nat \subseteq Runs
  <2> HIDE DEF Runs
  <2> QED
    BY <1>1, <1>2, NatSetInduction
<1>4. Len(sent) \in Nat /\ \A t \in 1 .. Len(sent) : sent[t] \in S
  OBVIOUS
<1> DEFINE back == CHOOSE f : Loop(f, Len(sent))
<1>5. Loop(back, Len(sent))
  <2> HIDE DEF Loop
  <2>1. \E f : Loop(f, Len(sent))
    BY <1>3, <1>4
  <2> QED
    BY <2>1
<1>6. back[0] = <<>> /\ \A t \in 1 .. Len(sent) :
        back[t] = IF t \in unacked THEN Append(back[t - 1], sent[t]) ELSE back[t - 1]
  <2> HIDE DEF back
  <2>1. back[0] = <<>>
    <3>1. 0 \in 0 .. Len(sent)
      BY <1>4
    <3> QED
      BY <1>5, <3>1
  <2>2. ASSUME NEW t \in 1 .. Len(sent)
        PROVE  back[t] = IF t \in unacked THEN Append(back[t - 1], sent[t]) ELSE back[t - 1]
    <3>1. t \in 0 .. Len(sent) /\ t # 0
      BY <1>4
    <3> QED
      BY <1>5, <3>1
  <2> QED
    BY <2>1, <2>2
<1> HIDE DEF back
<1>7. ASSUME NEW t \in 1 .. Len(sent), back[t - 1] \in Seq(S)
      PROVE  back[t] \in Seq(S)
  <2>1. sent[t] \in S
    BY <1>4
  <2>2. Append(back[t - 1], sent[t]) \in Seq(S)
    BY <1>7, <2>1
  <2> QED
    BY <1>6, <1>7, <2>2
<1>8. \A t \in 0 .. Len(sent) : back[t] \in Seq(S)
  <2>1. back[0] \in Seq(S)
    BY <1>6
  <2>2. \A t \in 1 .. Len(sent) : back[t - 1] \in Seq(S) => back[t] \in Seq(S)
    BY <1>7
  <2> DEFINE n == Len(sent)
             Good == Seq(S)
  <2>3. n \in Nat /\ back[0] \in Good /\ \A t \in 1 .. n : back[t - 1] \in Good => back[t] \in Good
    BY <1>4, <2>1, <2>2
  <2> HIDE DEF n, Good
  <2>4. \A t \in 0 .. n : back[t] \in Good
    BY <2>3, LoopInduction
  <2> QED
    BY <2>4 DEF n, Good
<1>9. back[Len(sent)] \in Seq(S)
  BY <1>4, <1>8
<1> QED
  BY <1>9 DEF Consumer!TakenBack, back

(* Types of what the listening thread, the broker and the game share; the  *)
(* tags the broker waits for are those of messages it sent.                *)
Written == 1 .. MaxMessages

Handed == {nothing} \cup [to : {0, 1}, item : Deliveries]

ConsumerTyped ==
  /\ readIndex \in {0, 1}
  /\ readQueues \in [{0, 1} -> Seq(Deliveries)]
  /\ listening \in [{listener} -> Handed]
  /\ ready \in Seq(Written) /\ sent \in Seq(Written) /\ socket \in Seq(Deliveries)
  /\ unacked \subseteq 1 .. Len(sent)
  /\ conn_ \in {"none", "open", "broken"} /\ connects \in Nat
  /\ holds \in {nothing} \cup Deliveries
  /\ reader \in {"top", "consume", "push", "ended"}
  /\ running \in {"waiting", "running", "stopping"}

(* What has arrived of a stream is a part of it.                           *)
LEMMA ArrivedIsSent ==
  ASSUME NEW S, NEW q \in Seq(S), NEW n \in 0 .. Len(q)
  PROVE  SubSeq(q, 1, n) \in Seq(S) /\ Range(SubSeq(q, 1, n)) \subseteq Range(q)
<1>1. /\ SubSeq(q, 1, n) \in Seq(S) /\ Len(SubSeq(q, 1, n)) = n
      /\ \A i \in 1 .. n : SubSeq(q, 1, n)[i] = q[i]
  OBVIOUS
<1>2. DOMAIN q = 1 .. Len(q) /\ DOMAIN SubSeq(q, 1, n) = 1 .. n
  BY <1>1
<1> QED
  BY <1>1, <1>2 DEF Range

(* The channel is gone, and with it all that was sent and has not arrived. *)
LEMMA ChannelGoneTyped ==
  ASSUME ConsumerTyped, Consumer!ChannelGone
  PROVE  /\ ready' \in Seq(Written) /\ sent' \in Seq(Written)
         /\ unacked' \subseteq 1 .. Len(sent')
         /\ conn_' = "broken"
         /\ socket' \in Seq(Deliveries) /\ Range(socket') \subseteq Range(socket)
<1>1. Consumer!TakenBack \in Seq(Written)
  BY TakenBackTyped DEF ConsumerTyped
<1>2. Consumer!TakenBack \o ready \in Seq(Written)
  BY <1>1 DEF ConsumerTyped
<1>3. <<>> \in Seq(Written)
  OBVIOUS
<1>4. PICK n \in 0 .. Len(socket) : socket' = SubSeq(socket, 1, n)
  BY DEF Consumer!ChannelGone
<1>5. socket' \in Seq(Deliveries) /\ Range(socket') \subseteq Range(socket)
  BY <1>4, ArrivedIsSent DEF ConsumerTyped
<1> QED
  BY <1>2, <1>3, <1>5 DEF Consumer!ChannelGone

LEMMA ConsumerIsTyped == Consumer!Spec => []ConsumerTyped
<1> USE DEF Handed
<1>1. Consumer!Init => ConsumerTyped
  <2> SUFFICES ASSUME Consumer!Init PROVE ConsumerTyped
    OBVIOUS
  <2>1. [i \in 1 .. MaxMessages |-> i] \in Seq(Written)
    BY ClientsAssumption DEF Written
  <2>2. <<>> \in Seq(Deliveries) /\ <<>> \in Seq(Written)
    OBVIOUS
  <2>3. /\ readIndex \in {0, 1} /\ readQueues \in [{0, 1} -> Seq(Deliveries)]
        /\ listening \in [{listener} -> Handed]
    BY <2>2 DEF Consumer!Init, Consumer!QueueInit
  <2> QED
    BY <2>1, <2>2, <2>3 DEF Consumer!Init, ConsumerTyped
<1>2. ConsumerTyped /\ [Consumer!Next]_Consumer!vars => ConsumerTyped'
  <2> SUFFICES ASSUME ConsumerTyped, [Consumer!Next]_Consumer!vars
               PROVE  ConsumerTyped'
    OBVIOUS
  <2> USE DEF ConsumerTyped, Consumer!brokerVars, Consumer!connVars, Consumer!queueVars, Consumer!gameVars
  <2>0. CASE UNCHANGED Consumer!vars
    BY <2>0 DEF Consumer!vars
  <2>1. CASE Consumer!StartRabbitMQClient
    BY <2>1 DEF Consumer!StartRabbitMQClient
  <2>2. CASE Consumer!Lose
    BY <2>2, ChannelGoneTyped DEF Consumer!Lose
  <2>3. CASE Consumer!Listen
    <3>1. /\ conn_' \in {"none", "open", "broken"} /\ connects' \in Nat /\ reader' = "consume"
          /\ socket' = <<>> \/ UNCHANGED socket
          /\ UNCHANGED <<ready, sent, unacked, readIndex, readQueues, listening, holds, running>>
      BY <2>3 DEF Consumer!Listen, Consumer!Reconnect, Consumer!Connect
    <3>2. <<>> \in Seq(Deliveries)
      OBVIOUS
    <3>3. socket' \in Seq(Deliveries)
      BY <3>1, <3>2
    <3> QED
      BY <3>1, <3>3
  <2>4. CASE Consumer!ConsumeMessage
    <3>1. socket # <<>> /\ socket' = Tail(socket)
      BY <2>4 DEF Consumer!ConsumeMessage
    <3>2. Head(socket) \in Deliveries /\ socket' \in Seq(Deliveries)
      BY <3>1, TailRange
    <3>3. listening' \in [{listener} -> Handed] /\ UNCHANGED <<readIndex, readQueues>>
      <4>1. PICK record : record = [to |-> (readIndex + 1) % 2, item |-> Head(socket)]
        OBVIOUS
      <4>2. listening' = [listening EXCEPT ![listener] = record] /\ UNCHANGED <<readIndex, readQueues>>
        BY <2>4, <4>1 DEF Consumer!ConsumeMessage, Consumer!BeginPush, Consumer!NextQueueIndex
      <4>3. (readIndex + 1) % 2 \in {0, 1}
        OBVIOUS
      <4>4. record \in Handed
        BY <3>2, <4>1, <4>3
      <4> QED
        BY <4>2, <4>4
    <3> QED
      BY <2>4, <3>2, <3>3 DEF Consumer!ConsumeMessage
  <2>13. CASE Consumer!Deliver
    <3>1. ready # <<>> /\ sent' = Append(sent, Head(ready)) /\ ready' = Tail(ready)
      BY <2>13 DEF Consumer!Deliver
    <3>2. Head(ready) \in Written /\ ready' \in Seq(Written)
      BY <3>1, TailRange
    <3>3. sent' \in Seq(Written) /\ Len(sent') = Len(sent) + 1 /\ Len(sent) \in Nat
      BY <3>1, <3>2
    <3>4. unacked' \subseteq 1 .. Len(sent')
      BY <2>13, <3>3 DEF Consumer!Deliver
    <3>5. PICK d : d = [message |-> Head(ready), delivery_tag |-> Len(sent'), of |-> connects]
      OBVIOUS
    <3>6. d \in Deliveries
      BY <3>2, <3>3, <3>5 DEF Deliveries, Written
    <3>7. socket' \in Seq(Deliveries)
      BY <2>13, <3>5, <3>6 DEF Consumer!Deliver
    <3> QED
      BY <2>13, <3>2, <3>3, <3>4, <3>7 DEF Consumer!Deliver
  <2>5. CASE Consumer!Pushed
    <3>1. /\ listening[listener] # nothing
          /\ readQueues' = [readQueues EXCEPT ![listening[listener].to] =
                              Append(@, listening[listener].item)]
          /\ listening' = [listening EXCEPT ![listener] = nothing]
          /\ UNCHANGED readIndex
      BY <2>5 DEF Consumer!Pushed, Consumer!EndPush
    <3>2. listening[listener].to \in {0, 1} /\ listening[listener].item \in Deliveries
      BY <3>1
    <3>3. readQueues' \in [{0, 1} -> Seq(Deliveries)] /\ listening' \in [{listener} -> Handed]
      BY <3>1, <3>2
    <3> QED
      BY <2>5, <3>1, <3>3 DEF Consumer!Pushed
  <2>6. CASE Consumer!ConsumeNothing
    BY <2>6 DEF Consumer!ConsumeNothing
  <2>7. CASE Consumer!ReadAny
    <3>1. PICK x : Consumer!Read(x)
      BY <2>7 DEF Consumer!ReadAny
    <3>2. /\ readQueues[readIndex] # <<>> /\ x = Head(readQueues[readIndex])
          /\ readQueues' = [readQueues EXCEPT ![readIndex] = Tail(@)]
          /\ UNCHANGED <<readIndex, listening>>
      BY <3>1 DEF Consumer!Read, Consumer!Pop, Consumer!Front
    <3>3. x \in Deliveries /\ readQueues' \in [{0, 1} -> Seq(Deliveries)]
      BY <3>2
    <3> QED
      BY <3>1, <3>2, <3>3 DEF Consumer!Read
  <2>8. CASE Consumer!ReadSwaps
    BY <2>8 DEF Consumer!ReadSwaps, Consumer!Swap, Consumer!NextQueueIndex
  <2>9. CASE Consumer!Ack
    BY <2>9, ChannelGoneTyped DEF Consumer!Ack, Consumer!Tell
  <2>10. CASE Consumer!Reject
    <3>1. CASE holds.delivery_tag \in unacked
      <4>1. Consumer!Told \in Written
        BY <3>1 DEF Consumer!Told
      <4>2. <<Consumer!Told>> \o ready \in Seq(Written)
        BY <4>1
      <4>3. /\ ready' = <<Consumer!Told>> \o ready \/ UNCHANGED ready
            /\ unacked' \subseteq unacked
            /\ holds' = nothing
            /\ UNCHANGED <<sent, socket, conn_, connects, readIndex, readQueues, listening, reader, running>>
        BY <2>10, <3>1 DEF Consumer!Reject, Consumer!Tell
      <4>4. ready' \in Seq(Written)
        BY <4>2, <4>3
      <4> QED
        BY <4>3, <4>4
    <3>2. CASE holds.delivery_tag \notin unacked
      BY <2>10, <3>2, ChannelGoneTyped DEF Consumer!Reject, Consumer!Tell
    <3> QED
      BY <3>1, <3>2
  <2>11. CASE Consumer!Stop
    BY <2>11 DEF Consumer!Stop
  <2>12. CASE Consumer!Joined
    BY <2>12 DEF Consumer!Joined
  <2> QED
    BY <2>0, <2>1, <2>2, <2>3, <2>4, <2>5, <2>6, <2>7, <2>8, <2>9, <2>10, <2>11, <2>12, <2>13
       DEF Consumer!Next
<1> QED
  BY <1>1, <1>2, PTL DEF Consumer!Spec

-----------------------------------------------------------------------------
(* While the listening thread lives and there is a connection, the name of *)
(* the queue is a copy of its own, unless this connection failed early;    *)
(* and without a connection nothing is stopped but early.                  *)
NameCopied ==
  /\ reader = "push" <=> listening[listener] # nothing
  /\ running = "waiting" => conn_ = "none"
  /\ running = "stopping" /\ conn_ = "none" => failedEarly
  /\ conn_ # "none" /\ reader # "ended" => readQueueRep_ = "good" \/ failedEarly
  /\ FreedOnce

(* The copied name of the queue is freed once, and what was never copied   *)
(* is not freed, however often the connection is lost and made again, in   *)
(* whatever way it failed earlier, unless the last connection failed       *)
(* before there was a copy, or Stop came before there was a connection.    *)
THEOREM QueueNameFreedOnce == Consumer!Spec => []FreedOnce
<1> USE DEF ConsumerTyped, NameCopied, FreedOnce, Consumer!FreedOnce, Handed
<1>1. Consumer!Init => NameCopied
  BY DEF Consumer!Init, Consumer!QueueInit
<1>2. ConsumerTyped /\ NameCopied /\ [Consumer!Next]_Consumer!vars => NameCopied'
  <2> SUFFICES ASSUME ConsumerTyped, NameCopied, [Consumer!Next]_Consumer!vars
               PROVE  NameCopied'
    OBVIOUS
  <2> USE DEF Consumer!brokerVars, Consumer!connVars, Consumer!queueVars, Consumer!gameVars
  <2>0. CASE UNCHANGED Consumer!vars
    BY <2>0 DEF Consumer!vars
  <2>1. CASE Consumer!StartRabbitMQClient
    BY <2>1 DEF Consumer!StartRabbitMQClient
  <2>2. CASE Consumer!Lose
    BY <2>2 DEF Consumer!Lose, Consumer!ChannelGone
  <2>3. CASE Consumer!Listen
    <3>1. /\ running = "running" /\ reader = "top" /\ ~corrupted /\ reader' = "consume"
          /\ UNCHANGED <<listening, running>>
      BY <2>3 DEF Consumer!Listen
    <3>2. CASE need_reconnect_
      <4>1. CASE conn_ # "none" /\ readQueueRep_ = "dangling"
        <5>1. failedEarly /\ UNCHANGED <<conn_, readQueueRep_, failedEarly>>
          BY <2>3, <3>1, <3>2, <4>1 DEF Consumer!Listen, Consumer!Reconnect
        <5> QED
          BY <3>1, <5>1
      <4>2. CASE ~(conn_ # "none" /\ readQueueRep_ = "dangling")
        <5>1. corrupted' = corrupted /\ (readQueueRep_' = "good" \/ failedEarly')
          BY <2>3, <3>2, <4>2 DEF Consumer!Listen, Consumer!Reconnect, Consumer!Connect
        <5> QED
          BY <3>1, <5>1
      <4> QED
        BY <4>1, <4>2
    <3>3. CASE ~need_reconnect_
      BY <2>3, <3>1, <3>3 DEF Consumer!Listen
    <3> QED
      BY <3>2, <3>3
  <2>4. CASE Consumer!ConsumeMessage
    <3>1. listening'[listener] # nothing
      <4>1. PICK record : record = [to |-> (readIndex + 1) % 2, item |-> Head(socket)]
        OBVIOUS
      <4>2. listening' = [listening EXCEPT ![listener] = record]
        BY <2>4, <4>1 DEF Consumer!ConsumeMessage, Consumer!BeginPush, Consumer!NextQueueIndex
      <4>3. (readIndex + 1) % 2 \in {0, 1}
        OBVIOUS
      <4>4. Head(socket) \in Deliveries
        BY <2>4, TailRange DEF Consumer!ConsumeMessage
      <4>5. record # nothing
        BY <4>1, <4>3, <4>4, ClientsAssumption
      <4> QED
        BY <4>2, <4>5
    <3> QED
      BY <2>4, <3>1 DEF Consumer!ConsumeMessage
  <2>12. CASE Consumer!Deliver
    BY <2>12 DEF Consumer!Deliver
  <2>5. CASE Consumer!Pushed
    BY <2>5 DEF Consumer!Pushed, Consumer!EndPush
  <2>6. CASE Consumer!ConsumeNothing
    BY <2>6 DEF Consumer!ConsumeNothing
  <2>7. CASE Consumer!ReadAny
    BY <2>7 DEF Consumer!ReadAny, Consumer!Read, Consumer!Pop
  <2>8. CASE Consumer!ReadSwaps
    BY <2>8 DEF Consumer!ReadSwaps, Consumer!Swap
  <2>9. CASE Consumer!Ack \/ Consumer!Reject
    BY <2>9 DEF Consumer!Ack, Consumer!Reject, Consumer!Tell, Consumer!ChannelGone
  <2>10. CASE Consumer!Stop
    <3>1. /\ running' = "stopping" /\ UNCHANGED <<conn_, readQueueRep_, reader, listening>>
          /\ corrupted' => running = "waiting"
          /\ failedEarly' <=> failedEarly \/ conn_ = "none"
      BY <2>10 DEF Consumer!Stop
    <3> QED
      BY <3>1
  <2>11. CASE Consumer!Joined
    <3>1. /\ running = "stopping" /\ reader = "top" /\ reader' = "ended"
          /\ corrupted' => conn_ = "none" \/ readQueueRep_ = "dangling"
          /\ UNCHANGED <<conn_, failedEarly, listening, running>>
      BY <2>11 DEF Consumer!Joined
    <3> QED
      BY <3>1
  <2> QED
    BY <2>0, <2>1, <2>2, <2>3, <2>4, <2>5, <2>6, <2>7, <2>8, <2>9, <2>10, <2>11, <2>12
       DEF Consumer!Next
<1>3. NameCopied => FreedOnce
  OBVIOUS
<1> QED
  BY <1>1, <1>2, <1>3, ConsumerIsTyped, PTL DEF Consumer!Spec

-----------------------------------------------------------------------------
(* Everything that is on its way to the game, or that the game holds.      *)
InHand ==
  Range(socket) \cup Range(readQueues[0]) \cup Range(readQueues[1])
    \cup {holds, IF listening[listener] = nothing THEN nothing ELSE listening[listener].item}

(* The tag of a delivery is that of its message, as long as its connection *)
(* is the one there is, and it is open; until the client is stopped.       *)
TagIsCurrent(x) ==
  /\ x.of <= connects
  /\ x.of = connects /\ conn_ = "open" /\ running # "stopping" =>
       x.delivery_tag \in 1 .. Len(sent) /\ sent[x.delivery_tag] = x.message

(* Every answer is accounted for.                                          *)
Accounted == AckedWasRead /\ \A s \in stale : s.of \in Nat

TagsKept ==
  /\ \A x \in InHand \ {nothing} : TagIsCurrent(x)
  /\ holds # nothing => holds.message \in read
  /\ Accounted

(* What is in hand and was before keeps its tag, or its connection is gone.*)
LEMMA TagsStay ==
  ASSUME ConsumerTyped, TagsKept, InHand' \subseteq InHand \cup {nothing},
         running = "stopping" => running' = "stopping",
         \/ UNCHANGED <<sent, connects>> /\ (conn_' = "open" => conn_ = "open")
         \/ UNCHANGED connects /\ (conn_' # "open" \/ running' = "stopping")
         \/ connects' = connects + 1
  PROVE  \A x \in InHand' \ {nothing} : TagIsCurrent(x)'
<1> SUFFICES ASSUME NEW x \in InHand \ {nothing}, TagIsCurrent(x)
             PROVE  TagIsCurrent(x)'
  BY DEF TagsKept
<1>1. x \in Deliveries
  BY DEF InHand, ConsumerTyped, Handed, Range
<1>2. x.of \in Nat /\ connects \in Nat
  BY <1>1 DEF Deliveries, ConsumerTyped
<1>3. CASE UNCHANGED <<sent, connects>> /\ (conn_' = "open" => conn_ = "open")
  BY <1>3 DEF TagIsCurrent
<1>4. CASE UNCHANGED connects /\ (conn_' # "open" \/ running' = "stopping")
  BY <1>4 DEF TagIsCurrent
<1>5. CASE connects' = connects + 1
  BY <1>2, <1>5 DEF TagIsCurrent
<1> QED
  BY <1>3, <1>4, <1>5

(* The game's answer adds nothing to what was acknowledged but what it has *)
(* read, or what has the tag of a delivery of an earlier connection.       *)
LEMMA AckAnswersRead ==
  ASSUME ConsumerTyped, TagsKept, Consumer!Ack
  PROVE  Accounted'
<1> USE DEF TagsKept, Accounted, AckedWasRead, Consumer!AckedWasRead
<1>1. holds # nothing /\ running = "running" /\ UNCHANGED <<read, connects>>
  BY DEF Consumer!Ack, Consumer!Tell
<1>2. CASE UNCHANGED <<done, stale>>
  BY <1>1, <1>2
<1>3. CASE /\ conn_ = "open"
           /\ done' = done \cup {Consumer!Told}
           /\ stale' = IF Consumer!Told = holds.message THEN stale
                       ELSE stale \cup {[acked |-> Consumer!Told, of |-> holds.of]}
  <2>1. TagIsCurrent(holds) /\ holds.message \in read /\ holds \in Deliveries
    BY <1>1 DEF InHand, ConsumerTyped
  <2>2. CASE Consumer!Told = holds.message
    BY <1>1, <1>3, <2>1, <2>2
  <2>3. CASE Consumer!Told # holds.message
    <3>1. holds.of # connects /\ holds.of <= connects /\ holds.of \in Nat /\ connects \in Nat
      BY <1>1, <1>3, <2>1, <2>3 DEF TagIsCurrent, Consumer!Told, Deliveries, ConsumerTyped
    <3>2. PICK record : record = [acked |-> Consumer!Told, of |-> holds.of]
      OBVIOUS
    <3>3. record.acked = Consumer!Told /\ record.of < connects /\ record.of \in Nat
      BY <3>1, <3>2
    <3>4. stale' = stale \cup {record}
      BY <1>3, <2>3, <3>2
    <3> QED
      BY <1>1, <1>3, <3>3, <3>4
  <2> QED
    BY <2>2, <2>3
<1> QED
  BY <1>2, <1>3 DEF Consumer!Ack, Consumer!Tell, Consumer!brokerVars

(* The broker gives up no message that the game has not read, unless the   *)
(* game acknowledged one of an earlier connection, which had the same tag. *)
THEOREM AcknowledgedWasRead == Consumer!Spec => []AckedWasRead
<1>1. Consumer!Init => TagsKept
  <2> SUFFICES ASSUME Consumer!Init PROVE TagsKept
    OBVIOUS
  <2>1. Range(readQueues[0]) = {} /\ Range(readQueues[1]) = {} /\ Range(socket) = {}
    BY DEF Consumer!Init, Consumer!QueueInit, Range
  <2>2. listening[listener] = nothing /\ holds = nothing /\ done = {} /\ stale = {}
    BY DEF Consumer!Init, Consumer!QueueInit
  <2> QED
    BY <2>1, <2>2 DEF TagsKept, InHand, Accounted, AckedWasRead, Consumer!AckedWasRead
<1>2. ConsumerTyped /\ TagsKept /\ [Consumer!Next]_Consumer!vars => TagsKept'
  <2> SUFFICES ASSUME ConsumerTyped, TagsKept, [Consumer!Next]_Consumer!vars
               PROVE  TagsKept'
    OBVIOUS
  <2> USE DEF Consumer!brokerVars, Consumer!connVars, Consumer!queueVars, Consumer!gameVars
  <2> DEFINE Answered == holds' = nothing \/ UNCHANGED <<holds, read>>
             Stays == /\ running = "stopping" => running' = "stopping"
                      /\ \/ UNCHANGED <<sent, connects>> /\ (conn_' = "open" => conn_ = "open")
                         \/ UNCHANGED connects /\ (conn_' # "open" \/ running' = "stopping")
                         \/ connects' = connects + 1
  <2>a. ASSUME Stays, InHand' \subseteq InHand \cup {nothing}, Answered, Accounted'
        PROVE  TagsKept'
    <3>1. holds' # nothing => holds'.message \in read'
      BY <2>a DEF TagsKept
    <3> QED
      BY <2>a, <3>1, TagsStay DEF TagsKept
  <2>c. ASSUME connects' \in {connects, connects + 1}, UNCHANGED <<done, stale>>, read \subseteq read'
        PROVE  Accounted'
    <3> SUFFICES ASSUME NEW x \in done' \ read'
                 PROVE  \E s \in stale' : s.acked = x /\ s.of < connects'
      BY <2>c DEF TagsKept, Accounted, AckedWasRead, Consumer!AckedWasRead
    <3>1. PICK s \in stale : s.acked = x /\ s.of < connects /\ s.of \in Nat
      BY <2>c DEF TagsKept, Accounted, AckedWasRead, Consumer!AckedWasRead
    <3> QED
      BY <2>c, <3>1 DEF ConsumerTyped
  <2>b. ASSUME Stays, UNCHANGED <<readQueues, listening, read, done, stale>>,
               holds' \in {holds, nothing}, Range(socket') \subseteq Range(socket),
               connects' \in {connects, connects + 1}
        PROVE  TagsKept'
    <3>1. InHand' \subseteq InHand \cup {nothing}
      BY <2>b DEF InHand
    <3>2. Accounted'
      BY <2>b, <2>c
    <3> QED
      BY <2>a, <2>b, <3>1, <3>2
  <2>0. CASE UNCHANGED Consumer!vars
    BY <2>0, <2>b DEF Consumer!vars
  <2>1. CASE Consumer!StartRabbitMQClient
    BY <2>1, <2>b DEF Consumer!StartRabbitMQClient
  <2>2. CASE Consumer!Lose
    <3>1. conn_' = "broken" /\ Range(socket') \subseteq Range(socket)
      BY <2>2, ChannelGoneTyped DEF Consumer!Lose
    <3> QED
      BY <2>2, <2>b, <3>1 DEF Consumer!Lose
  <2>3. CASE Consumer!Listen
    <3>1. CASE need_reconnect_
      <4>1. connects' = connects + 1 /\ Range(socket') = {}
        BY <2>3, <3>1 DEF Consumer!Listen, Consumer!Reconnect, Range
      <4> QED
        BY <2>3, <2>b, <4>1 DEF Consumer!Listen
    <3>2. CASE ~need_reconnect_
      BY <2>3, <2>b, <3>2 DEF Consumer!Listen
    <3> QED
      BY <3>1, <3>2
  <2>12. CASE Consumer!Deliver
    <3>1. PICK d : d = [message |-> Head(ready), delivery_tag |-> Len(sent'), of |-> connects]
      OBVIOUS
    <3>2. /\ ready # <<>> /\ sent' = Append(sent, Head(ready)) /\ socket' = Append(socket, d)
          /\ UNCHANGED <<readQueues, listening, connects, conn_, holds, read, done, stale, running>>
      BY <2>12, <3>1 DEF Consumer!Deliver
    <3>3. Head(ready) \in Written
      BY <3>2, TailRange DEF ConsumerTyped
    <3>4. /\ sent \in Seq(Written) /\ Len(sent) \in Nat /\ Len(sent') = Len(sent) + 1
          /\ sent'[Len(sent')] = Head(ready)
          /\ \A t \in 1 .. Len(sent) : t \in 1 .. Len(sent') /\ sent'[t] = sent[t]
      BY <3>2, <3>3 DEF ConsumerTyped
    <3>5. TagIsCurrent(d)'
      <4>1. /\ d.message = Head(ready) /\ d.delivery_tag = Len(sent') /\ d.of = connects
            /\ connects \in Nat
        BY <3>1 DEF ConsumerTyped
      <4>2. Len(sent') \in 1 .. Len(sent') /\ connects' = connects
        BY <3>2, <3>4
      <4> QED
        BY <3>4, <4>1, <4>2 DEF TagIsCurrent
    <3>6. d \in Deliveries
      BY <3>1, <3>3, <3>4 DEF Deliveries, Written, ConsumerTyped
    <3>7. Range(socket') \subseteq Range(socket) \cup {d}
      BY <3>2, <3>6, AppendElements DEF ConsumerTyped
    <3>8. InHand' \subseteq InHand \cup {d}
      BY <3>2, <3>7 DEF InHand
    <3>9. ASSUME NEW x \in InHand \ {nothing}
          PROVE  TagIsCurrent(x)'
      BY <3>2, <3>4 DEF TagsKept, TagIsCurrent
    <3>10. \A x \in InHand' \ {nothing} : TagIsCurrent(x)'
      BY <3>5, <3>8, <3>9
    <3>11. Accounted' /\ (holds' # nothing => holds'.message \in read')
      BY <2>c, <3>2 DEF TagsKept
    <3> QED
      BY <3>10, <3>11 DEF TagsKept
  <2>4. CASE Consumer!ConsumeMessage
    <3>1. PICK record : record = [to |-> (readIndex + 1) % 2, item |-> Head(socket)]
      OBVIOUS
    <3>2. /\ socket # <<>> /\ socket' = Tail(socket)
          /\ listening' = [listening EXCEPT ![listener] = record]
          /\ UNCHANGED <<readQueues, sent, connects, conn_, holds, read, done, stale, running>>
      BY <2>4, <3>1 DEF Consumer!ConsumeMessage, Consumer!BeginPush, Consumer!NextQueueIndex
    <3>3. Head(socket) \in Range(socket) /\ Range(socket') \subseteq Range(socket)
      BY <3>2, TailRange DEF ConsumerTyped
    <3>4. record.item \in InHand
      BY <3>1, <3>3 DEF InHand
    <3>5. listening'[listener] = record
      BY <3>2 DEF ConsumerTyped
    <3>6. InHand' \subseteq InHand \cup {nothing}
      BY <3>2, <3>3, <3>4, <3>5 DEF InHand
    <3>7. Accounted'
      BY <2>c, <3>2
    <3> QED
      BY <2>a, <3>2, <3>6, <3>7
  <2>5. CASE Consumer!Pushed
    <3>1. /\ listening[listener] # nothing
          /\ readQueues' = [readQueues EXCEPT ![listening[listener].to] =
                              Append(@, listening[listener].item)]
          /\ listening' = [listening EXCEPT ![listener] = nothing]
          /\ UNCHANGED <<socket, sent, connects, conn_, holds, read, done, stale, running>>
      BY <2>5 DEF Consumer!Pushed, Consumer!EndPush
    <3>2. listening[listener].to \in {0, 1} /\ listening[listener].item \in Deliveries
      BY <3>1 DEF ConsumerTyped, Handed
    <3>3. \A i \in {0, 1} : Range(readQueues'[i]) \subseteq
             Range(readQueues[i]) \cup {listening[listener].item}
      BY <3>1, <3>2, AppendElements DEF ConsumerTyped
    <3>4. InHand' \subseteq InHand \cup {nothing}
      BY <3>1, <3>3 DEF InHand, ConsumerTyped
    <3>5. Accounted'
      BY <2>c, <3>1
    <3> QED
      BY <2>a, <3>1, <3>4, <3>5
  <2>6. CASE Consumer!ConsumeNothing
    BY <2>6, <2>b DEF Consumer!ConsumeNothing
  <2>7. CASE Consumer!ReadAny
    <3>1. PICK x : Consumer!Read(x)
      BY <2>7 DEF Consumer!ReadAny
    <3>2. /\ readQueues[readIndex] # <<>> /\ x = Head(readQueues[readIndex])
          /\ readQueues' = [readQueues EXCEPT ![readIndex] = Tail(@)]
          /\ holds' = x /\ read' = read \cup {x.message}
          /\ UNCHANGED <<socket, sent, connects, conn_, listening, done, stale, running>>
      BY <3>1 DEF Consumer!Read, Consumer!Pop, Consumer!Front
    <3>3. x \in Range(readQueues[readIndex])
      BY <3>2, TailRange DEF ConsumerTyped
    <3>4. \A i \in {0, 1} : Range(readQueues'[i]) \subseteq Range(readQueues[i])
      BY <3>2, TailRange DEF ConsumerTyped
    <3>5. InHand' \subseteq InHand \cup {nothing}
      BY <3>2, <3>3, <3>4 DEF InHand, ConsumerTyped
    <3>6. Accounted'
      BY <2>c, <3>2
    <3>7. \A y \in InHand' \ {nothing} : TagIsCurrent(y)'
      BY <3>2, <3>5, TagsStay
    <3> QED
      BY <3>2, <3>6, <3>7 DEF TagsKept
  <2>8. CASE Consumer!ReadSwaps
    BY <2>8, <2>b DEF Consumer!ReadSwaps, Consumer!Swap
  <2>9. ASSUME Consumer!Ack \/ Consumer!Reject
        PROVE  TagsKept'
    <3>1. /\ holds' = nothing /\ UNCHANGED <<readQueues, listening, read, connects, running>>
          /\ \/ UNCHANGED <<sent, conn_, socket>>
             \/ conn_' = "broken" /\ Range(socket') \subseteq Range(socket)
      BY <2>9, ChannelGoneTyped DEF Consumer!Ack, Consumer!Reject, Consumer!Tell
    <3>2. InHand' \subseteq InHand \cup {nothing}
      BY <3>1 DEF InHand
    <3>3. Consumer!Reject => UNCHANGED <<done, stale>>
      BY DEF Consumer!Reject, Consumer!Tell
    <3>4. Accounted'
      BY <2>9, <2>c, <3>1, <3>3, AckAnswersRead
    <3> QED
      BY <2>a, <3>1, <3>2, <3>4
  <2>10. CASE Consumer!Stop
    <3>1. Range(socket') = {}
      BY <2>10 DEF Consumer!Stop, Range
    <3>2. readQueues' = [i \in {0, 1} |-> <<>>] /\ Range(readQueues'[0]) = {} /\ Range(readQueues'[1]) = {}
      BY <2>10 DEF Consumer!Stop, Range
    <3>3. holds' = nothing /\ UNCHANGED <<listening, read, done, stale, connects>> /\ running' = "stopping"
      BY <2>10 DEF Consumer!Stop
    <3>4. InHand' \subseteq InHand \cup {nothing}
      BY <3>1, <3>2, <3>3 DEF InHand
    <3>5. Accounted'
      BY <2>c, <3>3
    <3> QED
      BY <2>a, <3>3, <3>4, <3>5
  <2>11. CASE Consumer!Joined
    BY <2>11, <2>b DEF Consumer!Joined
  <2> QED
    BY <2>0, <2>1, <2>2, <2>3, <2>4, <2>5, <2>6, <2>7, <2>8, <2>9, <2>10, <2>11, <2>12
       DEF Consumer!Next
<1>3. TagsKept => AckedWasRead
  BY DEF TagsKept, Accounted
<1> QED
  BY <1>1, <1>2, <1>3, ConsumerIsTyped, PTL DEF Consumer!Spec
=============================================================================
