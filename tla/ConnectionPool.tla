--------------------------- MODULE ConnectionPool ---------------------------
(***************************************************************************)
(* The connection pools of MySqlDatabase and RedisManager, which are the   *)
(* same code but for the order of three lines: MySQL looks at the limit    *)
(* under the mutex, Redis before it takes it.  Any thread may take a       *)
(* connection and give it back.                                            *)
(*                                                                         *)
(* Taking tries as many connections as there were when it began, each      *)
(* time the one at ++pool_index_, and looks at is_free_ and clears it      *)
(* without a lock.  When it finds none it connects a new one, and when     *)
(* this fails it begins again.  The counter counts modulo Period, a        *)
(* multiple of every number of connections.                                *)
(***************************************************************************)
EXTENDS Integers

CONSTANTS
  Users,  \* the threads that use the pool
  Max,    \* max_connection_count_, maxConnections_
  Period  \* the bound of pool_index_

ASSUME PoolAssumption ==
  Max \in Nat \ {0} /\ Period \in Nat \ {0} /\ \A n \in 1 .. Max : Period % n = 0

VARIABLES
  isRedis,     \* whether this is Redis' pool
  count,       \* connectionCount_, countConnections_
  pool_index_,
  is_free_,    \* of each place of the array
  pc,          \* where each user is
  tries,       \* its maxRetryCount
  conn,        \* the place it tries or has, -1 before the first
  raced,       \* history: connections that another user took between look and claim
  overflow     \* a connection was stored past the end of the arrays

vars == <<isRedis, count, pool_index_, is_free_, pc, tries, conn, raced, overflow>>

Conns == 0 .. Max - 1

(* Connecting the default number of connections may fail at any of them,   *)
(* and nobody looks at the result.                                         *)
Init ==
  /\ isRedis \in BOOLEAN
  /\ count \in 0 .. Max
  /\ pool_index_ = IF isRedis THEN 0 ELSE Period - 1
  /\ is_free_ = [i \in Conns |-> i < count]
  /\ pc = [u \in Users |-> "out"]
  /\ tries = [u \in Users |-> 0]
  /\ conn = [u \in Users |-> -1]
  /\ raced = {}
  /\ overflow = FALSE

Go(u, from, to) ==
  /\ pc[u] = from /\ ~overflow
  /\ pc' = [pc EXCEPT ![u] = to]
  /\ UNCHANGED isRedis

GetConnection(u) ==
  /\ Go(u, "out", "scan")
  /\ tries' = [tries EXCEPT ![u] = count]
  /\ UNCHANGED <<count, pool_index_, is_free_, conn, raced, overflow>>

Probe(u) ==
  /\ tries[u] > 0
  /\ Go(u, "scan", "look")
  /\ tries' = [tries EXCEPT ![u] = @ - 1]
  /\ pool_index_' = (pool_index_ + 1) % Period
  /\ conn' = [conn EXCEPT ![u] = pool_index_' % count]
  /\ UNCHANGED <<count, is_free_, raced, overflow>>

Look(u) ==
  /\ Go(u, "look", IF is_free_[conn[u]] THEN "found" ELSE "scan")
  /\ UNCHANGED <<count, pool_index_, is_free_, tries, conn, raced, overflow>>

(* A mistake to be caught: the connection stays free.                      *)
ClaimOnly(u) ==
  /\ Go(u, "found", "using")
  /\ UNCHANGED <<count, pool_index_, is_free_, tries, conn, raced, overflow>>

(* Another may have claimed it since the look, or have just connected it.  *)
Claim(u) ==
  /\ Go(u, "found", "using")
  /\ is_free_' = [is_free_ EXCEPT ![conn[u]] = FALSE]
  /\ raced' = IF ~is_free_[conn[u]] \/ \E v \in Users : conn[v] = conn[u] /\ pc[v] = "mark"
              THEN raced \cup {conn[u]} ELSE raced
  /\ UNCHANGED <<count, pool_index_, tries, conn, overflow>>

(* Nothing was found.  Redis' pool looks at its limit now.                 *)
FindNone(u) ==
  /\ tries[u] = 0
  /\ Go(u, "scan", IF isRedis /\ count >= Max THEN "out" ELSE "connect")
  /\ UNCHANGED <<count, pool_index_, is_free_, tries, conn, raced, overflow>>

(* Connecting takes the mutex, and nobody sees what is done under it before*)
(* the count, which is done last.                                          *)
Fail(u) ==
  /\ Go(u, "connect", "out")
  /\ UNCHANGED <<count, pool_index_, is_free_, tries, conn, raced, overflow>>

(* A mistake to be caught: the new place is not the user's.                *)
AddOnly(u) ==
  /\ isRedis \/ count < Max
  /\ Go(u, "connect", "out")
  /\ IF count < Max
     THEN count' = count + 1 /\ UNCHANGED overflow
     ELSE overflow' = TRUE /\ UNCHANGED count
  /\ UNCHANGED <<pool_index_, is_free_, tries, conn, raced>>

AddConnection(u) ==
  /\ isRedis \/ count < Max
  /\ Go(u, "connect", "mark")
  /\ IF count < Max
     THEN /\ is_free_' = [is_free_ EXCEPT ![count] = TRUE]
          /\ count' = count + 1
          /\ conn' = [conn EXCEPT ![u] = count]
          /\ UNCHANGED overflow
     ELSE overflow' = TRUE /\ UNCHANGED <<is_free_, count, conn>>
  /\ UNCHANGED <<pool_index_, tries, raced>>

Mark(u) ==
  /\ Go(u, "mark", "using")
  /\ is_free_' = [is_free_ EXCEPT ![conn[u]] = FALSE]
  /\ UNCHANGED <<count, pool_index_, tries, conn, raced, overflow>>

PutConnection(u) ==
  /\ Go(u, "using", "out")
  /\ is_free_' = [is_free_ EXCEPT ![conn[u]] = TRUE]
  /\ UNCHANGED <<count, pool_index_, tries, conn, raced, overflow>>

(* Between two tries of GetConnection a user is out, as one who wants none.*)
Seek(u) == Probe(u) \/ Look(u) \/ Claim(u) \/ FindNone(u) \/ Mark(u)

Next == \E u \in Users :
  GetConnection(u) \/ Seek(u) \/ Fail(u) \/ AddConnection(u) \/ PutConnection(u)

Spec == Init /\ [][Next]_vars

-----------------------------------------------------------------------------
(* Two users have the same connection only if one took it between the      *)
(* other's look at is_free_ and its claim, or before the one who connected *)
(* it had marked it (mysql_database.cpp:95-96,106-115,                     *)
(* redis_manager.cpp:398-399,407-410).                                     *)
SharedOnlyIfRaced ==
  \A u, v \in Users :
    pc[u] = "using" /\ pc[v] = "using" /\ conn[u] = conn[v] => u = v \/ conn[u] \in raced

(* For all these races no connection is lost to the pool: one that is not  *)
(* free is in somebody's hands.  And MySQL's never exceeds its limit.      *)
NoneLost ==
  /\ \A i \in 0 .. count - 1 : is_free_[i] \/ \E u \in Users : conn[u] = i /\ pc[u] = "using"
  /\ overflow => isRedis

=============================================================================
