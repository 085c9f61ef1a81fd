---------------------------- MODULE RedisClient -----------------------------
(***************************************************************************)
(* Redis, a connection of the pool, in the hands of one thread: commands   *)
(* that are answered at once, and commands in a pipeline whose replies are *)
(* fetched later.  The server answers in order; pending_reply_count_ is    *)
(* what the object knows of the replies that are still to come, and the    *)
(* pipeline asks for one only if there is.                                 *)
(*                                                                         *)
(* A connection may break at any call, and connecting may fail.  redis is  *)
(* the pair of c_, which is up or has an error, with the number of replies *)
(* the server still owes, and the count.  A command that hiredis cannot    *)
(* format is an error of the connection.                                   *)
(***************************************************************************)
EXTENDS Integers

CONSTANT MaxPipeline  \* bound: replies that are waited for

VARIABLES
  redis,     \* [up, owed, pending_reply_count_]
  waiting,   \* a call waits for a reply that nobody will send
  uncounted  \* history: GetReply was called since the connection was made

vars == <<redis, waiting, uncounted>>

Connected == [up |-> TRUE, owed |-> 0, pending_reply_count_ |-> 0]
Failed == [up |-> FALSE, owed |-> 0, pending_reply_count_ |-> 0]

(* A mistake to be caught: the count outlives the connection.              *)
ReConnectCounting(k) ==
  {[Connected EXCEPT !.pending_reply_count_ = k.pending_reply_count_], Failed}

ReConnect(k) == {Connected, Failed}

Broken(k) == [k EXCEPT !.up = FALSE]

(* Ensure: an error is followed by one attempt to connect again.           *)
Ensure(k) == IF k.up THEN {k} ELSE ReConnect(k)

Become(k) ==
  /\ redis' = k
  /\ uncounted' = (uncounted /\ k \notin {Connected, Failed})

Init ==
  /\ redis = Connected
  /\ waiting = FALSE
  /\ uncounted = FALSE

(* redisCommand appends the command and takes the next reply, its own if   *)
(* none was owed.  When that breaks the command is sent again, once, on a  *)
(* new connection.                                                         *)
ExecuteCommand ==
  /\ ~waiting
  /\ \E k \in Ensure(redis) :
       IF ~k.up THEN Become(k)
       ELSE \/ Become(k)
            \/ \E r \in ReConnect(k) : Become(r) \/ Become(Broken(r))
  /\ UNCHANGED waiting

ExecuteCommandInPipeline ==
  /\ ~waiting
  /\ \E k \in Ensure(redis) :
       IF ~k.up THEN Become(k)
       ELSE /\ k.pending_reply_count_ < MaxPipeline
            /\ Become([k EXCEPT !.owed = @ + 1, !.pending_reply_count_ = @ + 1])
  /\ UNCHANGED waiting

(* The command cannot be appended.  It is tried once more on a new         *)
(* connection, from a list of arguments that the first try has used up:    *)
(* this may append anything.  Otherwise the count is one when              *)
(* GetReplyInPipeline finds the error.                                     *)
ExecuteCommandRefused ==
  /\ ~waiting
  /\ \E k \in Ensure(redis) :
       IF ~k.up THEN Become(k)
       ELSE \E r \in ReConnect(k) :
              \/ r.up /\ Become([r EXCEPT !.owed = 1, !.pending_reply_count_ = @ + 1])
              \/ \E s \in ReConnect([r EXCEPT !.pending_reply_count_ = @ + 1]) : Become(s)
  /\ UNCHANGED waiting

(* redisGetReply waits for ever when nothing is owed.                      *)
RedisGetReply(k) ==
  \/ k.owed > 0 /\ redis' = [k EXCEPT !.owed = @ - 1] /\ UNCHANGED waiting
  \/ k.owed = 0 /\ redis' = k /\ waiting' = TRUE
  \/ redis' = Broken(k) /\ UNCHANGED waiting

GetReplyInPipeline ==
  /\ ~waiting
  /\ \/ /\ ~redis.up
        /\ \E k \in ReConnect(redis) : Become(k)
        /\ UNCHANGED waiting
     \/ /\ redis.up /\ redis.pending_reply_count_ > 0
        /\ RedisGetReply([redis EXCEPT !.pending_reply_count_ = @ - 1])
        /\ UNCHANGED uncounted

GetReply ==
  /\ ~waiting
  /\ \/ /\ ~redis.up
        /\ \E k \in ReConnect(redis) : Become(k)
        /\ UNCHANGED waiting
     \/ /\ redis.up
        /\ RedisGetReply(redis)
        /\ uncounted' = TRUE

Next ==
  ExecuteCommand \/ ExecuteCommandInPipeline \/ ExecuteCommandRefused \/ GetReplyInPipeline \/ GetReply

Spec == Init /\ [][Next]_vars

-----------------------------------------------------------------------------
(* A pipeline never waits for a reply that will not come, whatever broke   *)
(* before and was connected again, unless GetReply was called, which does  *)
(* not count, and waits itself when nothing is owed                        *)
(* (redis_manager.cpp:44,160-255).                                         *)
NeverWaitsInVain == waiting => uncounted
=============================================================================
