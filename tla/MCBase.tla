------------------------------- MODULE MCBase --------------------------------
(***************************************************************************)
(* The two pieces of framework/base that threads share, for TLC: the queue *)
(* with its users, and the pool of threads.  They share nothing, and part  *)
(* says whose behaviour this is; the other stays as it begins.  The        *)
(* properties of the queue are DoubleBufferUse's own.                      *)
(***************************************************************************)
EXTENDS DoubleBufferUse

CONSTANTS MaxPoolSize, Tasks, null

VARIABLES
  part,
  phase, main, adding, runnables_, runnable_, isRunning_, thread_, pc, ran, missed

(* There is at least one thread: the owner asks for ten.                   *)
ASSUME PoolAssumption == MaxPoolSize \in Nat \ {0} /\ null \notin Tasks

Pool == INSTANCE ThreadPool

poolVars == <<phase, main, adding, runnables_, runnable_, isRunning_, thread_, pc, ran, missed>>
baseVars == <<part, vars, poolVars>>

BaseInit ==
  /\ part \in {"queue", "pool"}
  /\ Init
  /\ Pool!Init

BaseNext ==
  /\ UNCHANGED part
  /\ \/ part = "queue" /\ Next /\ UNCHANGED poolVars
     \/ part = "pool" /\ Pool!Next /\ UNCHANGED vars

(* The fairness of each part, which it owes when it is the one that moves. *)
QueueFairness ==
  /\ \A p \in Producers : WF_vars(part = "queue" /\ FinishPush(p))
  /\ WF_vars(part = "queue" /\ StartDrain) /\ WF_vars(part = "queue" /\ EndDrain)
  /\ WF_vars(part = "queue" /\ \E x \in Items : Receive(x))

PoolFairness ==
  /\ \A w \in 1 .. MaxPoolSize :
       WF_poolVars(part = "pool" /\ Pool!Owner(w)) /\ WF_poolVars(part = "pool" /\ Pool!Thread(w))
  /\ WF_poolVars(part = "pool" /\ Pool!Update)

BaseSpec == BaseInit /\ [][BaseNext]_baseVars /\ QueueFairness /\ PoolFairness

-----------------------------------------------------------------------------
(* Of the pool (thread_pool.cpp:48-123, worker.cpp:17-70).                 *)
SleepsOnlyIfMissed == Pool!SleepsOnlyIfMissed
TasksRunOnce == Pool!TasksRunOnce
TasksRun == Pool!TasksRun
StopReturns == Pool!StopReturns
=============================================================================
