----------------------------- MODULE ThreadPool ------------------------------
(***************************************************************************)
(* ThreadPool and Worker: tasks are queued, the pool's owner hands them to *)
(* free workers in Update, and each worker runs what it is handed in a     *)
(* thread of its own.  The owner is the thread that calls Start, Update,   *)
(* Stop and the destructor; anybody may call AddWork.                      *)
(*                                                                         *)
(* A worker looks at runnable_ without its mutex, and only then locks it   *)
(* and waits, with no condition: what is notified in between wakes nobody. *)
(* A wait may also end by itself.  Of its mutex nothing else shows, since  *)
(* what it protects is one store.                                          *)
(***************************************************************************)
EXTENDS Integers, Sequences, Functions

CONSTANTS
  MaxPoolSize, \* max_pool_size_, one or more
  Tasks,       \* the Runnables
  null         \* no task

VARIABLES
  phase,      \* what the owner called last: "init", "run", "stop" or "end"
  main,       \* the step the owner is at, and the worker it is about
  adding,     \* tasks for which AddWork was not called
  runnables_, \* the tasks queued
  runnable_,  \* of each worker: its task,
  isRunning_, \* whether it goes on,
  thread_,    \* whether it has a thread that was not joined,
  pc,         \* and where this thread is
  ran,        \* history: the tasks run, in the order their runs ended,
  missed      \* and the workers whose last notification came before the wait

threadVars == <<runnable_, isRunning_, thread_, pc, ran>>
vars == <<phase, main, adding, runnables_, threadVars, missed>>

Workers == 1 .. MaxPoolSize
Idle == [at |-> "idle", w |-> 0]
At(step, w) == main = [at |-> step, w |-> w]
Goto(step, w) == main' = [at |-> step, w |-> w]

Init ==
  /\ phase = "init"
  /\ main = Idle
  /\ adding = Tasks
  /\ runnables_ = <<>>
  /\ runnable_ = [w \in Workers |-> null]
  /\ isRunning_ = [w \in Workers |-> FALSE]
  /\ thread_ = [w \in Workers |-> FALSE]
  /\ pc = [w \in Workers |-> "off"]
  /\ ran = <<>>
  /\ missed = {}

-----------------------------------------------------------------------------
(* The owner.  It holds the pool's mutex unless it is idle.                *)

AddWork(t) ==
  /\ t \in adding /\ main = Idle /\ phase # "end"
  /\ adding' = adding \ {t}
  /\ runnables_' = Append(runnables_, t)
  /\ UNCHANGED <<phase, main, threadVars, missed>>

Start ==
  /\ phase = "init"
  /\ phase' = "run"
  /\ thread_' = [w \in Workers |-> TRUE]
  /\ pc' = [w \in Workers |-> "begin"]
  /\ UNCHANGED <<main, adding, runnables_, runnable_, isRunning_, ran, missed>>

(* Update, Stop and the destructor begin at the first worker.              *)
Enter(from, to, step) ==
  /\ phase = from /\ main = Idle
  /\ phase' = to
  /\ Goto(step, 1)
  /\ UNCHANGED <<adding, runnables_, threadVars, missed>>

Update == Enter("run", "run", "look")
Stop == Enter("run", "stop", "visit")
Destroy == Enter("run", "end", "visit") \/ Enter("stop", "end", "visit")

Advance(step, w) == main' = IF w < MaxPoolSize THEN [at |-> step, w |-> w + 1] ELSE Idle

(* Mistakes to be caught: the worker is handed its task without a word, or *)
(* one that runs its task counts as free.                                  *)
HandQuietly(w) ==
  /\ At("look", w) /\ runnables_ # <<>>
  /\ runnable_[w] = null
  /\ runnable_' = [runnable_ EXCEPT ![w] = Head(runnables_)]
  /\ runnables_' = Tail(runnables_)
  /\ Advance("look", w)
  /\ UNCHANGED <<phase, adding, isRunning_, thread_, pc, ran, missed>>

HandBusy(w) ==
  /\ At("look", w) /\ runnables_ # <<>>
  /\ runnable_[w] = null \/ pc[w] = "run"
  /\ runnable_' = [runnable_ EXCEPT ![w] = Head(runnables_)]
  /\ runnables_' = Tail(runnables_)
  /\ Goto("notify", w)
  /\ UNCHANGED <<phase, adding, isRunning_, thread_, pc, ran, missed>>

Hand(w) ==
  /\ At("look", w) /\ runnables_ # <<>>
  /\ runnable_[w] = null
  /\ runnable_' = [runnable_ EXCEPT ![w] = Head(runnables_)]
  /\ runnables_' = Tail(runnables_)
  /\ Goto("notify", w)
  /\ UNCHANGED <<phase, adding, isRunning_, thread_, pc, ran, missed>>

PassBy(w) ==
  /\ At("look", w)
  /\ \/ runnable_[w] = null /\ runnables_ = <<>> /\ main' = Idle
     \/ runnable_[w] # null /\ Advance("look", w)
  /\ UNCHANGED <<phase, adding, runnables_, threadVars, missed>>

(* The thread looks no more at what it was told before it waits.           *)
AboutToWait(w) == pc[w] = "found null" \/ (pc[w] = "load" /\ runnable_[w] = null)

(* cv_.notify_one() wakes a thread that waits, and no other.               *)
Notify(w) ==
  /\ pc' = IF pc[w] = "waiting" THEN [pc EXCEPT ![w] = "test"] ELSE pc
  /\ missed' = IF AboutToWait(w) THEN missed \cup {w} ELSE missed \ {w}

(* Start has created the thread.                                           *)
NotifyHanded(w) ==
  /\ At("notify", w)
  /\ Notify(w)
  /\ Advance("look", w)
  /\ UNCHANGED <<phase, adding, runnables_, runnable_, isRunning_, thread_, ran>>

(* Worker::Stop refuses when the thread has not come to set isRunning_.    *)
Refuse(w) ==
  /\ At("visit", w)
  /\ ~isRunning_[w] \/ ~thread_[w]
  /\ IF phase = "end" /\ thread_[w] THEN Goto("terminate", w) ELSE Advance("visit", w)
  /\ UNCHANGED <<phase, adding, runnables_, threadVars, missed>>

(* A mistake to be caught: the worker is woken without being told to end.  *)
WakeOnly(w) ==
  /\ At("visit", w)
  /\ isRunning_[w] /\ thread_[w]
  /\ Goto("wake", w)
  /\ UNCHANGED <<phase, adding, runnables_, threadVars, missed>>

StopWorker(w) ==
  /\ At("visit", w)
  /\ isRunning_[w] /\ thread_[w]
  /\ isRunning_' = [isRunning_ EXCEPT ![w] = FALSE]
  /\ Goto("wake", w)
  /\ UNCHANGED <<phase, adding, runnables_, runnable_, thread_, pc, ran, missed>>

NotifyStopped(w) ==
  /\ At("wake", w)
  /\ Notify(w)
  /\ Goto("join", w)
  /\ UNCHANGED <<phase, adding, runnables_, runnable_, isRunning_, thread_, ran>>

Join(w) ==
  /\ At("join", w)
  /\ pc[w] = "off"
  /\ thread_' = [thread_ EXCEPT ![w] = FALSE]
  /\ Advance("visit", w)
  /\ UNCHANGED <<phase, adding, runnables_, runnable_, isRunning_, pc, ran, missed>>

-----------------------------------------------------------------------------
(* The worker's thread: Worker::Run.  A worker that was deleted is         *)
(* followed no further.                                                    *)
Terminated == main.at = "terminate"

Step(w, from, to) ==
  /\ pc[w] = from /\ ~Terminated
  /\ pc' = [pc EXCEPT ![w] = to]
  /\ UNCHANGED <<phase, main, adding, runnables_, thread_>>

Begin(w) ==
  /\ Step(w, "begin", "test")
  /\ isRunning_' = [isRunning_ EXCEPT ![w] = TRUE]
  /\ UNCHANGED <<runnable_, ran, missed>>

Test(w) ==
  /\ Step(w, "test", IF isRunning_[w] THEN "load" ELSE "off")
  /\ UNCHANGED <<runnable_, isRunning_, ran, missed>>

Load(w) ==
  /\ Step(w, "load", IF runnable_[w] = null THEN "found null" ELSE "run")
  /\ UNCHANGED <<runnable_, isRunning_, ran, missed>>

Wait(w) ==
  /\ Step(w, "found null", "waiting")
  /\ UNCHANGED <<runnable_, isRunning_, ran, missed>>

WakeByItself(w) ==
  /\ Step(w, "waiting", "test")
  /\ missed' = missed \ {w}
  /\ UNCHANGED <<runnable_, isRunning_, ran>>

RunTask(w) ==
  /\ Step(w, "run", "reset")
  /\ ran' = Append(ran, runnable_[w])
  /\ UNCHANGED <<runnable_, isRunning_, missed>>

(* A mistake to be caught: the worker keeps the task it has run.           *)
KeepRunnable(w) ==
  /\ Step(w, "reset", "test")
  /\ UNCHANGED <<runnable_, isRunning_, ran, missed>>

SetRunnableNull(w) ==
  /\ Step(w, "reset", "test")
  /\ runnable_' = [runnable_ EXCEPT ![w] = null]
  /\ UNCHANGED <<isRunning_, ran, missed>>

-----------------------------------------------------------------------------
Owner(w) ==
  Hand(w) \/ PassBy(w) \/ NotifyHanded(w) \/ Refuse(w) \/ StopWorker(w) \/ NotifyStopped(w) \/ Join(w)

Thread(w) ==
  Begin(w) \/ Test(w) \/ Load(w) \/ Wait(w) \/ RunTask(w) \/ SetRunnableNull(w)

Next ==
  \/ \E t \in Tasks : AddWork(t)
  \/ Start \/ Update \/ Stop \/ Destroy
  \/ \E w \in Workers : Owner(w) \/ Thread(w) \/ WakeByItself(w)

(* Threads go on, the owner finishes what it has begun, and while it runs  *)
(* it calls Update on every turn.  No wait ends by itself for sure.        *)
Fairness ==
  /\ \A w \in Workers : WF_vars(Owner(w)) /\ WF_vars(Thread(w))
  /\ WF_vars(Update)

Spec == Init /\ [][Next]_vars /\ Fairness

-----------------------------------------------------------------------------
(* The pool is a mailbox of tasks: each is run once, whichever worker is   *)
(* free, and none is lost between the queue, the pool and the workers.     *)
(* Inside are the tasks queued and those of the workers, whose task is out *)
(* from its run until it is forgotten; one that is handed out while it is  *)
(* inside or out, or run a second time, is no step of a mailbox            *)
(* (thread_pool.cpp:86-123, worker.cpp:37-49).                             *)
InHand == {runnable_[w] : w \in {v \in Workers : pc[v] # "reset"}} \ {null}
MB == INSTANCE Mailbox
        WITH Items <- Tasks, fresh <- adding, inside <- Range(runnables_) \cup InHand, out <- ran

TasksRunOnce == MB!Init /\ [][MB!Next]_MB!vars

(* A worker sleeps over its task, or over its end, only if the             *)
(* notification came after it had looked and before it waited              *)
(* (worker.cpp:39-41).  In particular none sleeps that was waiting.        *)
SleepsOnlyIfMissed ==
  \A w \in Workers :
    pc[w] = "waiting" /\ (runnable_[w] # null \/ (thread_[w] /\ ~isRunning_[w]))
      => w \in missed \/ main \in [at : {"notify", "wake"}, w : {w}]

(* While the pool runs, every task that is queued is run in the end,       *)
(* unless it was handed to a worker that was missed, or all workers sleep  *)
(* over a task: Update notifies no worker again that has one               *)
(* (thread_pool.cpp:105).                                                  *)
HandedToMissed(t) == \E w \in missed : runnable_[w] = t

TasksRun ==
  \A t \in Tasks :
    t \in Range(runnables_) ~> t \in Range(ran) \/ phase # "run" \/ HandedToMissed(t) \/ missed = Workers

(* Stop and the destructor return, unless they join a worker that missed   *)
(* the notification they have just sent it, or the destructor deletes a    *)
(* worker that it did not join, which ends the process                     *)
(* (thread_pool.cpp:22-35,64-78, worker.cpp:18-23,58-70).                  *)
JoinsMissed == main.at = "join" /\ main.w \in missed

StopReturns == phase \in {"stop", "end"} ~> main = Idle \/ JoinsMissed \/ Terminated
=============================================================================
