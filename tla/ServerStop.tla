----------------------------- MODULE ServerStop -----------------------------
(***************************************************************************)
(* Starting and stopping the process.  GameLoop::Run initialises and       *)
(* starts the services in the order DependencyResolver finds, turns until  *)
(* a signal clears isRunning_, stops them in the opposite order and        *)
(* deletes them.  To stop the server, ServiceManager posts it a message,   *)
(* as the game loop posts to it on its turns, and waits for the uv loop's  *)
(* thread to end: by then nobody else posts.                               *)
(*                                                                         *)
(* The main thread and the game loop's never run at once: game is both.    *)
(* Registering, which main does first, and what services do in Init, Start *)
(* and Stop, but for the server, are left out; a service that fails ends   *)
(* Run, and a listening socket may.                                        *)
(***************************************************************************)
EXTENDS Integers, Sequences, Functions

CONSTANTS
  Names,    \* the services' names, in the order of a std::map
  Graphs,   \* what GetDependentServices of the services may say
  server,   \* the service with a thread
  game,     \* the thread that posts
  Messages, \* what the game loop posts
  STOP,     \* SERVER_MESSAGE_STOP
  Nothing

(* Names are keys of a map, each has its dependencies, and STOP is none of *)
(* what the game loop posts.                                               *)
ASSUME ServerStopAssumption ==
  /\ Names \in Seq(Range(Names)) /\ IsInjective(Names)
  /\ \A d \in Graphs : DOMAIN d = Range(Names)
  /\ STOP \notin Messages
  /\ Nothing \notin [to : {0, 1}, item : Messages \cup {STOP}]

VARIABLES
  queue_index_, queues_, pushing, sending, wake, draining, idle, late, \* of the server's Async
  depends,      \* GetDependentServices
  orders_,      \* of DependencyResolver
  initialised,  \* the services whose Init was called
  running,      \* those with IsRunning
  main,         \* where the main thread is, with the game loop's
  next,         \* how far it is in the order of services
  isRunning_,   \* of the GameLoop
  uv,           \* the uv loop's thread: "none", "running", "stopping" or "ended"
  asked         \* history: a signal came while the loop was turning

Mail == INSTANCE Async WITH Producers <- {game}, Items <- Messages \cup {STOP}

mailVars == <<queue_index_, queues_, pushing, sending, wake, draining, idle, late>>
loopVars == <<depends, orders_, initialised, running, main, next, isRunning_, uv, asked>>
vars == <<mailVars, loopVars>>

Services == Range(Names)

Circle(d) ==
  \E S \in SUBSET Services : S # {} /\ \A s \in S : d[s] \cap (S \ {s}) # {}

Lacks(d) == (UNION Range(d)) \ Services

(* A mistake to be caught: a service comes before those it depends on.     *)
SortOneBackwards(d, sorted) ==
  LET left == Services \ Range(sorted)
      free == {i \in DOMAIN Names : Names[i] \in left
                 /\ \A s \in left \ {Names[i]} : Names[i] \notin d[s]}
  IN  IF free = {} THEN sorted
      ELSE Append(sorted, Names[CHOOSE i \in free : \A j \in free : i <= j])

(* The first name without a dependency that is not sorted yet.             *)
SortOne(d, sorted) ==
  LET left == Services \ Range(sorted)
      free == {i \in DOMAIN Names : Names[i] \in left /\ d[Names[i]] \cap (left \ {Names[i]}) = {}}
  IN  IF free = {} THEN sorted
      ELSE Append(sorted, Names[CHOOSE i \in free : \A j \in free : i <= j])

(* Again and again.  When a circle stops this, orders_ keeps what it has.  *)
TopSort(d) ==
  LET sorted[n \in 0 .. Len(Names)] == IF n = 0 THEN <<>> ELSE SortOne(d, sorted[n - 1])
  IN  sorted[Len(Names)]

Init ==
  /\ Mail!Init
  /\ depends \in Graphs
  /\ orders_ = <<>>
  /\ initialised = {} /\ running = {}
  /\ main = "init" /\ next = 0 /\ isRunning_ = FALSE
  /\ uv = "none" /\ asked = FALSE

(* LoadInitSort returns an empty list for a circle, and nothing is         *)
(* initialised and Init succeeds; a service that lacks makes it fail.      *)
InitServices ==
  /\ main = "init"
  /\ IF Lacks(depends) # {}
     THEN main' = "failed" /\ UNCHANGED <<orders_, initialised, next>>
     ELSE /\ main' = "start" /\ next' = 1
          /\ orders_' = TopSort(depends)
          /\ initialised' = IF Circle(depends) THEN {} ELSE Services
  /\ UNCHANGED <<mailVars, depends, running, isRunning_, uv, asked>>

StartService ==
  /\ main = "start" /\ next <= Len(orders_)
  /\ orders_[next] = server => server \in initialised
  /\ running' = running \cup {orders_[next]}
  /\ next' = next + 1
  /\ uv' = IF orders_[next] = server THEN "running" ELSE uv
  /\ UNCHANGED <<mailVars, depends, orders_, initialised, main, isRunning_, asked>>

(* The server cannot listen, or it was not initialised, and it uses what   *)
(* is not there; either ends Run.                                          *)
ListenFails ==
  /\ main = "start" /\ next <= Len(orders_) /\ orders_[next] = server
  /\ main' = "failed"
  /\ isRunning_' = TRUE
  /\ UNCHANGED <<mailVars, depends, orders_, initialised, running, next, uv, asked>>

Started ==
  /\ main = "start" /\ next > Len(orders_)
  /\ isRunning_' = TRUE
  /\ main' = "top"
  /\ UNCHANGED <<mailVars, depends, orders_, initialised, running, next, uv, asked>>

(* The signal handler is installed first of all.  isRunning_ is set when   *)
(* all services are started, whatever signal came before.                  *)
ForceStop ==
  /\ isRunning_' = FALSE
  /\ asked' = (asked \/ main \in {"top", "turn"})
  /\ UNCHANGED <<mailVars, depends, orders_, initialised, running, main, next, uv>>

Turn ==
  /\ main = "top"
  /\ main' = IF isRunning_ THEN "turn" ELSE "stop"
  /\ next' = Len(orders_)
  /\ UNCHANGED <<mailVars, depends, orders_, initialised, running, isRunning_, uv, asked>>

Post(x) ==
  /\ main = "turn" /\ uv # "none"
  /\ Mail!StartPost(game, x)
  /\ UNCHANGED loopVars

(* PostMessage goes on, and returns when it has sent.                      *)
FinishPush == Mail!FinishPush(game) /\ UNCHANGED loopVars
Send == Mail!Send(game) /\ UNCHANGED loopVars

Posted == pushing[game] = Nothing /\ game \notin sending

EndTurn ==
  /\ main = "turn" /\ Posted
  /\ main' = "top"
  /\ UNCHANGED <<mailVars, depends, orders_, initialised, running, next, isRunning_, uv, asked>>

(* A service that does not run is not stopped.                             *)
StopService ==
  /\ main = "stop" /\ next > 0
  /\ orders_[next] = server => server \notin running
  /\ running' = running \ {orders_[next]}
  /\ next' = next - 1
  /\ UNCHANGED <<mailVars, depends, orders_, initialised, main, isRunning_, uv, asked>>

StopServer ==
  /\ main = "stop" /\ next > 0 /\ orders_[next] = server /\ server \in running
  /\ Mail!StartPost(game, STOP)
  /\ main' = "join"
  /\ UNCHANGED <<depends, orders_, initialised, running, next, isRunning_, uv, asked>>

WaitForStop ==
  /\ main = "join" /\ Posted /\ uv = "ended"
  /\ main' = "stop"
  /\ next' = next - 1
  /\ UNCHANGED <<mailVars, depends, orders_, initialised, running, isRunning_, uv, asked>>

Destroy ==
  /\ main = "stop" /\ next = 0
  /\ main' = "destroyed"
  /\ UNCHANGED <<mailVars, depends, orders_, initialised, running, next, isRunning_, uv, asked>>

StartCallback == uv = "running" /\ Mail!StartCallback /\ UNCHANGED loopVars
EndCallback == Mail!EndCallback /\ UNCHANGED loopVars

(* A mistake to be caught: the loop is told to stop, and the posting       *)
(* thread's flag is forgotten.                                             *)
OnMessageOnly(x) == Mail!OnMessage(x) /\ UNCHANGED loopVars

OnMessage(x) ==
  /\ Mail!OnMessage(x)
  /\ IF x = STOP
     THEN running' = running \ {server} /\ uv' = "stopping"
     ELSE UNCHANGED <<running, uv>>
  /\ UNCHANGED <<depends, orders_, initialised, main, next, isRunning_, asked>>

UvEnds ==
  /\ uv = "stopping" /\ ~draining
  /\ uv' = "ended"
  /\ UNCHANGED <<mailVars, depends, orders_, initialised, running, main, next, isRunning_, asked>>

Sends == FinishPush \/ Send
Serves == StartCallback \/ EndCallback \/ UvEnds \/ \E x \in Messages \cup {STOP} : OnMessage(x)
Starts == InitServices \/ StartService \/ ListenFails \/ Started
Stops == StopService \/ StopServer \/ WaitForStop \/ Destroy

Next ==
  \/ Starts \/ ForceStop \/ Turn \/ EndTurn \/ Stops \/ Sends \/ Serves
  \/ \E x \in Messages : Post(x)

(* The threads go on, and a turn ends.                                     *)
Fairness ==
  /\ WF_vars(Starts) /\ WF_vars(Turn) /\ SF_vars(EndTurn) /\ WF_vars(Stops)
  /\ WF_vars(Sends) /\ WF_vars(Serves)

Spec == Init /\ [][Next]_vars /\ Fairness

-----------------------------------------------------------------------------
(* When the queue of the server is quiet, a message is left in it only if  *)
(* a swap overtook its push: neither turns nor the end of the process lose *)
(* a wake-up (async.cpp:17-41,72-90).                                      *)
StrandedOnlyIfLate == uv \in {"none", "running"} => Mail!StrandedOnlyIfLate

(* As long as turns go on posting, every message is delivered              *)
(* (async.cpp:17-41,72-90, server.cpp:62-112).                             *)
DeliveredByLaterPosts ==
  ([]<><<\E x \in Messages : Post(x)>>_vars) => \A x \in Messages : x \notin idle ~> x \in idle

(* A service is initialised before it is started, and as long as it runs   *)
(* do those it depends on, in starting and in stopping, unless             *)
(* dependencies go in a circle (service_manager.cpp:50-131,                *)
(* dependencyResolver.cpp:41-110).                                         *)
RunsOnRunning ==
  \/ /\ running \subseteq initialised
     /\ \A s \in running : depends[s] \subseteq running \cup {s}
  \/ Circle(depends)

(* A signal that comes while the loop is turning ends the process, unless  *)
(* the message that stops the server is stranded (server.cpp:72-112,       *)
(* game_loop.cpp:55-88).                                                   *)
StopsWhenAsked == (asked ~> main = "destroyed") \/ <>[](STOP \in late)
=============================================================================
