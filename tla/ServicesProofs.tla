--------------------------- MODULE ServicesProofs ----------------------------
(***************************************************************************)
(* Proofs about the services of the process, for any number of them, of    *)
(* messages and of roles, and whatever the services depend on.  Neither    *)
(* starting nor stopping loses a wake-up of the server's queue; a service  *)
(* runs only while those do that it depends on; and what ZkService has     *)
(* merged keeps up with the configuration in ZooKeeper.  ServerStop and    *)
(* MCConfiguration share nothing.                                          *)
(***************************************************************************)
EXTENDS ServerStop, MCConfiguration, DataLemmas, FiniteSetTheorems

M == INSTANCE AsyncProofs WITH Producers <- {game}, Items <- Messages \cup {STOP}

Posts == Messages \cup {STOP}

(* Mail and M are one module, instantiated by the model and here.          *)
LEMMA SameMail ==
  /\ Mail!Init => M!Init
  /\ \A x : Mail!StartPost(game, x) => M!StartPost(game, x)
  /\ Mail!FinishPush(game) => M!FinishPush(game)
  /\ Mail!Send(game) => M!Send(game)
  /\ Mail!StartCallback => M!StartCallback
  /\ \A x : Mail!OnMessage(x) => M!OnMessage(x)
  /\ Mail!EndCallback => M!EndCallback
  /\ M!StrandedOnlyIfLate => Mail!StrandedOnlyIfLate
BY DEF Mail!Init, M!Init, Mail!QueueInit, M!QueueInit,
       Mail!StartPost, M!StartPost, Mail!BeginPush, M!BeginPush, Mail!NextQueueIndex, M!NextQueueIndex,
       Mail!FinishPush, M!FinishPush, Mail!EndPush, M!EndPush, Mail!Send, M!Send,
       Mail!StartCallback, M!StartCallback, Mail!Swap, M!Swap,
       Mail!OnMessage, M!OnMessage, Mail!Pop, M!Pop, Mail!Front, M!Front,
       Mail!EndCallback, M!EndCallback, Mail!StrandedOnlyIfLate, M!StrandedOnlyIfLate,
       Mail!Quiet, M!Quiet, Mail!Queued, M!Queued, Mail!Range, M!Range

(* A step of the process is one of the queue's, or leaves it alone.        *)
LEMMA MailStep ==
  ASSUME [Next]_vars
  PROVE  \/ \E x \in Posts : Mail!StartPost(game, x) \/ Mail!OnMessage(x)
         \/ Mail!FinishPush(game) \/ Mail!Send(game) \/ Mail!StartCallback \/ Mail!EndCallback
         \/ UNCHANGED mailVars
<1>1. CASE Starts \/ ForceStop \/ Turn \/ EndTurn
  BY <1>1 DEF Starts, InitServices, StartService, ListenFails, Started, ForceStop, Turn, EndTurn
<1>2. CASE Stops
  BY <1>2 DEF Stops, StopService, StopServer, WaitForStop, Destroy, Posts
<1>3. CASE Sends
  BY <1>3 DEF Sends, FinishPush, Send
<1>4. CASE Serves
  BY <1>4 DEF Serves, StartCallback, EndCallback, UvEnds, OnMessage, Posts
<1>5. ASSUME NEW x \in Messages, Post(x)
      PROVE  \E y \in Posts : Mail!StartPost(game, y)
  BY <1>5 DEF Post, Posts
<1>6. CASE UNCHANGED vars
  BY <1>6 DEF vars
<1> QED
  BY <1>1, <1>2, <1>3, <1>4, <1>5, <1>6 DEF Next

LEMMA MailInvHolds == Spec => []M!AsyncInv
<1>1. Init => M!AsyncInv
  BY SameMail, M!AsyncInitially, ServerStopAssumption DEF Init
<1>2. M!AsyncInv /\ [Next]_vars => M!AsyncInv'
  <2> SUFFICES ASSUME M!AsyncInv, [Next]_vars
               PROVE  M!AsyncInv'
    OBVIOUS
  <2>1. ASSUME NEW x \in Posts, Mail!StartPost(game, x)
        PROVE  M!AsyncInv'
    BY <2>1, SameMail, M!StartPostStep, ServerStopAssumption DEF Posts
  <2>2. ASSUME NEW x \in Posts, Mail!OnMessage(x)
        PROVE  M!AsyncInv'
    BY <2>2, SameMail, M!OnMessageStep, ServerStopAssumption DEF Posts
  <2>3. CASE Mail!FinishPush(game)
    BY <2>3, SameMail, M!FinishPushStep, ServerStopAssumption
  <2>4. CASE Mail!Send(game)
    BY <2>4, SameMail, M!SendStep, ServerStopAssumption
  <2>5. CASE Mail!StartCallback
    BY <2>5, SameMail, M!StartCallbackStep, ServerStopAssumption
  <2>6. CASE Mail!EndCallback
    BY <2>6, SameMail, M!EndCallbackStep, ServerStopAssumption
  <2>7. CASE UNCHANGED mailVars
    BY <2>7, M!AsyncStays, ServerStopAssumption DEF mailVars, M!vars
  <2> QED
    BY <2>1, <2>2, <2>3, <2>4, <2>5, <2>6, <2>7, MailStep
<1> QED
  BY <1>1, <1>2, PTL DEF Spec

(* When the queue of the server is quiet, a message is left in it only if  *)
(* a swap overtook its push, also while the process starts and stops.      *)
THEOREM StrandedIfLateOnly == Spec => []StrandedOnlyIfLate
<1>1. M!AsyncInv => StrandedOnlyIfLate
  BY SameMail, M!NoneStranded, ServerStopAssumption DEF StrandedOnlyIfLate
<1> QED
  BY <1>1, MailInvHolds, PTL

-----------------------------------------------------------------------------
(* An order in which each service comes after those it depends on.         *)
DependenciesFirst(d, s) ==
  /\ s \in Seq(Services) /\ IsInjective(s)
  /\ \A i \in 1 .. Len(s) : d[s[i]] \subseteq {s[j] : j \in 1 .. i}

(* One turn of TopSort's loop adds a service after those it depends on, as *)
(* long as there is one to add and dependencies do not go in a circle.     *)
LEMMA SortOneAdds ==
  ASSUME NEW d, DOMAIN d = Services, Lacks(d) = {}, ~Circle(d),
         NEW s, DependenciesFirst(d, s)
  PROVE  /\ DependenciesFirst(d, SortOne(d, s))
         /\ Range(s) = Services => SortOne(d, s) = s
         /\ Range(s) # Services => Len(SortOne(d, s)) = Len(s) + 1
<1> DEFINE left == Services \ Range(s)
           free == {i \in DOMAIN Names :
                      Names[i] \in left /\ d[Names[i]] \cap (left \ {Names[i]}) = {}}
           n == CHOOSE i \in free : \A j \in free : i <= j
           x == Names[n]
<1>1. SortOne(d, s) = IF free = {} THEN s ELSE Append(s, x)
  BY DEF SortOne
<1>2. s \in Seq(Services) /\ Range(s) \subseteq Services
  BY DEF DependenciesFirst, Range
<1>3. CASE left = {}
  <2>1. free = {}
    BY <1>3
  <2>2. SortOne(d, s) = s /\ Range(s) = Services
    BY <1>1, <1>2, <1>3, <2>1
  <2> QED
    BY <2>2
<1>4. CASE left # {}
  <2>1. PICK y \in left : d[y] \cap (left \ {y}) = {}
    BY <1>4 DEF Circle
  <2>2. PICK i \in DOMAIN Names : Names[i] = y
    BY <2>1 DEF Services, Range
  <2>3. free # {} /\ free \subseteq Nat
    <3>1. DOMAIN Names \subseteq Nat
      BY ServerStopAssumption
    <3> QED
      BY <2>1, <2>2, <3>1
  <2>4. n \in free
    <3> HIDE DEF free
    <3>1. \E k \in free : \A j \in free : k <= j
      BY <2>3, LeastOf
    <3> QED
      BY <3>1
  <2> HIDE DEF n
  <2>5. x \in Services /\ x \notin Range(s) /\ d[x] \cap (left \ {x}) = {}
    BY <2>4
  <2> HIDE DEF free, x
  <2> DEFINE t == Append(s, x)
  <2>6. SortOne(d, s) = t
    BY <1>1, <2>3
  <2>7. t \in Seq(Services) /\ Range(t) = Range(s) \cup {x} /\ IsInjective(t)
    BY <1>2, <2>5, AppendElements DEF DependenciesFirst
  <2>8. /\ Len(t) = Len(s) + 1 /\ Len(s) \in Nat /\ t[Len(s) + 1] = x
        /\ \A j \in 1 .. Len(s) : t[j] = s[j]
    BY <1>2, <2>5
  <2> HIDE DEF t
  <2>9. ASSUME NEW j \in 1 .. Len(t)
        PROVE  d[t[j]] \subseteq {t[m] : m \in 1 .. j}
    <3>1. CASE j \in 1 .. Len(s)
      <4>1. d[s[j]] \subseteq {s[m] : m \in 1 .. j}
        BY <3>1 DEF DependenciesFirst
      <4>2. \A m \in 1 .. j : t[m] = s[m]
        BY <2>8, <3>1
      <4>3. {t[m] : m \in 1 .. j} = {s[m] : m \in 1 .. j} /\ t[j] = s[j]
        BY <2>8, <3>1, <4>2
      <4> QED
        BY <4>1, <4>3
    <3>2. CASE j = Len(t)
      <4>1. d[x] \subseteq Services
        <5>1. d[x] \in Range(d)
          BY <2>5 DEF Range
        <5>2. \A e \in d[x] : e \in UNION Range(d)
          BY <5>1
        <5>3. \A e \in UNION Range(d) : e \in Services
          BY DEF Lacks
        <5> QED
          BY <5>2, <5>3
      <4>2. d[x] \subseteq Range(t)
        BY <2>5, <2>7, <4>1
      <4>3. Range(t) \subseteq {t[m] : m \in 1 .. Len(t)}
        BY <2>7 DEF Range
      <4>4. t[j] = x
        BY <2>8, <3>2
      <4> QED
        BY <3>2, <4>2, <4>3, <4>4
    <3> QED
      BY <2>8, <3>1, <3>2
  <2>10. DependenciesFirst(d, t)
    BY <2>7, <2>9 DEF DependenciesFirst
  <2>11. Range(s) # Services
    BY <1>4
  <2> QED
    BY <2>6, <2>8, <2>10, <2>11
<1> QED
  BY <1>3, <1>4

(* TopSort's recursive function is what its definition says.               *)
LEMMA SortedDefined ==
  ASSUME NEW d, NEW N \in Nat
  PROVE  \E f : f = [n \in 0 .. N |-> IF n = 0 THEN <<>> ELSE SortOne(d, f[n - 1])]
<1> DEFINE Loop(f, m) == f = [n \in 0 .. m |-> IF n = 0 THEN <<>> ELSE SortOne(d, f[n - 1])]
           Runs == {m \in Nat : \E f : Loop(f, m)}
<1>1. 0 \in Runs
  <2>1. Loop([n \in 0 .. 0 |-> <<>>], 0)
    OBVIOUS
  <2> QED
    BY <2>1
<1>2. ASSUME NEW m \in Nat, m \in Runs
      PROVE  m + 1 \in Runs
  <2>1. PICK f : Loop(f, m)
    BY <1>2
  <2> DEFINE g == [n \in 0 .. m + 1 |-> IF n = m + 1 THEN SortOne(d, f[m]) ELSE f[n]]
  <2>2. ASSUME NEW n \in 0 .. m + 1
        PROVE  g[n] = IF n = 0 THEN <<>> ELSE SortOne(d, g[n - 1])
    <3>1. CASE n = m + 1
      BY <3>1
    <3>2. CASE n # m + 1
      <4>1. n \in 0 .. m /\ g[n] = f[n] /\ (n # 0 => g[n - 1] = f[n - 1])
        BY <3>2
      <4>2. f[n] = IF n = 0 THEN <<>> ELSE SortOne(d, f[n - 1])
        BY <2>1, <4>1
      <4> QED
        BY <4>1, <4>2
    <3> QED
      BY <3>1, <3>2
  <2>3. Loop(g, m + 1)
    BY <2>2
  <2>4. \E h : Loop(h, m + 1)
    <3> HIDE DEF g
    <3> QED
      BY <2>3
  <2> HIDE DEF Loop
  <2> QED
    BY <2>4
<1>3. Nat \subseteq Runs
  <2> HIDE DEF Runs
  <2> QED
    BY <1>1, <1>2, NatSetInduction
<1> QED
  BY <1>3

(* An injective sequence of as many services as there are has them all.    *)
LEMMA AllSorted ==
  ASSUME NEW s \in Seq(Services), IsInjective(s), Len(s) = Len(Names)
  PROVE  Range(s) = Services
<1> DEFINE N == Len(Names)
<1>1. N \in Nat /\ DOMAIN Names = 1 .. N /\ Names \in [1 .. N -> Services]
  BY ServerStopAssumption DEF Services
<1>2. Names \in Bijection(1 .. N, Services)
  <2>1. Names \in Injection(1 .. N, Services)
    BY <1>1, ServerStopAssumption DEF Injection
  <2>2. \A t \in Services : \E n \in 1 .. N : Names[n] = t
    BY <1>1 DEF Services, Range
  <2>3. Names \in Surjection(1 .. N, Services)
    BY <1>1, <2>2 DEF Surjection
  <2> QED
    BY <2>1, <2>3 DEF Bijection
<1>3. IsFiniteSet(1 .. N) /\ Cardinality(1 .. N) = N
  <2> HIDE DEF N
  <2>1. /\ IsFiniteSet(1 .. N)
        /\ Cardinality(1 .. N) = IF 1 > N THEN 0 ELSE N - 1 + 1
    BY <1>1, FS_Interval
  <2> QED
    BY <1>1, <2>1
<1>4. IsFiniteSet(Services) /\ Cardinality(Services) = N
  BY <1>2, <1>3, FS_Bijection DEF ExistsBijection
<1>5. s \in Injection(1 .. N, Services)
  BY DEF Injection, IsInjective
<1>6. s \in Surjection(1 .. N, Services)
  BY <1>3, <1>4, <1>5, FS_Injection
<1> QED
  BY <1>6 DEF Surjection, Range

(* TopSort sorts all services, if none lacks and none is on a circle.      *)
THEOREM TopSortSorts ==
  ASSUME NEW d, DOMAIN d = Services, Lacks(d) = {}, ~Circle(d)
  PROVE  DependenciesFirst(d, TopSort(d)) /\ Range(TopSort(d)) = Services
<1> DEFINE N == Len(Names)
           sorted == CHOOSE f : f = [n \in 0 .. N |-> IF n = 0 THEN <<>> ELSE SortOne(d, f[n - 1])]
<1>1. N \in Nat
  BY ServerStopAssumption
<1>2. sorted = [n \in 0 .. N |-> IF n = 0 THEN <<>> ELSE SortOne(d, sorted[n - 1])]
  BY <1>1, SortedDefined
<1>3. TopSort(d) = sorted[N]
  BY DEF TopSort
<1> HIDE DEF sorted
<1> DEFINE Good(n) == /\ DependenciesFirst(d, sorted[n])
                      /\ Range(sorted[n]) = Services \/ Len(sorted[n]) = n
           T == {n \in Nat : n <= N => Good(n)}
<1>4. 0 \in T
  <2>1. sorted[0] = <<>>
    BY <1>1, <1>2
  <2>2. DependenciesFirst(d, <<>>) /\ Len(<<>>) = 0
    BY DEF DependenciesFirst, IsInjective
  <2> QED
    BY <2>1, <2>2
<1>5. ASSUME NEW n \in Nat, n \in T
      PROVE  n + 1 \in T
  <2>1. SUFFICES ASSUME n + 1 <= N PROVE Good(n + 1)
    OBVIOUS
  <2>2. Good(n)
    BY <1>1, <1>5, <2>1
  <2>3. sorted[n + 1] = SortOne(d, sorted[n])
    BY <1>1, <1>2, <2>1
  <2> QED
    BY <2>2, <2>3, SortOneAdds
<1>6. Nat \subseteq T
  <2> HIDE DEF T
  <2> QED
    BY <1>4, <1>5, NatSetInduction
<1>7. Good(N)
  BY <1>1, <1>6
<1> QED
  BY <1>3, <1>7, AllSorted DEF DependenciesFirst

-----------------------------------------------------------------------------
(* The first k services of the order, which is sorted once Init succeeded. *)
First(o, k) == {o[j] : j \in 1 .. k}

Sorted ==
  /\ DependenciesFirst(depends, orders_)
  /\ Range(orders_) = Services /\ initialised = Services

(* STOP is on its way only while the main thread waits for the server,     *)
(* which then runs; and whenever the server runs, its loop does.           *)
StopOnItsWay ==
  /\ STOP \notin idle => main = "join" /\ uv = "running"
  /\ server \in running => uv = "running"

(* What runs are the first services of the order: one more after each      *)
(* start, all while the loop turns, one less after each stop.              *)
FirstRun ==
  /\ depends \in Graphs
  /\ main = "init" => running = {} /\ initialised = {}
  /\ main \in {"start", "top", "turn", "stop", "join", "destroyed"} => Sorted
  /\ main = "start" => next \in 1 .. Len(orders_) + 1 /\ running = First(orders_, next - 1)
  /\ main \in {"top", "turn"} => running = First(orders_, Len(orders_))
  /\ main = "stop" => next \in 0 .. Len(orders_) /\ running = First(orders_, next)
  /\ main = "join" =>
       /\ next \in 1 .. Len(orders_) /\ orders_[next] = server
       /\ running = First(orders_, IF uv = "running" THEN next ELSE next - 1)
  /\ main = "destroyed" => running = {}
  /\ main = "failed" => running = {} \/ (Sorted /\ \E k \in 0 .. Len(orders_) : running = First(orders_, k))
  /\ main \in {"init", "start", "top", "turn", "stop", "join", "destroyed", "failed"}

StopInv == Circle(depends) \/ (StopOnItsWay /\ FirstRun)

LEMMA SortedLength == Sorted => Len(orders_) \in Nat
BY DEF Sorted, DependenciesFirst

(* One service more, and one less.                                         *)
LEMMA FirstSteps ==
  ASSUME Sorted, NEW k \in 1 .. Len(orders_)
  PROVE  First(orders_, k) = First(orders_, k - 1) \cup {orders_[k]} /\ First(orders_, k) \ {orders_[k]} = First(orders_, k - 1)
<1>1. orders_ \in Seq(Services) /\ Len(orders_) \in Nat /\ DOMAIN orders_ = 1 .. Len(orders_)
  BY DEF Sorted, DependenciesFirst
<1>2. 1 .. k = (1 .. k - 1) \cup {k} /\ k \notin 1 .. k - 1 /\ 1 .. k \subseteq 1 .. Len(orders_)
  BY <1>1
<1>3. \A j \in 1 .. k - 1 : orders_[j] # orders_[k]
  BY <1>1, <1>2 DEF Sorted, DependenciesFirst, IsInjective
<1>4. First(orders_, k) = First(orders_, k - 1) \cup {orders_[k]}
  BY <1>2 DEF First
<1> QED
  BY <1>3, <1>4 DEF First

LEMMA FirstNone == \A o : First(o, 0) = {}
BY DEF First

(* The first services were initialised and depend on one another only.     *)
LEMMA FirstClosed ==
  ASSUME Sorted, NEW k \in 0 .. Len(orders_)
  PROVE  First(orders_, k) \subseteq Services /\ \A s \in First(orders_, k) : depends[s] \subseteq First(orders_, k)
<1>1. Len(orders_) \in Nat /\ \A j \in 1 .. Len(orders_) : orders_[j] \in Services
  BY DEF Sorted, DependenciesFirst
<1>2. SUFFICES ASSUME NEW j \in 1 .. k
               PROVE  orders_[j] \in Services /\ depends[orders_[j]] \subseteq First(orders_, k)
  BY DEF First
<1>3. j \in 1 .. Len(orders_) /\ 1 .. j \subseteq 1 .. k
  BY <1>1
<1>4. depends[orders_[j]] \subseteq {orders_[m] : m \in 1 .. j}
  BY <1>3 DEF Sorted, DependenciesFirst
<1> QED
  BY <1>1, <1>3, <1>4 DEF First

LEMMA StopStarts == Init => StopInv
BY DEF Init, Mail!Init, StopInv, StopOnItsWay, FirstRun

(* Starting the services.                                                  *)
LEMMA StartsInOrder ==
  ASSUME StopOnItsWay, FirstRun, ~Circle(depends), Starts
  PROVE  StopOnItsWay' /\ FirstRun'
<1> USE DEF StopOnItsWay, FirstRun, mailVars
<1>1. CASE InitServices /\ Lacks(depends) # {}
  <2>1. /\ main = "init" /\ main' = "failed"
        /\ UNCHANGED <<mailVars, depends, running, uv>>
    BY <1>1 DEF InitServices
  <2> QED
    BY <2>1
<1>2. CASE InitServices /\ Lacks(depends) = {}
  <2>1. /\ main = "init" /\ main' = "start" /\ next' = 1 /\ orders_' = TopSort(depends)
        /\ initialised' = Services
        /\ UNCHANGED <<mailVars, depends, running, isRunning_, uv, asked>>
    BY <1>2 DEF InitServices
  <2>2. DependenciesFirst(depends, orders_') /\ Range(orders_') = Services
    BY <1>2, <2>1, TopSortSorts, ServerStopAssumption DEF Services
  <2>3. Len(orders_') \in Nat
    BY <2>2 DEF DependenciesFirst
  <2>4. Sorted'
    BY <2>1, <2>2 DEF Sorted
  <2>5. next' \in 1 .. Len(orders_') + 1 /\ running' = First(orders_', next' - 1)
    BY <2>1, <2>3, FirstNone
  <2> QED
    BY <2>1, <2>4, <2>5
<1>3. CASE StartService
  <2>1. /\ main = "start" /\ next <= Len(orders_)
        /\ running' = running \cup {orders_[next]} /\ next' = next + 1
        /\ uv' = IF orders_[next] = server THEN "running" ELSE uv
        /\ UNCHANGED <<mailVars, depends, orders_, initialised, main>>
    BY <1>3 DEF StartService
  <2>2. Sorted /\ Sorted' /\ Len(orders_) \in Nat
    BY <2>1, SortedLength DEF Sorted
  <2>3. next \in 1 .. Len(orders_) /\ next' \in 1 .. Len(orders_) + 1 /\ next' - 1 = next
    BY <2>1, <2>2
  <2>4. running' = First(orders_', next' - 1)
    BY <2>1, <2>2, <2>3, FirstSteps
  <2> QED
    BY <2>1, <2>2, <2>3, <2>4
<1>4. CASE ListenFails
  <2>1. /\ main = "start" /\ next <= Len(orders_) /\ main' = "failed"
        /\ UNCHANGED <<mailVars, depends, orders_, initialised, running, next, uv>>
    BY <1>4 DEF ListenFails
  <2>2. Sorted /\ Sorted' /\ Len(orders_) \in Nat
    BY <2>1, SortedLength DEF Sorted
  <2>3. next - 1 \in 0 .. Len(orders_') /\ running' = First(orders_', next - 1)
    BY <2>1, <2>2
  <2> QED
    BY <2>1, <2>2, <2>3
<1>5. CASE Started
  <2>1. /\ main = "start" /\ next > Len(orders_) /\ main' = "top"
        /\ UNCHANGED <<mailVars, depends, orders_, initialised, running, next, uv>>
    BY <1>5 DEF Started
  <2>2. Sorted /\ Sorted' /\ Len(orders_) \in Nat
    BY <2>1, SortedLength DEF Sorted
  <2>3. next - 1 = Len(orders_)
    BY <2>1, <2>2
  <2> QED
    BY <2>1, <2>2, <2>3
<1> QED
  BY <1>1, <1>2, <1>3, <1>4, <1>5 DEF Starts

(* Stopping them.                                                          *)
LEMMA StopsInOrder ==
  ASSUME StopOnItsWay, FirstRun, ~Circle(depends), Stops
  PROVE  StopOnItsWay' /\ FirstRun'
<1> USE DEF StopOnItsWay, FirstRun, mailVars
<1>1. CASE StopService
  <2>1. /\ main = "stop" /\ next > 0
        /\ running' = running \ {orders_[next]} /\ next' = next - 1
        /\ UNCHANGED <<mailVars, depends, orders_, initialised, main, uv>>
    BY <1>1 DEF StopService
  <2>2. Sorted /\ Sorted' /\ Len(orders_) \in Nat
    BY <2>1, SortedLength DEF Sorted
  <2>3. next \in 1 .. Len(orders_) /\ next' \in 0 .. Len(orders_)
    BY <2>1, <2>2
  <2>4. running' = First(orders_', next')
    BY <2>1, <2>2, <2>3, FirstSteps
  <2> QED
    BY <2>1, <2>2, <2>3, <2>4
<1>2. CASE StopServer
  <2>1. /\ main = "stop" /\ next > 0 /\ orders_[next] = server /\ server \in running /\ main' = "join"
        /\ UNCHANGED <<depends, orders_, initialised, running, next, uv>>
    BY <1>2 DEF StopServer
  <2>2. Sorted /\ Sorted' /\ Len(orders_) \in Nat /\ uv = "running"
    BY <2>1, SortedLength DEF Sorted
  <2>3. next \in 1 .. Len(orders_)
    BY <2>1, <2>2
  <2> QED
    BY <2>1, <2>2, <2>3
<1>3. CASE WaitForStop
  <2>1. /\ main = "join" /\ uv = "ended" /\ main' = "stop" /\ next' = next - 1
        /\ UNCHANGED <<mailVars, depends, orders_, initialised, running, uv>>
    BY <1>3 DEF WaitForStop
  <2>2. Sorted /\ Sorted' /\ Len(orders_) \in Nat
    BY <2>1, SortedLength DEF Sorted
  <2>3. next' \in 0 .. Len(orders_) /\ running = First(orders_, next - 1)
    BY <2>1, <2>2
  <2> QED
    BY <2>1, <2>2, <2>3
<1>4. CASE Destroy
  <2>1. /\ main = "stop" /\ next = 0 /\ main' = "destroyed"
        /\ UNCHANGED <<mailVars, depends, orders_, initialised, running, next, uv>>
    BY <1>4 DEF Destroy
  <2>2. Sorted' /\ running' = {}
    BY <2>1, FirstNone DEF Sorted
  <2> QED
    BY <2>1, <2>2
<1> QED
  BY <1>1, <1>2, <1>3, <1>4 DEF Stops

(* The uv loop's thread: STOP clears the server's flag before the main     *)
(* thread goes on.                                                         *)
LEMMA ServesInOrder ==
  ASSUME M!AsyncInv, StopOnItsWay, FirstRun, ~Circle(depends), Serves
  PROVE  StopOnItsWay' /\ FirstRun'
<1> USE DEF StopOnItsWay, FirstRun
<1>1. CASE StartCallback \/ EndCallback
  BY <1>1 DEF StartCallback, EndCallback, Mail!StartCallback, Mail!EndCallback, loopVars, Sorted
<1>2. CASE UvEnds
  <2>1. /\ uv = "stopping" /\ uv' = "ended"
        /\ UNCHANGED <<mailVars, depends, orders_, initialised, running, main, next>>
    BY <1>2 DEF UvEnds
  <2>2. STOP \in idle /\ server \notin running /\ UNCHANGED <<idle, Sorted>>
    BY <2>1 DEF Sorted, mailVars
  <2> QED
    BY <2>1, <2>2
<1>3. ASSUME NEW x \in Messages, OnMessage(x)
      PROVE  StopOnItsWay' /\ FirstRun'
  BY <1>3, ServerStopAssumption DEF OnMessage, Mail!OnMessage, Sorted
<1>4. CASE OnMessage(STOP)
  <2>1. /\ idle' = idle \cup {STOP}
        /\ running' = running \ {server} /\ uv' = "stopping"
        /\ UNCHANGED <<depends, orders_, initialised, main, next>>
    BY <1>4 DEF OnMessage, Mail!OnMessage
  <2>2. STOP \notin idle
    <3>1. Mail!Front # <<>> /\ STOP = Head(Mail!Front)
      BY <1>4 DEF OnMessage, Mail!OnMessage, Mail!Pop
    <3>2. Mail!Front \in Seq(Posts) /\ Range(Mail!Front) \subseteq M!Queued /\ idle \cap M!Queued = {}
      BY M!FrontAndBack, ServerStopAssumption
         DEF M!AsyncInv, M!Apart, Mail!Front, M!Front, M!Range, Range, Posts
    <3>3. STOP \in Range(Mail!Front)
      BY <3>1, <3>2, TailRange
    <3> QED
      BY <3>2, <3>3
  <2>3. main = "join" /\ uv = "running" /\ Sorted /\ Sorted'
    BY <2>1, <2>2 DEF Sorted
  <2>4. running' = First(orders_', next - 1)
    BY <2>1, <2>3, FirstSteps
  <2> QED
    BY <2>1, <2>3, <2>4
<1> QED
  BY <1>1, <1>2, <1>3, <1>4 DEF Serves

(* Posting, and the turns of the loop.                                     *)
LEMMA TurnsInOrder ==
  ASSUME StopOnItsWay, FirstRun, ~Circle(depends),
         ForceStop \/ Turn \/ EndTurn \/ Sends \/ (\E x \in Messages : Post(x)) \/ UNCHANGED vars
  PROVE  StopOnItsWay' /\ FirstRun'
<1> USE DEF StopOnItsWay, FirstRun, mailVars, loopVars, Sorted
<1>1. CASE ForceStop
  BY <1>1 DEF ForceStop
<1>2. CASE Turn
  <2>1. Sorted => Len(orders_) \in Nat
    BY DEF DependenciesFirst
  <2> QED
    BY <1>2, <2>1 DEF Turn
<1>3. CASE EndTurn
  BY <1>3 DEF EndTurn
<1>4. CASE Sends
  BY <1>4 DEF Sends, FinishPush, Send, Mail!FinishPush, Mail!Send
<1>5. ASSUME NEW x \in Messages, Post(x)
      PROVE  StopOnItsWay' /\ FirstRun'
  <2>1. /\ main = "turn" /\ idle' = idle \ {x} /\ x # STOP
        /\ UNCHANGED loopVars
    BY <1>5, ServerStopAssumption DEF Post, Mail!StartPost
  <2> QED
    BY <2>1
<1>6. CASE UNCHANGED vars
  BY <1>6 DEF vars
<1> QED
  BY <1>1, <1>2, <1>3, <1>4, <1>5, <1>6

(* A service runs only while those run that it depends on, and was         *)
(* initialised before, unless dependencies go in a circle.                 *)
THEOREM ServicesRunOnRunning == Spec => []RunsOnRunning
<1>1. M!AsyncInv /\ StopInv /\ [Next]_vars => StopInv'
  <2> SUFFICES ASSUME M!AsyncInv, StopInv, [Next]_vars
               PROVE  StopInv'
    OBVIOUS
  <2>1. UNCHANGED depends
    BY DEF Next, Starts, InitServices, StartService, ListenFails, Started, ForceStop, Turn, EndTurn,
           Stops, StopService, StopServer, WaitForStop, Destroy, Sends, FinishPush, Send,
           Serves, StartCallback, EndCallback, UvEnds, OnMessage, Post, vars, loopVars
  <2>2. CASE Circle(depends)
    BY <2>1, <2>2 DEF StopInv, Circle
  <2>3. CASE ~Circle(depends)
    <3>1. StopOnItsWay /\ FirstRun
      BY <2>3 DEF StopInv
    <3>2. StopOnItsWay' /\ FirstRun'
      BY <2>3, <3>1, StartsInOrder, StopsInOrder, ServesInOrder, TurnsInOrder DEF Next
    <3> QED
      BY <3>2 DEF StopInv
  <2> QED
    BY <2>2, <2>3
<1>2. StopInv => RunsOnRunning
  <2> SUFFICES ASSUME StopOnItsWay, FirstRun PROVE RunsOnRunning
    BY DEF StopInv, RunsOnRunning
  <2>1. running = {} \/ (Sorted /\ \E k \in 0 .. Len(orders_) : running = First(orders_, k))
    <3>1. Sorted => Len(orders_) \in Nat
      BY SortedLength
    <3>2. CASE main = "start"
      <4>1. next - 1 \in 0 .. Len(orders_)
        BY <3>1, <3>2 DEF FirstRun
      <4> QED
        BY <3>2, <4>1 DEF FirstRun
    <3>3. CASE main \in {"top", "turn"}
      <4>1. Sorted /\ Len(orders_) \in 0 .. Len(orders_)
        BY <3>1, <3>3 DEF FirstRun
      <4> QED
        BY <3>3, <4>1 DEF FirstRun
    <3>4. CASE main = "join"
      <4>1. Sorted /\ next \in 0 .. Len(orders_) /\ next - 1 \in 0 .. Len(orders_)
        BY <3>1, <3>4 DEF FirstRun
      <4> QED
        BY <3>4, <4>1 DEF FirstRun
    <3>5. CASE main = "stop"
      BY <3>5 DEF FirstRun
    <3>6. CASE main \in {"init", "destroyed", "failed"}
      BY <3>6 DEF FirstRun
    <3> QED
      BY <3>2, <3>3, <3>4, <3>5, <3>6 DEF FirstRun
  <2> QED
    BY <2>1, FirstClosed DEF RunsOnRunning, Sorted
<1> QED
  BY <1>1, <1>2, StopStarts, MailInvHolds, PTL DEF Spec

-----------------------------------------------------------------------------
(* ZkService.  A watch is on a role of the reading that is current, or of  *)
(* an earlier one.                                                         *)
ZooTypeOK ==
  /\ conf \in {Absent, Malformed} \/ conf \in Seq(Roles)
  /\ roles_ \in Seq(Roles)
  /\ value \in [Roles -> Contents \cup {Absent}]
  /\ readings \in Nat
  /\ DOMAIN info_ = Roles
  /\ \A w \in roleWatches : w[1] \in Roles /\ w[2] \in 0 .. readings

(* A change was read, and what is still to come will have it merged: the   *)
(* callback sets the flag, or the user has seen it, unless it was cleared  *)
(* unseen.                                                                 *)
ToBeMerged ==
  \/ callback # "idle" \/ isChanged_ \/ user = "merging" \/ (user = "clear" /\ seen)
  \/ overlooked \/ corrupted

(* Of a role with a watch, what was read is there to be merged, or it was  *)
(* merged, and Null is left of every member.                               *)
RoleFollows(r) ==
  /\ value[r] \in Contents
  /\ DOMAIN info_[r] = DOMAIN value[r]
  /\ \/ info_[r] = value[r] /\ ToBeMerged
     \/ \A m \in DOMAIN value[r] : info_[r][m] = Moved

NodeFollows == nodeWatch = "get" /\ conf # Malformed => roles_ = conf

RolesFollow == \A r \in Range(roles_) : <<r, readings>> \in roleWatches => RoleFollows(r)

(* With nothing to be merged, what is merged of a member is of its last    *)
(* role.                                                                   *)
MembersFollow ==
  ~ToBeMerged => \A i \in DOMAIN roles_ : \A m : Zoo!LastOf(i, m) => Zoo!Merged(i, m)

ZooInv == ZooTypeOK /\ NodeFollows /\ RolesFollow /\ MembersFollow

LEMMA ListsOfRoles == \A list \in Zoo!Lists : list \in Seq(Roles)
<1>1. Cardinality(Roles) \in Nat
  BY FS_CardinalityType, ConfigurationAssumption
<1> SUFFICES ASSUME NEW n \in 0 .. Cardinality(Roles), NEW list \in [1 .. n -> Roles]
             PROVE  list \in Seq(Roles)
  BY DEF Zoo!Lists
<1> QED
  BY <1>1

LEMMA ZooInitially == Zoo!Init => ZooInv
<1> SUFFICES ASSUME Zoo!Init PROVE ZooInv
  OBVIOUS
<1>1. roles_ = <<>> /\ DOMAIN roles_ = {} /\ Range(roles_) = {}
  BY DEF Zoo!Init, Range
<1>2. ZooTypeOK
  BY <1>1, ListsOfRoles DEF Zoo!Init, ZooTypeOK
<1> QED
  BY <1>1, <1>2 DEF Zoo!Init, ZooInv, NodeFollows, RolesFollow, MembersFollow

(* What does not touch the client nor its watches.                         *)
LEMMA ClientFollows ==
  ASSUME ZooInv, ZooTypeOK', NodeFollows',
         UNCHANGED <<roles_, readings, info_, mergedConfig_, again>>, ToBeMerged' <=> ToBeMerged,
         roleWatches' \subseteq roleWatches,
         \A r \in Roles : <<r, readings>> \in roleWatches' => value'[r] = value[r]
  PROVE  ZooInv'
<1>1. \A i \in DOMAIN roles_ : roles_[i] \in Roles
  BY DEF ZooInv, ZooTypeOK
<1>2. \A r \in Range(roles_) : r \in Roles
  BY <1>1 DEF Range
<1>3. RolesFollow'
  BY <1>2 DEF ZooInv, RolesFollow, RoleFollows
<1>4. \A i \in DOMAIN roles_ : \A m : Zoo!LastOf(i, m)' => Zoo!LastOf(i, m) /\ value'[roles_[i]] = value[roles_[i]]
  <2> SUFFICES ASSUME NEW i \in DOMAIN roles_, NEW m, Zoo!LastOf(i, m)'
               PROVE  Zoo!LastOf(i, m) /\ value'[roles_[i]] = value[roles_[i]]
    OBVIOUS
  <2>1. roles_ \in Seq(Roles) /\ DOMAIN roles_ = 1 .. Len(roles_)
    BY DEF ZooInv, ZooTypeOK
  <2>2. \A j \in i + 1 .. Len(roles_) : j \in DOMAIN roles_
    BY <2>1
  <2> QED
    BY <1>1, <2>2 DEF Zoo!LastOf, Zoo!Watched
<1>5. MembersFollow'
  BY <1>4 DEF ZooInv, MembersFollow, Zoo!Merged
<1> QED
  BY <1>3, <1>5 DEF ZooInv

(* The server: a change of a role takes its watches away.                  *)
LEMMA ServerFollows ==
  ASSUME ZooInv,
         \/ \E c \in {Absent, Malformed} \cup Zoo!Lists : Zoo!SetNode(c)
         \/ \E r \in Roles, v \in Contents \cup {Absent} : Zoo!SetRole(r, v)
         \/ Zoo!Expire \/ Zoo!OlderExpires
  PROVE  ZooInv'
<1>1. ASSUME NEW c \in {Absent, Malformed} \cup Zoo!Lists, Zoo!SetNode(c)
      PROVE  ZooInv'
  BY <1>1, ClientFollows, ListsOfRoles DEF Zoo!SetNode, Zoo!registration, Zoo!client, Zoo!users,
              ZooInv, ZooTypeOK, NodeFollows, ToBeMerged
<1>2. ASSUME NEW r \in Roles, NEW v \in Contents \cup {Absent}, Zoo!SetRole(r, v)
      PROVE  ZooInv'
  BY <1>2, ClientFollows DEF Zoo!SetRole, Zoo!registration, Zoo!client, Zoo!users,
              ZooInv, ZooTypeOK, NodeFollows, ToBeMerged
<1>3. CASE Zoo!Expire
  BY <1>3, ClientFollows DEF Zoo!Expire, Zoo!server, Zoo!client, Zoo!users,
              ZooInv, ZooTypeOK, NodeFollows, ToBeMerged
<1>4. CASE Zoo!OlderExpires
  BY <1>4, ClientFollows DEF Zoo!OlderExpires, Zoo!server, Zoo!watches, Zoo!client, Zoo!users,
              ZooInv, ZooTypeOK, NodeFollows, ToBeMerged
<1> QED
  BY <1>1, <1>2, <1>3, <1>4

(* A process that begins or has ended has nothing it could follow with.    *)
LEMMA RegistrationFollows ==
  ASSUME ZooInv, Zoo!Start \/ Zoo!Stop \/ Zoo!Crash \/ Zoo!OnNodeCreated
  PROVE  ZooInv'
<1>1. CASE Zoo!Start
  BY <1>1, ClientFollows DEF Zoo!Start, Zoo!Register, Zoo!server, Zoo!client, Zoo!users,
              ZooInv, ZooTypeOK, NodeFollows, ToBeMerged
<1>2. CASE Zoo!End
  <2>1. roles_' = <<>> /\ roles_' \in Seq(Roles) /\ DOMAIN roles_' = {} /\ Range(roles_') = {}
    BY <1>2 DEF Zoo!End, Range
  <2> QED
    BY <1>2, <2>1 DEF Zoo!End, Zoo!server, ZooInv, ZooTypeOK, NodeFollows, RolesFollow, MembersFollow
<1>3. CASE Zoo!OnNodeCreated
  BY <1>3, ClientFollows DEF Zoo!OnNodeCreated, Zoo!server, Zoo!watches, Zoo!client, Zoo!users,
              ZooInv, ZooTypeOK, NodeFollows, ToBeMerged
<1> QED
  BY <1>1, <1>2, <1>3 DEF Zoo!Stop, Zoo!Crash

(* What ReadRole leaves of a ZkRole, while the callback goes on.           *)
LEMMA ReadIntoFollows ==
  ASSUME ZooInv, NEW r \in Roles,
         UNCHANGED <<conf, value, nodeWatch, roles_, readings, isChanged_, user, seen, mergedConfig_,
                     overlooked, again>>,
         \/ Zoo!ReadInto(r) /\ callback' # "idle"
         \/ Zoo!ReadFails /\ callback' = callback
  PROVE  ZooInv'
<1>1. ZooTypeOK' /\ NodeFollows'
  BY DEF ZooInv, ZooTypeOK, NodeFollows, Zoo!ReadInto, Zoo!ReadFails
<1>2. CASE Zoo!ReadFails /\ callback' = callback
  BY <1>1, <1>2, ClientFollows DEF Zoo!ReadFails, ToBeMerged
<1>3. CASE Zoo!ReadInto(r) /\ callback' # "idle"
  <2>1. ToBeMerged' /\ MembersFollow'
    BY <1>3 DEF ToBeMerged, MembersFollow
  <2>2. SUFFICES ASSUME NEW s \in Range(roles_), <<s, readings'>> \in roleWatches'
                 PROVE  RoleFollows(s)'
    BY <1>1, <2>1 DEF ZooInv, RolesFollow
  <2>3. s \in Roles
    BY DEF ZooInv, ZooTypeOK, Range
  <2>4. CASE s = r
    <3>1. value[r] \in Contents /\ info_'[r] = value[r] /\ value' = value
      BY <1>3 DEF Zoo!ReadInto, ZooInv, ZooTypeOK
    <3> QED
      BY <2>1, <2>4, <3>1 DEF RoleFollows
  <2>5. CASE s # r
    <3>1. <<s, readings>> \in roleWatches /\ RoleFollows(s)
      BY <1>3, <2>2, <2>5 DEF Zoo!ReadInto, ZooInv, RolesFollow
    <3>2. info_'[s] = info_[s]
      BY <1>3, <2>3, <2>5 DEF Zoo!ReadInto, ZooInv, ZooTypeOK
    <3> QED
      BY <2>1, <3>1, <3>2 DEF RoleFollows
  <2> QED
    BY <2>4, <2>5
<1> QED
  BY <1>2, <1>3

(* The callbacks.  New ZkRoles have no watches yet, and the flag is set    *)
(* before the callback that read ends.                                     *)
LEMMA CallbacksFollow ==
  ASSUME ZooInv, Zoo!Callbacks
  PROVE  ZooInv'
<1>1. CASE Zoo!SessionEventWatcher
  BY <1>1, ClientFollows DEF Zoo!SessionEventWatcher, Zoo!Register, Zoo!server, Zoo!client, Zoo!users,
              ZooInv, ZooTypeOK, NodeFollows, ToBeMerged
<1>2. CASE Zoo!MonitorNode \/ Zoo!ReadNodeFails \/ \E r \in Roles : Zoo!RoleDeleted(r)
  BY <1>2, ClientFollows DEF Zoo!MonitorNode, Zoo!ReadNodeFails, Zoo!RoleDeleted,
              Zoo!server, Zoo!client, Zoo!users,
              ZooInv, ZooTypeOK, NodeFollows, ToBeMerged
<1>3. CASE Zoo!ReadNode
  <2>1. UNCHANGED <<conf, value, roleWatches, isChanged_, user, seen, overlooked, again>> /\ callback' = "roles"
    BY <1>3 DEF Zoo!ReadNode, Zoo!server
  <2>2. ToBeMerged' /\ MembersFollow'
    BY <2>1 DEF ToBeMerged, MembersFollow
  <2>3. CASE conf = Malformed
    <3>1. UNCHANGED <<roles_, readings, info_, mergedConfig_, corrupted>>
      BY <1>3, <2>3 DEF Zoo!ReadNode
    <3>2. RolesFollow'
      BY <2>1, <2>2, <3>1 DEF ZooInv, RolesFollow, RoleFollows
    <3> QED
      BY <2>1, <2>2, <2>3, <3>1, <3>2 DEF ZooInv, ZooTypeOK, NodeFollows
  <2>4. CASE conf # Malformed
    <3>1. /\ roles_' = conf /\ readings' = readings + 1 /\ conf # Absent
          /\ DOMAIN info_' = Roles
      BY <1>3, <2>4 DEF Zoo!ReadNode
    <3>2. ZooTypeOK'
      BY <2>1, <2>4, <3>1 DEF ZooInv, ZooTypeOK
    <3>3. \A r : <<r, readings'>> \notin roleWatches'
      BY <2>1, <3>1 DEF ZooInv, ZooTypeOK
    <3> QED
      BY <2>1, <2>2, <3>1, <3>2, <3>3 DEF ZooInv, NodeFollows, RolesFollow
  <2> QED
    BY <2>3, <2>4
<1>4. ASSUME NEW r \in Roles, Zoo!ReadRole(r)
      PROVE  ZooInv'
  BY <1>4, ReadIntoFollows DEF Zoo!ReadRole, Zoo!server, Zoo!users
<1>5. ASSUME NEW r \in Roles, Zoo!RoleChanged(r)
      PROVE  ZooInv'
  <2>1. CASE UNCHANGED <<info_, roleWatches, callback>> /\ corrupted'
    <3>1. ToBeMerged' /\ MembersFollow'
      BY <2>1 DEF ToBeMerged, MembersFollow
    <3>2. RolesFollow'
      BY <1>5, <2>1, <3>1 DEF Zoo!RoleChanged, Zoo!server, Zoo!users, ZooInv, RolesFollow, RoleFollows
    <3> QED
      BY <1>5, <2>1, <3>1, <3>2 DEF Zoo!RoleChanged, Zoo!server, Zoo!users, ZooInv, ZooTypeOK, NodeFollows
  <2>2. CASE Zoo!ReadInto(r) /\ callback' = "flag"
    BY <1>5, <2>2, ReadIntoFollows DEF Zoo!RoleChanged, Zoo!server, Zoo!users
  <2>3. CASE Zoo!ReadFails /\ UNCHANGED callback
    BY <1>5, <2>3, ReadIntoFollows DEF Zoo!RoleChanged, Zoo!server, Zoo!users
  <2> QED
    BY <1>5, <2>1, <2>2, <2>3 DEF Zoo!RoleChanged
<1>6. CASE Zoo!SetIsChanged
  BY <1>6, ClientFollows DEF Zoo!SetIsChanged, Zoo!watches, Zoo!server, Zoo!users,
              ZooInv, ZooTypeOK, NodeFollows, ToBeMerged
<1> QED
  BY <1>1, <1>2, <1>3, <1>4, <1>5, <1>6 DEF Zoo!Callbacks

(* GetConfigure.                                                           *)
LEMMA GetConfigureFollows ==
  ASSUME ZooInv, Zoo!GetIsChanged \/ Zoo!ClearIsChanged
  PROVE  ZooInv'
<1>1. CASE Zoo!GetIsChanged
  BY <1>1, ClientFollows DEF Zoo!GetIsChanged, Zoo!watches, Zoo!server, Zoo!client,
              ZooInv, ZooTypeOK, NodeFollows, ToBeMerged
<1>2. CASE Zoo!ClearIsChanged
  BY <1>2, ClientFollows DEF Zoo!ClearIsChanged, Zoo!watches, Zoo!server, Zoo!client,
              ZooInv, ZooTypeOK, NodeFollows, ToBeMerged
<1> QED
  BY <1>1, <1>2

(* MergeConfigure takes what was read of every role that is watched; what  *)
(* it takes of a member comes from the last of the roles that have it.     *)
LEMMA MergingFollows ==
  ASSUME ZooInv, Zoo!MergeConfigure
  PROVE  ZooInv'
<1>1. /\ UNCHANGED <<conf, value, nodeWatch, roleWatches, roles_, readings>>
      /\ info_' = [r \in Roles |-> IF r \in Range(roles_) THEN [m \in DOMAIN info_[r] |-> Moved]
                                   ELSE info_[r]]
      /\ again' = {r \in Range(roles_) : Moved \in Range(info_[r])}
      /\ mergedConfig_' =
           [m \in DOMAIN mergedConfig_ \cup Zoo!Members |->
              IF Zoo!With(m) = {} THEN mergedConfig_[m] ELSE info_[roles_[Zoo!Max(Zoo!With(m))]][m]]
  <2>1. /\ UNCHANGED <<conf, value, nodeWatch, roleWatches, roles_, readings>>
        /\ info_' = [r \in Roles |-> IF r \in Range(roles_) THEN [m \in DOMAIN info_[r] |-> Moved]
                                     ELSE info_[r]]
        /\ again' = {r \in Range(roles_) : Moved \in Range(info_[r])}
    BY DEF Zoo!MergeConfigure, Zoo!MoveOut, Zoo!watches, Zoo!server, Range, Zoo!Range
  <2>2. mergedConfig_' =
           [m \in DOMAIN mergedConfig_ \cup Zoo!Members |->
              IF Zoo!With(m) = {} THEN mergedConfig_[m] ELSE info_[roles_[Zoo!Max(Zoo!With(m))]][m]]
    BY DEF Zoo!MergeConfigure
  <2> QED
    BY <2>1, <2>2
<1>2. ZooTypeOK' /\ NodeFollows'
  BY <1>1 DEF ZooInv, ZooTypeOK, NodeFollows
<1>3. roles_ \in Seq(Roles) /\ DOMAIN roles_ = 1 .. Len(roles_) /\ Len(roles_) \in Nat
  BY DEF ZooInv, ZooTypeOK
<1>4. RolesFollow'
  <2> SUFFICES ASSUME NEW r \in Range(roles_), <<r, readings>> \in roleWatches
               PROVE  RoleFollows(r)'
    BY <1>1 DEF RolesFollow
  <2>1. r \in Roles /\ RoleFollows(r)
    BY <1>3 DEF ZooInv, RolesFollow, Range
  <2>2. info_'[r] = [m \in DOMAIN info_[r] |-> Moved]
    BY <1>1, <2>1
  <2> QED
    BY <1>1, <2>1, <2>2 DEF RoleFollows
<1>5. ASSUME NEW i \in DOMAIN roles_, NEW m, Zoo!LastOf(i, m)
      PROVE  Zoo!Merged(i, m)'
  <2> DEFINE r == roles_[i]
  <2>1. \A j \in i .. Len(roles_) : j \in DOMAIN roles_ /\ roles_[j] \in Range(roles_) /\ roles_[j] \in Roles
    BY <1>3 DEF Range
  <2>2. ASSUME NEW j \in i .. Len(roles_)
        PROVE  RoleFollows(roles_[j])
    <3>1. j = i \/ j \in i + 1 .. Len(roles_)
      BY <1>3
    <3>2. <<roles_[j], readings>> \in roleWatches
      BY <1>5, <3>1 DEF Zoo!LastOf, Zoo!Watched
    <3> QED
      BY <2>1, <3>2 DEF ZooInv, RolesFollow
  <2>3. i \in Zoo!With(m) /\ \A j \in i + 1 .. Len(roles_) : j \notin Zoo!With(m)
    BY <1>3, <1>5, <2>2 DEF Zoo!LastOf, Zoo!With, RoleFollows
  <2>4. \A j \in Zoo!With(m) : j \in 1 .. Len(roles_)
    BY <1>3 DEF Zoo!With
  <2>5. Zoo!Max(Zoo!With(m)) = i
    BY <1>3, <2>3, <2>4 DEF Zoo!Max
  <2>6. r \in Range(roles_) /\ r \in Roles /\ m \in DOMAIN info_[r] /\ m \in DOMAIN value[r] /\ RoleFollows(r)
    BY <1>3, <2>1, <2>2, <2>3 DEF Zoo!With, RoleFollows
  <2>7. m \in DOMAIN mergedConfig_' /\ mergedConfig_'[m] = info_[r][m]
    <3>1. m \in DOMAIN mergedConfig_ \cup Zoo!Members /\ Zoo!With(m) # {}
      BY <2>3, <2>6 DEF Zoo!Members, Range, Zoo!Range
    <3> QED
      BY <1>1, <2>5, <3>1
  <2>8. info_[r][m] = IF r \in again' THEN Moved ELSE value[r][m]
    <3>1. CASE info_[r] = value[r]
      BY <1>1, <2>6, <3>1, ConfigurationAssumption DEF RoleFollows
    <3>2. CASE info_[r][m] = Moved
      <4>1. Moved \in Range(info_[r])
        BY <2>6, <3>2 DEF Range
      <4> QED
        BY <1>1, <2>6, <3>2, <4>1
    <3> QED
      BY <2>6, <3>1, <3>2 DEF RoleFollows
  <2> QED
    BY <1>1, <2>7, <2>8 DEF Zoo!Merged
<1>6. \A i \in DOMAIN roles_ : \A m : Zoo!LastOf(i, m)' <=> Zoo!LastOf(i, m)
  BY <1>1 DEF Zoo!LastOf, Zoo!Watched
<1>7. MembersFollow'
  BY <1>1, <1>5, <1>6 DEF MembersFollow
<1> QED
  BY <1>2, <1>4, <1>7 DEF ZooInv

(* What is merged keeps up with ZooKeeper: when nothing is under way and   *)
(* no change was cleared unseen, the roles of a node that is watched are   *)
(* the server's, and so is each member of a role that is watched, where no *)
(* later role may override it, unless the role was merged again and Null   *)
(* is left; it is never the memory of a role that was freed                *)
(* (zookeeper_client.cpp:57-102, zookeeper_service.cpp:67-75,              *)
(* zookeeper_role.cpp:51-84).                                              *)
THEOREM MergedKeepsUp == Zoo!Spec => []ConfigurationFollows
<1>1. Zoo!Init => ZooInv
  BY ZooInitially
<1>2. ZooInv /\ [Zoo!Next]_(Zoo!vars) => ZooInv'
  <2> SUFFICES ASSUME ZooInv, [Zoo!Next]_(Zoo!vars)
               PROVE  ZooInv'
    OBVIOUS
  <2>1. CASE UNCHANGED Zoo!vars
    BY <2>1, ClientFollows DEF Zoo!vars, Zoo!server, Zoo!registration, Zoo!watches, Zoo!client, Zoo!users,
                ZooInv, ZooTypeOK, NodeFollows, ToBeMerged
  <2> QED
    BY <2>1, ServerFollows, RegistrationFollows, CallbacksFollow, GetConfigureFollows, MergingFollows
       DEF Zoo!Next
<1>3. ZooInv => ConfigurationFollows
  <2> SUFFICES ASSUME ZooInv, events = <<>>, callback = "idle", user = "idle",
                      ~isChanged_, ~overlooked, ~corrupted
               PROVE  /\ nodeWatch = "get" /\ conf # Malformed => roles_ = conf
                      /\ \A i \in DOMAIN roles_ : \A m : Zoo!LastOf(i, m) => Zoo!Merged(i, m)
    BY DEF ConfigurationFollows, Zoo!ConfigurationFollows
  <2>1. ~ToBeMerged
    BY DEF ToBeMerged
  <2> QED
    BY <2>1 DEF ZooInv, NodeFollows, MembersFollow
<1> QED
  BY <1>1, <1>2, <1>3, PTL DEF Zoo!Spec
=============================================================================
