---------------------------- MODULE MySqlSession ----------------------------
(***************************************************************************)
(* MySqlConnection: transactions on one connection of the pool.  _Query    *)
(* sends a statement, and when that fails it sees whether the connection   *)
(* is good, connects again if it is not, and sends the statement once      *)
(* more.  A connection that is lost takes its open transaction with it,    *)
(* and a server may end one when it refuses a statement of it, the victim  *)
(* of a deadlock; what is sent from then on is permanent at once.          *)
(*                                                                         *)
(* The user, of whom src/ has no example, does what the interface is for:  *)
(* it begins, executes Statements, and commits when none returned an error *)
(* and rolls back when one did.  mysql_ping connects again by itself, as   *)
(* MYSQL_OPT_RECONNECT asks it to.                                         *)
(***************************************************************************)
CONSTANT Statements

VARIABLES
  link,     \* "up", "down" unnoticed, or "null": connection_ is nullptr
  open,     \* the server has a transaction open on this connection
  undone,   \* what was done in it, and is not permanent
  stored,   \* statements whose effect is permanent
  user,     \* "idle", "busy", "failed" (an error came), "committed" or "rolled back"
  todo,     \* statements still to execute
  ended,    \* history: the transaction ended since its begin, not by the user,
  before    \* and took these statements with it

vars == <<link, open, undone, stored, user, todo, ended, before>>

Init ==
  /\ link = "up" /\ open = FALSE /\ undone = {} /\ stored = {}
  /\ user = "idle" /\ todo = Statements /\ ended = FALSE /\ before = {}

(* The transaction that is open ends, with all that was done in it.        *)
EndsIt == open' = FALSE /\ undone' = {} /\ ended' = (ended \/ open) /\ before' = before \cup undone

Lose ==
  /\ link = "up"
  /\ link' = "down"
  /\ EndsIt
  /\ UNCHANGED <<stored, user, todo>>

(* _Query: CheckValid or ReConnect gives a connection or closes it for     *)
(* good.  The server may refuse a statement twice.                         *)
Query(done, error) ==
  \/ link = "up" /\ UNCHANGED link /\ (done \/ error)
  \/ link = "down" /\ link' = "up" /\ (done \/ error)
  \/ link \in {"down", "null"} /\ link' = "null" /\ error

(* TransactionBegin tells nobody whether it failed.  A server refuses no   *)
(* START TRANSACTION.                                                      *)
TransactionBegin ==
  /\ user = "idle"
  /\ user' = "busy"
  /\ ended' = FALSE /\ before' = {}
  /\ Query(open' = TRUE, link' = "null" /\ UNCHANGED open)
  /\ UNCHANGED <<undone, stored, todo>>

(* In the transaction, where it was not refused at first or the            *)
(* transaction went on all the same.                                       *)
ExecuteInside(x) ==
  /\ open
  /\ Query(undone' = undone \cup {x} /\ UNCHANGED user, user' = "failed" /\ UNCHANGED undone)
  /\ UNCHANGED <<stored, open, ended, before>>

(* Outside, where none is open or the first refusal ended it.  The answer  *)
(* to what was done may be lost.                                           *)
ExecuteOutside(x) ==
  /\ \/ Query(stored' = stored \cup {x} /\ UNCHANGED user, user' = "failed" /\ UNCHANGED stored)
     \/ link # "null" /\ link' = "down" /\ stored' = stored \cup {x} /\ user' = "failed"
  /\ EndsIt

Execute(x) ==
  /\ user = "busy" /\ x \in todo
  /\ todo' = todo \ {x}
  /\ ExecuteInside(x) \/ ExecuteOutside(x)

(* COMMIT and ROLLBACK do nothing where no transaction is open.  A COMMIT  *)
(* that is refused ends the transaction, and the second finds none.        *)
Commit ==
  /\ user = "busy" /\ todo = {}
  /\ user' = "committed"
  /\ Query(\/ stored' = stored \cup undone /\ open' = FALSE /\ undone' = {} /\ UNCHANGED <<ended, before>>
           \/ EndsIt /\ UNCHANGED stored,
           link' = "null" /\ UNCHANGED <<stored, open, undone, ended, before>>)
  /\ UNCHANGED todo

(* A mistake to be caught: ROLLBACK sends COMMIT.                          *)
RollbackCommits ==
  /\ user = "failed"
  /\ user' = "rolled back"
  /\ Query(stored' = stored \cup undone /\ open' = FALSE /\ undone' = {},
           link' = "null" /\ UNCHANGED <<stored, open, undone>>)
  /\ UNCHANGED <<todo, ended, before>>

Rollback ==
  /\ user = "failed"
  /\ user' = "rolled back"
  /\ Query(open' = FALSE /\ undone' = {}, link' = "null" /\ UNCHANGED <<open, undone>>)
  /\ UNCHANGED <<stored, todo, ended, before>>

(* PutConnection, and the next transaction.                                *)
Again ==
  /\ user \in {"committed", "rolled back"}
  /\ user' = "idle" /\ todo' = Statements /\ stored' = {}
  /\ UNCHANGED <<link, open, undone, ended, before>>

Next ==
  Lose \/ TransactionBegin \/ (\E x \in Statements : Execute(x)) \/ Commit \/ Rollback \/ Again

Spec == Init /\ [][Next]_vars

-----------------------------------------------------------------------------
(* A transaction that was open until the user ended it is stored as a      *)
(* whole or not at all.  Of one that ended before, by the loss of the      *)
(* connection or by a refusal, _Query goes on with the next statement      *)
(* where no transaction is open (mysql_connection.cpp:91-122,200-211): of  *)
(* what was then committed exactly the statements before the end are       *)
(* missing, and none of them is stored when it was rolled back.  What      *)
(* happened to the connection before the begin does no harm.               *)
AtomicUnlessEnded ==
  /\ user = "committed" => stored = Statements \ before /\ (ended \/ before = {})
  /\ user = "rolled back" => stored \cap before = {} /\ (ended \/ stored = {})
=============================================================================
