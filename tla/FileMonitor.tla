----------------------------- MODULE FileMonitor -----------------------------
(***************************************************************************)
(* FileMonitor: a thread looks at the times of files once a second and     *)
(* notes which changed; their callbacks are called by the same thread, or  *)
(* by whoever calls Update.  The maps have no mutex.  When one thread      *)
(* writes a map that the other goes through, the outcomes modelled are     *)
(* that the write takes effect in between, and that the process ends.      *)
(*                                                                         *)
(* Times are whole seconds: a file that is changed, and looked at, twice   *)
(* in one has not changed for the monitor.                                 *)
(***************************************************************************)
EXTENDS Integers

CONSTANTS
  Files,
  None,     \* no time: of a file that is not there, or not in mapFileList_
  MaxTime   \* bound: seconds in which files change

VARIABLES
  now, modTime,      \* the time, and that of each file
  type_,             \* who calls back: "thread" or "update"
  isRunning_,
  mapFileList_,      \* of each file: the time it had, or None
  mapFileCallback_,  \* the files with a callback
  changedFileList_,  \* the files that changed
  thread, toCheck,   \* where the monitor's thread is, and the files it has still to look at
  caller, toCall,    \* where ProcessCallback is, and the files it has still to call back
  reported,   \* history: files whose callback was called, or that were added, since they changed
  overlooked, \* files whose change was noted while the list was gone through
  ended       \* the process has crashed

fileVars == <<now, modTime>>
lists == <<mapFileList_, mapFileCallback_>>
checkVars == <<thread, toCheck>>
callVars == <<caller, toCall>>
vars == <<fileVars, lists, checkVars, callVars, type_, isRunning_, changedFileList_,
          reported, overlooked, ended>>

Listed == {f \in Files : mapFileList_[f] # None}

Init ==
  /\ now = 1 /\ modTime \in [Files -> {None, 1}]
  /\ type_ \in {"thread", "update"} /\ isRunning_ = FALSE
  /\ mapFileList_ = [f \in Files |-> None] /\ mapFileCallback_ = {}
  /\ changedFileList_ = {}
  /\ thread = "off" /\ toCheck = {}
  /\ caller = "idle" /\ toCall = {}
  /\ reported = {} /\ overlooked = {} /\ ended = FALSE

-----------------------------------------------------------------------------
Tick ==
  /\ now < MaxTime
  /\ now' = now + 1
  /\ UNCHANGED <<modTime, lists, checkVars, callVars, type_, isRunning_, changedFileList_,
                 reported, overlooked, ended>>

Change(f) ==
  /\ \E t \in {now, None} \ {modTime[f], mapFileList_[f]} : modTime' = [modTime EXCEPT ![f] = t]
  /\ reported' = reported \ {f}
  /\ overlooked' = overlooked \ {f}
  /\ UNCHANGED <<now, lists, checkVars, callVars, type_, isRunning_, changedFileList_, ended>>

(* The lists are written while the thread uses them, or not.  Who calls    *)
(* Update writes them between two calls.                                   *)
WritesLists ==
  /\ type_ = "update" => caller = "idle"
  /\ ended' \in {FALSE, (thread \in {"check", "call"})}

AddFile(f) ==
  /\ ~ended /\ modTime[f] # None
  /\ mapFileList_' = [mapFileList_ EXCEPT ![f] = modTime[f]]
  /\ mapFileCallback_' = mapFileCallback_ \cup {f}
  /\ WritesLists
  /\ reported' = reported \cup {f}
  /\ UNCHANGED <<fileVars, checkVars, callVars, type_, isRunning_, changedFileList_, overlooked>>

(* What has changed stays noted.                                           *)
DeleteFile(f) ==
  /\ ~ended /\ f \in mapFileCallback_
  /\ mapFileList_' = [mapFileList_ EXCEPT ![f] = None]
  /\ mapFileCallback_' = mapFileCallback_ \ {f}
  /\ WritesLists
  /\ UNCHANGED <<fileVars, checkVars, callVars, type_, isRunning_, changedFileList_, reported, overlooked>>

Start ==
  /\ thread = "off" /\ ~isRunning_ /\ ~ended
  /\ isRunning_' = TRUE
  /\ thread' = "sleep"
  /\ UNCHANGED <<fileVars, lists, toCheck, callVars, type_, changedFileList_, reported, overlooked, ended>>

(* Stop joins the thread, which is not started again.                      *)
Stop ==
  /\ isRunning_ /\ ~ended /\ (type_ = "update" => caller = "idle")
  /\ isRunning_' = FALSE
  /\ UNCHANGED <<fileVars, lists, checkVars, callVars, type_, changedFileList_, reported, overlooked, ended>>

-----------------------------------------------------------------------------
(* The thread.                                                             *)
CheckModification ==
  /\ thread = "sleep" /\ isRunning_ /\ ~ended
  /\ thread' = "check"
  /\ toCheck' = Listed
  /\ UNCHANGED <<fileVars, lists, callVars, type_, isRunning_, changedFileList_, reported, overlooked, ended>>

(* A file that changed is noted, and one that is gone is followed no more. *)
(* ProcessCallback may be going through the list of those that changed.    *)
Note(f) ==
  /\ mapFileList_' = [mapFileList_ EXCEPT ![f] = modTime[f]]
  /\ changedFileList_' = changedFileList_ \cup {f}
  /\ IF caller = "call"
     THEN /\ toCall' \in {toCall, toCall \cup {f}}
          /\ overlooked' = overlooked \cup {f}
          /\ ended' \in BOOLEAN
     ELSE UNCHANGED <<toCall, overlooked, ended>>

(* A mistake to be caught: a file that is gone is passed over.             *)
CheckOnlyModified(f) ==
  /\ thread = "check" /\ f \in toCheck /\ ~ended
  /\ toCheck' = toCheck \ {f}
  /\ IF f \in Listed /\ modTime[f] \notin {None, mapFileList_[f]}
     THEN Note(f)
     ELSE UNCHANGED <<mapFileList_, changedFileList_, toCall, overlooked, ended>>
  /\ UNCHANGED <<fileVars, mapFileCallback_, thread, caller, type_, isRunning_, reported>>

CheckFile(f) ==
  /\ thread = "check" /\ f \in toCheck /\ ~ended
  /\ toCheck' = toCheck \ {f}
  /\ IF f \in Listed /\ modTime[f] # mapFileList_[f]
     THEN Note(f)
     ELSE UNCHANGED <<mapFileList_, changedFileList_, toCall, overlooked, ended>>
  /\ UNCHANGED <<fileVars, mapFileCallback_, thread, caller, type_, isRunning_, reported>>

(* The thread calls back itself, or sleeps, or sees that it is to end.     *)
Checked ==
  /\ thread = "check" /\ toCheck = {} /\ ~ended
  /\ IF type_ = "thread" /\ changedFileList_ # {}
     THEN thread' = "call" /\ caller' = "call" /\ toCall' = changedFileList_
     ELSE thread' = "sleep" /\ UNCHANGED callVars
  /\ UNCHANGED <<fileVars, lists, toCheck, type_, isRunning_, changedFileList_, reported, overlooked, ended>>

ThreadEnds ==
  /\ thread = "sleep" /\ ~isRunning_
  /\ thread' = "ended"
  /\ UNCHANGED <<fileVars, lists, toCheck, callVars, type_, isRunning_, changedFileList_,
                 reported, overlooked, ended>>

-----------------------------------------------------------------------------
(* ProcessCallback.                                                        *)
Update ==
  /\ type_ = "update" /\ caller = "idle" /\ changedFileList_ # {} /\ ~ended
  /\ caller' = "call" /\ toCall' = changedFileList_
  /\ UNCHANGED <<fileVars, lists, checkVars, type_, isRunning_, changedFileList_, reported, overlooked, ended>>

(* A file that was deleted has no callback left, and none is called.       *)
Call(f) ==
  /\ caller = "call" /\ f \in toCall /\ ~ended
  /\ toCall' = toCall \ {f}
  /\ ended' = (f \notin mapFileCallback_)
  /\ reported' = reported \cup {f}
  /\ UNCHANGED <<fileVars, lists, checkVars, caller, type_, isRunning_, changedFileList_, overlooked>>

Clear ==
  /\ caller = "call" /\ toCall = {} /\ ~ended
  /\ changedFileList_' = {}
  /\ caller' = "idle" /\ toCall' = {}
  /\ thread' = IF type_ = "thread" THEN "sleep" ELSE thread
  /\ UNCHANGED <<fileVars, lists, toCheck, type_, isRunning_, reported, overlooked, ended>>

-----------------------------------------------------------------------------
Thread == CheckModification \/ (\E f \in Files : CheckFile(f)) \/ Checked \/ ThreadEnds

ProcessCallback == Update \/ (\E f \in Files : Call(f)) \/ Clear

Next ==
  \/ Tick \/ \E f \in Files : Change(f) \/ AddFile(f) \/ DeleteFile(f)
  \/ Start \/ Stop
  \/ Thread
  \/ ProcessCallback

(* The thread goes on, and who calls Update calls it again and again.      *)
Fairness == WF_vars(Start) /\ WF_vars(Thread) /\ WF_vars(ProcessCallback)

Spec == Init /\ [][Next]_vars /\ Fairness

-----------------------------------------------------------------------------
(* A file in the list that changes is called back for in the end, unless   *)
(* it is taken out, the monitor is stopped, or the change was noted while  *)
(* the list of changes was gone through, which then is cleared             *)
(* (file_monitor.cpp:83-120).                                              *)
ChangesReported ==
  \A f \in Files :
    f \in Listed /\ modTime[f] # mapFileList_[f] ~>
      f \in reported \cup overlooked \/ f \notin mapFileCallback_ \/ ended \/ (thread # "off" /\ ~isRunning_)
=============================================================================
