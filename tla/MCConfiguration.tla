--------------------------- MODULE MCConfiguration ---------------------------
(***************************************************************************)
(* The two ways a server keeps up with what is configured elsewhere, for   *)
(* TLC: ZooKeeper's nodes and files.  They share nothing, and part says    *)
(* whose behaviour this is; the other stays as it begins.                  *)
(***************************************************************************)
EXTENDS Integers, FiniteSets, Functions

CONSTANTS
  Roles, Contents, Absent, Malformed, Moved, Freed, MaxChanges, \* of ZooKeeper
  Files, None                                                   \* of FileMonitor

(* What a role can have in it is neither Null nor freed.                   *)
ASSUME ConfigurationAssumption ==
  /\ IsFiniteSet(Roles)
  /\ \A c \in Contents : Moved \notin Range(c) /\ Freed \notin Range(c)

(* Members that come, go and change, and one that several roles can have.  *)
MCContents ==
  {[m \in {} |-> 0], [m \in {1} |-> 1], [m \in {1} |-> 2], [m \in {1, 2} |-> 1]}

VARIABLES
  part,
  conf, value, changes, service, session, nodeWatch, roleWatches, events, creating, refused,
  roles_, readings, info_, isChanged_, callback, toRead, user, seen, mergedConfig_,
  overlooked, again, corrupted,
  now, modTime, type_, monitoring, mapFileList_, mapFileCallback_, changedFileList_,
  thread, toCheck, caller, toCall, reported, notedLate, ended

Zoo == INSTANCE ZooKeeper

Monitor == INSTANCE FileMonitor WITH
  MaxTime <- 2, overlooked <- notedLate, isRunning_ <- monitoring

zooVars == <<conf, value, changes, service, session, nodeWatch, roleWatches, events, creating,
  refused, roles_, readings, info_, isChanged_, callback, toRead, user, seen, mergedConfig_,
  overlooked, again, corrupted>>
monitorVars == <<now, modTime, type_, monitoring, mapFileList_, mapFileCallback_, changedFileList_,
  thread, toCheck, caller, toCall, reported, notedLate, ended>>
configurationVars == <<part, zooVars, monitorVars>>

(* The roles begin alike: each overrides the ones before it.               *)
ConfigurationInit ==
  /\ part \in {"zookeeper", "files"}
  /\ Zoo!Init /\ (\A r, s \in Roles : value[r] = value[s])
  /\ (conf # Absent => Range(conf) = Roles)
  /\ part = "zookeeper" \/ (conf = Absent /\ value = [r \in Roles |-> [m \in {} |-> 0]])
  /\ Monitor!Init /\ (part = "files" \/ (type_ = "thread" /\ modTime = [f \in Files |-> None]))

ConfigurationNext ==
  /\ UNCHANGED part
  /\ \/ part = "zookeeper" /\ Zoo!Next /\ UNCHANGED monitorVars
     \/ part = "files" /\ Monitor!Next /\ UNCHANGED zooVars

(* The fairness of each part, which it owes when it is the one that moves. *)
ZooKeeperFairness ==
  /\ WF_zooVars(part = "zookeeper" /\ Zoo!Start) /\ WF_zooVars(part = "zookeeper" /\ Zoo!Callbacks)
  /\ SF_zooVars(part = "zookeeper" /\ Zoo!OnNodeCreated)

MonitorFairness ==
  /\ WF_monitorVars(part = "files" /\ Monitor!Start)
  /\ WF_monitorVars(part = "files" /\ Monitor!Thread)
  /\ WF_monitorVars(part = "files" /\ Monitor!ProcessCallback)

ConfigurationSpec ==
  ConfigurationInit /\ [][ConfigurationNext]_configurationVars /\ ZooKeeperFairness /\ MonitorFairness

-----------------------------------------------------------------------------
(* Of ZooKeeper (zookeeper_client.cpp:10-102,223-236,                      *)
(* zookeeper_service.cpp:67-75, zookeeper_role.cpp:51-84).                 *)
ConfigurationFollows == Zoo!ConfigurationFollows
RegisteredAgain == Zoo!RegisteredAgain

(* Of the files (file_monitor.cpp:83-120).                                 *)
ChangesReported == Monitor!ChangesReported
=============================================================================
