------------------------------ MODULE ZooKeeper ------------------------------
(***************************************************************************)
(* ZkService: it registers its node with ZooKeeper, and it keeps up with   *)
(* the configuration there, which is the list of roles of the node and the *)
(* members of each role.  Watches fire once and are set again by reading.  *)
(* The callbacks run one after the other in a thread of ZooKeeper's, and   *)
(* GetConfigure is called by a user's.                                     *)
(*                                                                         *)
(* A ZkRole is known by its role and by the reading of the node that made  *)
(* it, counted in readings.  What a callback or a merge does to an object  *)
(* that is freed, or that the other thread is using, is undefined, and the *)
(* behaviour ends there, corrupted.  The values of members are those with  *)
(* memory of their own, such as strings.                                   *)
(***************************************************************************)
EXTENDS Integers, FiniteSets, SequencesExt

CONSTANTS
  Roles,
  Contents,      \* what a role can have in it: members with values, none if it is no object
  Absent, Malformed,  \* a node that is not there, and one without a member "roles"
  Moved,         \* Null, which is left of a value that was moved
  Freed,         \* a value whose memory is freed
  MaxChanges     \* bound: how often the configuration is changed

VARIABLES
  conf, value,       \* the server: the list of the node's roles, and what each has in it,
  changes,           \* how often these changed,
  service,           \* the node of the service: "none", "ours", or "older", an earlier process's
  session,           \* "none", "alive" or "expired"
  nodeWatch,         \* "none", "exists" or "get"
  roleWatches,       \* the ZkRoles with a watch: pairs of a role and a reading
  events,            \* what has fired and is not handled
  creating,          \* whether the answer to zoo_acreate is awaited
  refused,           \* history: the answer was an error
  roles_, readings, info_, isChanged_,
  callback, toRead,  \* where node_change_watcher or role_change_watcher is
  user, seen,        \* where GetConfigure is, and what it read of isChanged_
  mergedConfig_,
  overlooked,        \* history: a change was cleared that was not seen,
  again,             \* and roles that were merged for a second time since they were read
  corrupted

server == <<conf, value, changes>>
registration == <<service, creating, refused>>
watches == <<session, nodeWatch, roleWatches, events>>
client == <<roles_, readings, info_, callback, toRead>>
users == <<user, seen, mergedConfig_, overlooked, again>>
vars == <<server, registration, watches, client, isChanged_, users, corrupted>>

Lists == UNION {{list \in [1 .. n -> Roles] : IsInjective(list)} : n \in 0 .. Cardinality(Roles)}

Nothing == [m \in {} |-> Moved]

Init ==
  /\ conf \in {Absent} \cup Lists /\ value \in [Roles -> Contents] /\ changes = 0
  /\ service = "none" /\ creating = FALSE /\ refused = FALSE
  /\ session = "none" /\ nodeWatch = "none" /\ roleWatches = {} /\ events = <<>>
  /\ roles_ = <<>> /\ readings = 0 /\ info_ = [r \in Roles |-> Nothing] /\ isChanged_ = FALSE
  /\ callback = "idle" /\ toRead = {}
  /\ user = "idle" /\ seen = FALSE /\ mergedConfig_ = Nothing
  /\ overlooked = FALSE /\ again = {} /\ corrupted = FALSE

-----------------------------------------------------------------------------
(* The server.                                                             *)

Fire(path, kind, watching) ==
  events' = events \o SetToSeq({[path |-> path, kind |-> kind, reading |-> n] : n \in watching})

ChangeKind(old, new) ==
  CASE old = Absent -> "CREATED" [] new = Absent -> "DELETED" [] OTHER -> "CHANGED"

SetNode(c) ==
  /\ changes < MaxChanges /\ c # conf
  /\ conf' = c /\ changes' = changes + 1
  /\ Fire("node", ChangeKind(conf, c), IF nodeWatch = "none" THEN {} ELSE {0})
  /\ nodeWatch' = "none"
  /\ UNCHANGED <<value, session, roleWatches, registration, client, isChanged_, users, corrupted>>

SetRole(r, v) ==
  /\ changes < MaxChanges /\ v # value[r]
  /\ value' = [value EXCEPT ![r] = v] /\ changes' = changes + 1
  /\ Fire(r, ChangeKind(value[r], v), {n \in 1 .. readings : <<r, n>> \in roleWatches})
  /\ roleWatches' = {w \in roleWatches : w[1] # r}
  /\ UNCHANGED <<conf, session, nodeWatch, registration, client, isChanged_, users, corrupted>>

Expire ==
  /\ session = "alive"
  /\ session' = "expired"
  /\ nodeWatch' = "none" /\ roleWatches' = {} /\ creating' = FALSE
  /\ Fire("session", "EXPIRED", {0})
  /\ service' = IF service = "ours" THEN "none" ELSE service
  /\ UNCHANGED <<refused, server, client, isChanged_, users, corrupted>>

OlderExpires ==
  /\ service = "older"
  /\ service' = "none"
  /\ UNCHANGED <<creating, refused, server, watches, client, isChanged_, users, corrupted>>

-----------------------------------------------------------------------------
(* Registration.                                                           *)

(* InitSession, MonitorNode and CreateNode.  MonitorNode does not read,    *)
(* and CreateNode's first half is repeated until it succeeds.              *)
Register ==
  /\ session' = "alive"
  /\ nodeWatch' = "exists" /\ roleWatches' = {} /\ events' = <<>>
  /\ creating' = TRUE /\ refused' = FALSE

Start ==
  /\ session = "none"
  /\ Register
  /\ UNCHANGED <<service, server, client, isChanged_, users, corrupted>>

(* The process ends, and another will begin.                               *)
End ==
  /\ session # "none"
  /\ creating' = FALSE /\ refused' = FALSE
  /\ session' = "none" /\ nodeWatch' = "none" /\ roleWatches' = {} /\ events' = <<>>
  /\ roles_' = <<>> /\ readings' = 0 /\ info_' = [r \in Roles |-> Nothing] /\ isChanged_' = FALSE
  /\ callback' = "idle" /\ toRead' = {}
  /\ user' = "idle" /\ seen' = FALSE /\ mergedConfig_' = Nothing
  /\ overlooked' = FALSE /\ again' = {} /\ corrupted' = FALSE
  /\ UNCHANGED server

(* zookeeper_close waits for the callback that is running.                 *)
Stop ==
  /\ callback = "idle" /\ user = "idle" /\ ~corrupted
  /\ End
  /\ service' = IF service = "ours" THEN "none" ELSE service

(* The session lives on.                                                   *)
Crash ==
  /\ End
  /\ service' = IF service = "ours" THEN "older" ELSE service

(* on_node_created: with an error, which is also that the node exists, or  *)
(* that it was created but the answer lost, ZooKeeper gives no path, and   *)
(* nothing is done.                                                        *)
OnNodeCreated ==
  /\ creating
  /\ creating' = FALSE
  /\ \/ service = "none" /\ service' = "ours" /\ UNCHANGED refused
     \/ refused' = TRUE /\ service' \in {service, IF service = "none" THEN "ours" ELSE service}
  /\ UNCHANGED <<server, watches, client, isChanged_, users, corrupted>>

-----------------------------------------------------------------------------
(* The callbacks.                                                          *)

Handles(path, kinds) ==
  /\ callback = "idle" /\ events # <<>> /\ ~corrupted
  /\ Head(events).path = path /\ Head(events).kind \in kinds

(* A mistake to be caught: the handle of the dead session is kept.         *)
SessionIgnored ==
  /\ Handles("session", {"EXPIRED"})
  /\ events' = Tail(events)
  /\ UNCHANGED <<session, nodeWatch, roleWatches, registration, server, client, isChanged_, users, corrupted>>

SessionEventWatcher ==
  /\ Handles("session", {"EXPIRED"})
  /\ Register
  /\ UNCHANGED <<service, server, client, isChanged_, users, corrupted>>

(* A node that is gone is watched for.  With a session that has expired    *)
(* MonitorNode fails, and it tries again for ever.                         *)
MonitorNode ==
  /\ Handles("node", {"DELETED"}) /\ session = "alive"
  /\ nodeWatch' = "exists"
  /\ events' = Tail(events)
  /\ UNCHANGED <<session, roleWatches, registration, server, client, isChanged_, users, corrupted>>

(* ReadNode fails: nothing watches the node any more.                      *)
ReadNodeFails ==
  /\ Handles("node", {"CREATED", "CHANGED"})
  /\ events' = Tail(events)
  /\ UNCHANGED <<session, nodeWatch, roleWatches, registration, server, client, isChanged_, users, corrupted>>

(* ReadNode with Update, UpdateRoles and ResetRoles: new ZkRoles take the  *)
(* place of the old, with which go the values that were moved out of them. *)
(* A node without roles leaves the old ones, which are read again.         *)
ReadNode ==
  /\ Handles("node", {"CREATED", "CHANGED"}) /\ session = "alive" /\ conf # Absent
  /\ events' = Tail(events)
  /\ nodeWatch' = "get"
  /\ IF conf = Malformed
     THEN toRead' = Range(roles_) /\ UNCHANGED <<roles_, readings, info_, mergedConfig_, corrupted>>
     ELSE /\ roles_' = conf /\ toRead' = Range(conf) /\ readings' = readings + 1
          /\ info_' = [r \in Roles |-> Nothing]
          /\ mergedConfig_' = [m \in DOMAIN mergedConfig_ |-> IF mergedConfig_[m] = Moved THEN Moved ELSE Freed]
          /\ corrupted' = (user = "merging")
  /\ callback' = "roles"
  /\ UNCHANGED <<session, roleWatches, registration, server, isChanged_, user, seen, overlooked, again>>

(* ReadRole into a ZkRole.  Its context is a new one each time.            *)
ReadInto(r) ==
  /\ session = "alive" /\ value[r] # Absent
  /\ info_' = [info_ EXCEPT ![r] = value[r]]
  /\ roleWatches' = roleWatches \cup {<<r, readings>>}
  /\ corrupted' = (user = "merging")

ReadFails == UNCHANGED <<info_, roleWatches, corrupted>>

(* One turn of node_change_watcher's loop, whose failures change nothing.  *)
ReadRole(r) ==
  /\ callback = "roles" /\ r \in toRead /\ ~corrupted
  /\ ReadInto(r) \/ ReadFails
  /\ toRead' = toRead \ {r}
  /\ UNCHANGED <<session, nodeWatch, events, registration, server, roles_, readings, callback, isChanged_, users>>

SetIsChanged ==
  /\ callback = "flag" \/ (callback = "roles" /\ toRead = {})
  /\ ~corrupted
  /\ callback' = "idle"
  /\ isChanged_' = TRUE
  /\ UNCHANGED <<watches, registration, server, roles_, readings, info_, toRead, users, corrupted>>

OfFreed(event) == event.reading # readings

(* A mistake to be caught: the role is taken as it was, and only watched.  *)
RoleWatchedOnly(r) ==
  /\ Handles(r, {"CHANGED"})
  /\ events' = Tail(events)
  /\ IF OfFreed(Head(events))
     THEN corrupted' = TRUE /\ UNCHANGED <<roleWatches, callback>>
     ELSE /\ session = "alive" /\ value[r] # Absent
          /\ roleWatches' = roleWatches \cup {<<r, readings>>}
          /\ callback' = "flag" /\ UNCHANGED corrupted
  /\ UNCHANGED <<session, nodeWatch, registration, server, roles_, readings, info_, toRead, isChanged_, users>>

(* role_change_watcher: the ZkRole of its context may be freed.            *)
RoleChanged(r) ==
  /\ Handles(r, {"CHANGED"})
  /\ events' = Tail(events)
  /\ \/ OfFreed(Head(events)) /\ corrupted' = TRUE /\ UNCHANGED <<info_, roleWatches, callback>>
     \/ ~OfFreed(Head(events)) /\ ReadInto(r) /\ callback' = "flag"
     \/ ~OfFreed(Head(events)) /\ ReadFails /\ UNCHANGED callback
  /\ UNCHANGED <<session, nodeWatch, registration, server, roles_, readings, toRead, isChanged_, users>>

RoleDeleted(r) ==
  /\ Handles(r, {"DELETED"})
  /\ events' = Tail(events)
  /\ UNCHANGED <<session, nodeWatch, roleWatches, registration, server, client, isChanged_, users, corrupted>>

-----------------------------------------------------------------------------
(* GetConfigure.                                                           *)

GetIsChanged ==
  /\ user = "idle" /\ session # "none" /\ ~corrupted
  /\ seen' = isChanged_
  /\ user' = "clear"
  /\ UNCHANGED <<mergedConfig_, overlooked, again, watches, registration, server, client, isChanged_, corrupted>>

ClearIsChanged ==
  /\ user = "clear" /\ ~corrupted
  /\ isChanged_' = FALSE
  /\ overlooked' = (~seen /\ (isChanged_ \/ overlooked))
  /\ user' = IF seen THEN "merging" ELSE "idle"
  /\ UNCHANGED <<seen, mergedConfig_, again, watches, registration, server, client, corrupted>>

(* The roles of the list that have a member m, by their places.            *)
With(m) == {i \in DOMAIN roles_ : m \in DOMAIN info_[roles_[i]]}

Members == UNION {DOMAIN info_[r] : r \in Range(roles_)}

(* AddMember moves a value, and leaves Null in its place.                  *)
MoveOut ==
  /\ info_' = [r \in Roles |-> IF r \in Range(roles_) THEN [m \in DOMAIN info_[r] |-> Moved] ELSE info_[r]]
  /\ again' = {r \in Range(roles_) : Moved \in Range(info_[r])}
  /\ user' = "idle"
  /\ UNCHANGED <<seen, overlooked, watches, registration, server,
                 roles_, readings, callback, toRead, isChanged_, corrupted>>

(* A mistake to be caught: members that are there already are kept.        *)
MergeNewOnly ==
  /\ user = "merging" /\ ~corrupted
  /\ mergedConfig_' =
       [m \in DOMAIN mergedConfig_ \cup Members |->
          IF m \in DOMAIN mergedConfig_ THEN mergedConfig_[m] ELSE info_[roles_[Max(With(m))]][m]]
  /\ MoveOut

(* Role after role each member takes the place of the one that was there:  *)
(* of those in several roles the last is left, and those that are in none  *)
(* any more stay.                                                          *)
MergeConfigure ==
  /\ user = "merging" /\ ~corrupted
  /\ mergedConfig_' =
       [m \in DOMAIN mergedConfig_ \cup Members |->
          IF With(m) = {} THEN mergedConfig_[m] ELSE info_[roles_[Max(With(m))]][m]]
  /\ MoveOut

-----------------------------------------------------------------------------
Callbacks ==
  \/ SessionEventWatcher \/ MonitorNode \/ ReadNodeFails \/ ReadNode
  \/ \E r \in Roles : ReadRole(r) \/ RoleChanged(r) \/ RoleDeleted(r)
  \/ SetIsChanged

Next ==
  \/ \E c \in {Absent, Malformed} \cup Lists : SetNode(c)
  \/ \E r \in Roles, v \in Contents \cup {Absent} : SetRole(r, v)
  \/ Expire \/ OlderExpires
  \/ Start \/ Stop \/ Crash \/ OnNodeCreated
  \/ Callbacks
  \/ GetIsChanged \/ ClearIsChanged \/ MergeConfigure

(* ZooKeeper's thread goes on, and some time a session lasts until its     *)
(* creation is answered.                                                   *)
Fairness ==
  /\ WF_vars(Start) /\ WF_vars(Callbacks)
  /\ SF_vars(OnNodeCreated)

Spec == Init /\ [][Next]_vars /\ Fairness

-----------------------------------------------------------------------------
(* When nothing is under way and no change was overlooked between reading  *)
(* and clearing the flag, then the roles of a node that is watched by a    *)
(* read are the server's; and a member of a role that is watched is the    *)
(* server's, or Null if the role was merged again since it was read, as    *)
(* long as no later role has it or may have it.  So it is never the memory *)
(* of a role that was freed (zookeeper_client.cpp:57-102,                  *)
(* zookeeper_service.cpp:67-75, zookeeper_role.cpp:51-84).                 *)
Watched(i) == <<roles_[i], readings>> \in roleWatches

LastOf(i, m) ==
  /\ Watched(i) /\ m \in DOMAIN value[roles_[i]]
  /\ \A j \in i + 1 .. Len(roles_) : Watched(j) /\ m \notin DOMAIN value[roles_[j]]

Merged(i, m) ==
  /\ m \in DOMAIN mergedConfig_
  /\ mergedConfig_[m] = IF roles_[i] \in again THEN Moved ELSE value[roles_[i]][m]

ConfigurationFollows ==
  (/\ events = <<>> /\ callback = "idle" /\ user = "idle"
   /\ ~isChanged_ /\ ~overlooked /\ ~corrupted) =>
     /\ nodeWatch = "get" /\ conf # Malformed => roles_ = conf
     /\ \A i \in DOMAIN roles_ : Watched(i) =>
          \A m \in DOMAIN value[roles_[i]] : LastOf(i, m) => Merged(i, m)

(* A service that runs is registered time and again, whatever sessions are *)
(* lost, unless its creation was refused in a session, by an error or the  *)
(* node of an earlier process, which is not tried again in this session;   *)
(* or its session expired while the deletion of its node in the            *)
(* configuration was to be handled, which then never ends                  *)
(* (zookeeper_client.cpp:10-47,223-236).                                   *)
Stuck ==
  /\ session = "expired"
  /\ \E i \in DOMAIN events : events[i].path = "node" /\ events[i].kind = "DELETED"

RegisteredAgain == []<>(service = "ours" \/ refused \/ Stuck \/ corrupted \/ session = "none")
=============================================================================
