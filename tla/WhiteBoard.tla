----------------------------- MODULE WhiteBoard -----------------------------
(***************************************************************************)
(* The white board itself: the rooms of RoomManager, the players' sessions *)
(* of PlayerManager, and what each player is shown.                        *)
(*                                                                         *)
(* One thread, the game loop's, runs every handler to its end, so a        *)
(* handler is one action.  A session is made by the first packet of its    *)
(* connection (AccountService::OnRecvPacket) and destroyed when the        *)
(* connection closes.  Players send any packet at any time.                *)
(*                                                                         *)
(* What the server sends is modelled by its effect on the player who       *)
(* receives it: `canvas' is the drawing a client shows that starts blank   *)
(* when it enters a room and applies the shape messages it is sent,        *)
(* `player_list' and `room_list' are the last lists it was sent while in   *)
(* a room.  Status and error replies change no state and are left out.     *)
(*                                                                         *)
(* A room is identified by its key: Membership shows that a Room* held by  *)
(* a session always points to the live room of that key.  Time is kept     *)
(* relative: can_delete_time_ is in seconds from now, Never stands for the *)
(* code's 0, and -1 for any time in the past.                              *)
(***************************************************************************)
EXTENDS ShapeStore

CONSTANTS
  Sessions,    \* the players, one connection each
  Keys,        \* the room keys
  Names,       \* the names players give themselves
  DeleteDelay, \* seconds an empty room is kept: 3600 in the code
  NULL,        \* nullptr, the empty name, or a list not sent yet
  Never        \* can_delete_time_ = 0: the room may not be deleted

ASSUME WhiteBoardAssumption ==
  /\ DeleteDelay \in Nat
  /\ Never \notin Int
  /\ NULL \notin Keys \cup Names

VARIABLES
  up,               \* FALSE once the process has crashed
  rooms_,           \* RoomManager::rooms_, the keys in use
  sessions_,        \* Room::sessions_ of each room
  board,            \* Room::shape_object_ and shape_max_id_ of each room
  can_delete_time_, \* Room::can_delete_time_ of each room
  player_sessions_, \* PlayerManager::player_sessions_
  room_,            \* PlayerSession::room_
  usr_name_,        \* PlayerSession::usr_name_
  canvas,           \* the drawing each player sees
  player_list,      \* the players each player was last told of
  room_list         \* the rooms each player was last told of

viewVars == <<canvas, player_list, room_list>>
vars == <<up, rooms_, sessions_, board, can_delete_time_,
          player_sessions_, room_, usr_name_, canvas, player_list, room_list>>

-----------------------------------------------------------------------------
(* Being told.  The list of a room's players is sent with the names they   *)
(* have at that moment, the list of rooms only to players in a room.       *)

PlayersOf(k) == [p \in sessions_[k] |-> usr_name_[p]]

(* A mistake to be caught: only the players who moved are sent the list.   *)
TellMoversOnly(ks) ==
  player_list' = [s \in Sessions |->
    IF room_'[s] = NULL THEN Blank
    ELSE IF room_'[s] \in ks /\ room_'[s] # room_[s] THEN PlayersOf(room_[s])'
    ELSE player_list[s]]

(* BroadCastPlayerList in each of the rooms ks, after the step's changes.  *)
BroadCastPlayerList(ks) ==
  player_list' = [s \in Sessions |->
    IF room_'[s] = NULL THEN Blank
    ELSE IF room_'[s] \in ks THEN PlayersOf(room_[s])'
    ELSE player_list[s]]

(* A player who leaves the rooms keeps no lists, one who moves keeps them. *)
NoRoomList ==
  room_list' = [s \in Sessions |-> IF room_'[s] = NULL THEN NULL ELSE room_list[s]]

BroadCastRoomList ==
  room_list' = [s \in Sessions |-> IF room_'[s] = NULL THEN NULL ELSE rooms_']

-----------------------------------------------------------------------------
(* Serving a packet of session s, which makes the session if it is new.    *)
Serve(s) ==
  /\ up
  /\ up' = up
  /\ player_sessions_' = player_sessions_ \cup {s}

(* HandleRoomOperate takes over the name the packet carries, whatever the  *)
(* operation.  A packet that does not parse is answered with an error and  *)
(* then executed with the fields that were read: n and the keys range over *)
(* all values, so this is the same step.                                   *)
HandleRoomOperate(s, n) ==
  /\ Serve(s)
  /\ usr_name_' = [usr_name_ EXCEPT ![s] = n]

(* Operations refused with an error, those outside 1..7, and leaving while *)
(* in no room: only the name changes.                                      *)
OnlyRename(s, n) ==
  /\ HandleRoomOperate(s, n)
  /\ UNCHANGED <<rooms_, sessions_, board, can_delete_time_, room_, viewVars>>

(* Room::LeaveRoom of the room session s is in, if it is in one.           *)
SessionsWithout(s) ==
  [k \in Keys |-> IF k = room_[s] THEN sessions_[k] \ {s} ELSE sessions_[k]]

DeleteTimeWithout(s) ==
  [k \in Keys |-> IF k = room_[s] /\ SessionsWithout(s)[k] = {}
                  THEN DeleteDelay ELSE can_delete_time_[k]]

-----------------------------------------------------------------------------
(* The operations of HandleRoomOperate, by oprate_type.                    *)

(* 1 *)
PlayerAskRoomList(s, n) ==
  /\ HandleRoomOperate(s, n)
  /\ room_[s] # NULL
  /\ room_list' = [room_list EXCEPT ![s] = rooms_]
  /\ UNCHANGED <<rooms_, sessions_, board, can_delete_time_, room_, canvas, player_list>>

(* A new Room under an unused key, whose list everyone in a room is sent.  *)
AddRoom(k, b) ==
  /\ k \notin rooms_
  /\ rooms_' = rooms_ \cup {k}
  /\ board' = [board EXCEPT ![k] = b]
  /\ can_delete_time_' = [can_delete_time_ EXCEPT ![k] = Never]
  /\ UNCHANGED <<sessions_, room_>>
  /\ BroadCastRoomList

(* 2 *)
PlayerCreateRoom(s, n, k) ==
  /\ HandleRoomOperate(s, n)
  /\ AddRoom(k, NewBoard)
  /\ UNCHANGED <<canvas, player_list>>

(* 3: the player first leaves the room it is in, then enters room k.  It   *)
(* is not a member of k at that point, even if it was in k before.         *)
PlayerEnterRoom(s, n, k) ==
  /\ HandleRoomOperate(s, n)
  /\ k \in rooms_
  /\ sessions_' = [SessionsWithout(s) EXCEPT ![k] = @ \cup {s}]
  /\ can_delete_time_' = [DeleteTimeWithout(s) EXCEPT ![k] = Never]
  /\ room_' = [room_ EXCEPT ![s] = k]
  /\ canvas' = [canvas EXCEPT ![s] = board[k].shape_object_]
  /\ BroadCastPlayerList({room_[s], k})
  /\ NoRoomList
  /\ UNCHANGED <<rooms_, board>>

(* Room::LeaveRoom, with the player list sent to those who stay.           *)
LeaveRoom(s) ==
  /\ sessions_' = SessionsWithout(s)
  /\ can_delete_time_' = DeleteTimeWithout(s)
  /\ room_' = [room_ EXCEPT ![s] = NULL]
  /\ canvas' = [canvas EXCEPT ![s] = Blank]
  /\ BroadCastPlayerList({room_[s]})
  /\ NoRoomList
  /\ UNCHANGED <<rooms_, board>>

(* 4, and 3 with a key that no room has: the player has left by the time   *)
(* the key is looked up.                                                   *)
PlayerLeaveRoom(s, n) ==
  /\ HandleRoomOperate(s, n)
  /\ room_[s] # NULL
  /\ LeaveRoom(s)

(* 5: ForceDeleteRoom makes the players leave and the room deletable from  *)
(* the next second on.  Its loop dereferences and advances the iterator    *)
(* that LeaveRoom has just erased: the first player is out, and after that *)
(* the build may end the loop, go on to any other player, or crash.        *)
PlayerDeleteRoom(s, n, k) ==
  /\ HandleRoomOperate(s, n)
  /\ k \in rooms_
  /\ \E out \in SUBSET sessions_[k] :
       /\ out = {} <=> sessions_[k] = {}
       /\ sessions_' = [sessions_ EXCEPT ![k] = @ \ out]
       /\ room_' = [p \in Sessions |-> IF p \in out THEN NULL ELSE room_[p]]
       /\ canvas' = [p \in Sessions |-> IF p \in out THEN Blank ELSE canvas[p]]
       /\ BroadCastPlayerList(IF out = {} THEN {} ELSE {k})
  /\ can_delete_time_' = [can_delete_time_ EXCEPT ![k] = 0]
  /\ NoRoomList
  /\ UNCHANGED <<rooms_, board>>

ForceDeleteCrashes(k) ==
  /\ up
  /\ k \in rooms_ /\ sessions_[k] # {}
  /\ up' = FALSE
  /\ UNCHANGED <<rooms_, sessions_, board, can_delete_time_,
                 player_sessions_, room_, usr_name_, viewVars>>

(* 6: the copy has the drawing and the id counter of its source.           *)
PlayerCopyRoom(s, n, src, des) ==
  /\ HandleRoomOperate(s, n)
  /\ src \in rooms_
  /\ AddRoom(des, board[src])
  /\ UNCHANGED <<canvas, player_list>>

(* 7: the list does not say of which room it is.                           *)
PlayerSyncPlayerList(s, n, k) ==
  /\ HandleRoomOperate(s, n)
  /\ k \in rooms_ /\ room_[s] # NULL
  /\ UNCHANGED <<rooms_, sessions_, board, can_delete_time_, room_, canvas, room_list>>
  /\ player_list' = [player_list EXCEPT ![s] = PlayersOf(k)']

-----------------------------------------------------------------------------
(* Drawing.  The request is answered with an error, and only makes the     *)
(* session, when the player is in no room or the packet does not parse.    *)

ShapeRefused(s) ==
  /\ Serve(s)
  /\ UNCHANGED <<rooms_, sessions_, board, can_delete_time_, room_, usr_name_, viewVars>>

(* A change of the board of the player's room and its broadcast, after     *)
(* which the players in the room see what `drawn' gives for each.          *)
ChangeBoard(s, b, drawn) ==
  /\ Serve(s)
  /\ room_[s] # NULL
  /\ board' = [board EXCEPT ![room_[s]] = b]
  /\ canvas' = [p \in Sessions |-> IF p \in sessions_[room_[s]]
                                   THEN drawn[p] ELSE canvas[p]]
  /\ UNCHANGED <<rooms_, sessions_, can_delete_time_, room_, usr_name_,
                 player_list, room_list>>

HandleAddShape(s, list) ==
  /\ room_[s] # NULL
  /\ LET b == board[room_[s]] IN
       /\ b.shape_max_id_ + Len(list) <= MaxShapeId + 1
       /\ ChangeBoard(s, AddShapes(b, list),
                      [p \in Sessions |-> Draw(canvas[p], Numbered(b, list))])

HandleRemoveShape(s, id) ==
  /\ room_[s] # NULL
  /\ LET b == board[room_[s]] IN
       /\ id \in DOMAIN b.shape_object_
       /\ ChangeBoard(s, RemoveShape(b, id), [p \in Sessions |-> Erase(canvas[p], id)])

-----------------------------------------------------------------------------
(* The connection closes: the session is destroyed, and its destructor     *)
(* makes the player leave.                                                 *)
OnConnClosed(s) ==
  /\ up
  /\ s \in player_sessions_
  /\ player_sessions_' = player_sessions_ \ {s}
  /\ usr_name_' = [usr_name_ EXCEPT ![s] = NULL]
  /\ LeaveRoom(s)
  /\ UNCHANGED up

(* A second passes.                                                        *)
Tick ==
  /\ up
  /\ can_delete_time_' = [k \in Keys |->
       LET t == can_delete_time_[k] IN IF t = Never \/ t = -1 THEN t ELSE t - 1]
  /\ UNCHANGED <<up, rooms_, sessions_, board, player_sessions_, room_, usr_name_, viewVars>>

(* Mistakes to be caught: the players in the room are forgotten, and the   *)
(* comparison is the wrong way round.                                      *)
CanDeleteOccupied(k) ==
  /\ can_delete_time_[k] # Never
  /\ can_delete_time_[k] < 0

CanDeleteEarly(k) ==
  /\ sessions_[k] = {}
  /\ can_delete_time_[k] # Never
  /\ can_delete_time_[k] > 0

CanDelete(k) ==
  /\ sessions_[k] = {}
  /\ can_delete_time_[k] # Never
  /\ can_delete_time_[k] < 0

(* RoomManager::Update, run once per turn of the game loop.                *)
Update ==
  LET gone == {k \in rooms_ : CanDelete(k)} IN
  /\ up
  /\ gone # {}
  /\ rooms_' = rooms_ \ gone
  /\ board' = [k \in Keys |-> IF k \in gone THEN NewBoard ELSE board[k]]
  /\ can_delete_time_' = [k \in Keys |-> IF k \in gone THEN Never ELSE can_delete_time_[k]]
  /\ UNCHANGED <<up, sessions_, player_sessions_, room_, usr_name_, canvas, player_list>>
  /\ BroadCastRoomList

-----------------------------------------------------------------------------
Init ==
  /\ up = TRUE
  /\ rooms_ = {}
  /\ sessions_ = [k \in Keys |-> {}]
  /\ board = [k \in Keys |-> NewBoard]
  /\ can_delete_time_ = [k \in Keys |-> Never]
  /\ player_sessions_ = {}
  /\ room_ = [s \in Sessions |-> NULL]
  /\ usr_name_ = [s \in Sessions |-> NULL]
  /\ canvas = [s \in Sessions |-> Blank]
  /\ player_list = [s \in Sessions |-> Blank]
  /\ room_list = [s \in Sessions |-> NULL]

RoomOperation(s, n) ==
  \/ OnlyRename(s, n)
  \/ PlayerAskRoomList(s, n)
  \/ PlayerLeaveRoom(s, n)
  \/ \E k \in Keys :
       \/ PlayerCreateRoom(s, n, k)
       \/ PlayerEnterRoom(s, n, k)
       \/ PlayerDeleteRoom(s, n, k)
       \/ PlayerSyncPlayerList(s, n, k)
       \/ \E des \in Keys : PlayerCopyRoom(s, n, k, des)

ShapeOperation(s) ==
  \/ ShapeRefused(s)
  \/ \E list \in ShapeLists : HandleAddShape(s, list)
  \/ \E id \in 0 .. MaxShapeId : HandleRemoveShape(s, id)

Next ==
  \/ \E s \in Sessions :
       \/ \E n \in Names : RoomOperation(s, n)
       \/ ShapeOperation(s)
       \/ OnConnClosed(s)
  \/ \E k \in Keys : ForceDeleteCrashes(k)
  \/ Tick
  \/ Update

(* The game loop calls RoomManager::Update every 30 ms, and time passes.   *)
Fairness == WF_vars(Update) /\ WF_vars(Tick)

Spec == Init /\ [][Next]_vars /\ Fairness

-----------------------------------------------------------------------------
(* Types: those of the rooms and sessions, and with them those of the      *)
(* drawings and lists.                                                     *)
RoomsTypeOK ==
  /\ up \in BOOLEAN
  /\ rooms_ \subseteq Keys
  /\ sessions_ \in [Keys -> SUBSET Sessions]
  /\ can_delete_time_ \in [Keys -> {Never} \cup (-1 .. DeleteDelay)]
  /\ player_sessions_ \subseteq Sessions
  /\ room_ \in [Sessions -> Keys \cup {NULL}]
  /\ usr_name_ \in [Sessions -> Names \cup {NULL}]

TypeOK ==
  /\ RoomsTypeOK
  /\ DOMAIN board = Keys /\ \A k \in Keys : IsBoard(board[k])
  /\ DOMAIN canvas = Sessions /\ \A s \in Sessions : IsDrawing(canvas[s])
  /\ DOMAIN player_list = Sessions
  /\ \A s \in Sessions :
       \E ps \in SUBSET Sessions : player_list[s] \in [ps -> Names \cup {NULL}]
  /\ room_list \in [Sessions -> {NULL} \cup SUBSET Keys]

(* No pointer dangles and both ends agree: the Room* of a session is a     *)
(* live room that has the session among its sessions_, and a PlayerSession**)
(* in a room's sessions_ is a live session that is in that room.  Rooms    *)
(* are deleted by Update and sessions by OnConnClosed, each of which sees  *)
(* only its own end (room.cpp:43-57,121-132, player_session.cpp:49).       *)
Membership ==
  /\ \A s \in Sessions : room_[s] # NULL =>
       /\ room_[s] \in rooms_
       /\ s \in player_sessions_
       /\ s \in sessions_[room_[s]]
  /\ \A k \in Keys : \A s \in sessions_[k] : room_[s] = k

(* Whoever is in a room sees exactly its drawing: what EnterRoom sends and *)
(* the broadcasts since, with the ids the room gave out, leave out nothing *)
(* that PlayerAddShape and PlayerRemoveShape changed.                      *)
CanvasInSync ==
  \A s \in Sessions : room_[s] # NULL => canvas[s] = board[room_[s]].shape_object_

(* A room never gives out an id twice in its life, not even after the      *)
(* shape was removed, and a copy goes on where its source was: an id that  *)
(* appears was not below the counter before the step, is below it after,   *)
(* and the counter never goes back.                                        *)
NewIds(b, c) ==
  \A i \in DOMAIN c.shape_object_ \ DOMAIN b.shape_object_ :
    b.shape_max_id_ <= i /\ i < c.shape_max_id_

FreshIds ==
  [][\A k \in rooms_ \cap rooms_' :
       /\ board[k].shape_max_id_ <= board'[k].shape_max_id_
       /\ NewIds(board[k], board'[k])]_vars

(* A copy or a removal leaves no shape with an id the room has yet to give,*)
(* which std::map::insert would silently drop.                             *)
IdsBelowCounter == \A k \in rooms_ : Numberable(board[k])

(* A room list held by a player in a room is current: every creation, copy *)
(* and deletion of a room is broadcast to everyone in any room.            *)
RoomListInSync ==
  \A s \in Sessions : room_list[s] \in {NULL, rooms_}

(* When the players of a room change, all who are in it after the step are *)
(* told who they now are, under their present names.                       *)
PlayersTold ==
  [][\A k \in rooms_' : sessions_'[k] # sessions_[k] =>
       \A s \in sessions_'[k] : player_list'[s] = PlayersOf(k)']_vars

(* An empty room whose time is running is deleted unless somebody enters   *)
(* it first, provided delete requests for it do not keep coming: each one  *)
(* puts the deadline of an empty room back to now (room.cpp:110).          *)
DeleteAsked ==
  \E s \in Sessions, n \in Names, k \in Keys : PlayerDeleteRoom(s, n, k)

EmptyRoomGoes ==
  (<>[][~DeleteAsked]_vars) =>
    \A k \in Keys :
      (k \in rooms_ /\ sessions_[k] = {} /\ can_delete_time_[k] # Never)
        ~> (k \notin rooms_ \/ sessions_[k] # {} \/ ~up)

-----------------------------------------------------------------------------
(* Two statements of the source that the code does not keep.               *)

(* account_opcode_def.h:42 says of Shape_Room_Delete_You_Out that the room *)
(* was deleted and the player removed from it: a delete request leaves     *)
(* nobody in the room.                                                     *)
DeletePutsAllOut ==
  [][\A k \in Keys :
       (\E s \in Sessions, n \in Names : PlayerDeleteRoom(s, n, k))
         => sessions_'[k] = {}]_vars

(* room.cpp:54 says that an empty room may be deleted after an hour: an    *)
(* empty room has a time after which CanDelete holds.                      *)
EmptyRoomHasDeadline ==
  \A k \in rooms_ : sessions_[k] = {} => can_delete_time_[k] # Never
=============================================================================
