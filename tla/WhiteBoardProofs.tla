-------------------------- MODULE WhiteBoardProofs --------------------------
(***************************************************************************)
(* Proofs about ShapeStore and WhiteBoard, for any players, rooms          *)
(* and shapes: what the loop of PlayerAddShape does to a board, and that a *)
(* client that draws what is broadcast gets the same drawing; the types of *)
(* rooms and sessions, that the pointers between them never dangle, that   *)
(* every player sees the drawing of its room, knows which rooms there are  *)
(* and who shares its own.                                                 *)
(***************************************************************************)
EXTENDS WhiteBoard, DataLemmas

(* Turns is the function its recursive definition says: the board after n  *)
(* turns of PlayerAddShape's loop is one turn on from that after n - 1.    *)
LEMMA TurnsDefined ==
  ASSUME NEW b, NEW list, Len(list) \in Nat
  PROVE  Turns(b, list) =
           [n \in 0 .. Len(list) |->
              IF n = 0 THEN b ELSE AddOne(Turns(b, list)[n - 1], list[n])]
<1> DEFINE Loop(f, m) ==
             f = [n \in 0 .. m |-> IF n = 0 THEN b ELSE AddOne(f[n - 1], list[n])]
           Runs == {m \in Nat : \E f : Loop(f, m)}
<1>1. 0 \in Runs
  <2>1. Loop([n \in 0 .. 0 |-> b], 0)
    OBVIOUS
  <2> QED
    BY <2>1
<1>2. ASSUME NEW m \in Nat, m \in Runs
      PROVE  m + 1 \in Runs
  <2>1. PICK f : Loop(f, m)
    BY <1>2
  <2> DEFINE g == [n \in 0 .. m + 1 |->
                     IF n = m + 1 THEN AddOne(f[m], list[m + 1]) ELSE f[n]]
  <2>2. ASSUME NEW n \in 0 .. m + 1
        PROVE  g[n] = IF n = 0 THEN b ELSE AddOne(g[n - 1], list[n])
    <3>1. CASE n = m + 1
      BY <3>1
    <3>2. CASE n # m + 1
      <4>1. n \in 0 .. m
        BY <3>2
      <4>2. f[n] = IF n = 0 THEN b ELSE AddOne(f[n - 1], list[n])
        BY <2>1, <4>1
      <4>3. n # 0 => g[n - 1] = f[n - 1]
        BY <4>1
      <4> QED
        BY <3>2, <4>1, <4>2, <4>3
    <3> QED
      BY <3>1, <3>2
  <2>3. Loop(g, m + 1)
    BY <2>2
  <2>4. \E h : Loop(h, m + 1)
    <3> HIDE DEF g
    <3> QED
      BY <2>3
  <2> QED
    BY <2>4
<1>3. Nat \subseteq Runs
  <2> HIDE DEF Runs
  <2> QED
    BY <1>1, <1>2, NatSetInduction
<1>4. \E f : Loop(f, Len(list))
  BY <1>3
<1> QED
  BY <1>4 DEF Turns

(* Likewise Strokes, for the client that applies a broadcast.              *)
LEMMA StrokesDefined ==
  ASSUME NEW drawing, NEW list, Len(list) \in Nat
  PROVE  Strokes(drawing, list) =
           [n \in 0 .. Len(list) |->
              IF n = 0 THEN drawing ELSE DrawOne(Strokes(drawing, list)[n - 1], list[n])]
<1> DEFINE Loop(f, m) ==
             f = [n \in 0 .. m |-> IF n = 0 THEN drawing ELSE DrawOne(f[n - 1], list[n])]
           Runs == {m \in Nat : \E f : Loop(f, m)}
<1>1. 0 \in Runs
  <2>1. Loop([n \in 0 .. 0 |-> drawing], 0)
    OBVIOUS
  <2> QED
    BY <2>1
<1>2. ASSUME NEW m \in Nat, m \in Runs
      PROVE  m + 1 \in Runs
  <2>1. PICK f : Loop(f, m)
    BY <1>2
  <2> DEFINE g == [n \in 0 .. m + 1 |->
                     IF n = m + 1 THEN DrawOne(f[m], list[m + 1]) ELSE f[n]]
  <2>2. ASSUME NEW n \in 0 .. m + 1
        PROVE  g[n] = IF n = 0 THEN drawing ELSE DrawOne(g[n - 1], list[n])
    <3>1. CASE n = m + 1
      BY <3>1
    <3>2. CASE n # m + 1
      <4>1. n \in 0 .. m
        BY <3>2
      <4>2. f[n] = IF n = 0 THEN drawing ELSE DrawOne(f[n - 1], list[n])
        BY <2>1, <4>1
      <4>3. n # 0 => g[n - 1] = f[n - 1]
        BY <4>1
      <4> QED
        BY <3>2, <4>1, <4>2, <4>3
    <3> QED
      BY <3>1, <3>2
  <2>3. Loop(g, m + 1)
    BY <2>2
  <2>4. \E h : Loop(h, m + 1)
    <3> HIDE DEF g
    <3> QED
      BY <2>3
  <2> QED
    BY <2>4
<1>3. Nat \subseteq Runs
  <2> HIDE DEF Runs
  <2> QED
    BY <1>1, <1>2, NatSetInduction
<1>4. \E f : Loop(f, Len(list))
  BY <1>3
<1> QED
  BY <1>4 DEF Strokes

-----------------------------------------------------------------------------
(* One turn of the loop does to the drawing what a client does with the    *)
(* entry the loop puts into the broadcast, and keeps the counter ahead.    *)
LEMMA OneTurn ==
  ASSUME NEW b, Numberable(b), NEW e \in Entries, b.shape_max_id_ + 1 < IdSpace
  PROVE  /\ Numberable(AddOne(b, e))
         /\ AddOne(b, e).shape_max_id_ \in {b.shape_max_id_, b.shape_max_id_ + 1}
         /\ AddOne(b, e).shape_object_ =
              DrawOne(b.shape_object_, [e EXCEPT !.id = StoredId(b, e)])
<1> DEFINE d == b.shape_object_
           top == b.shape_max_id_
<1>1. /\ top \in Nat /\ top + 1 \in ShapeIds /\ top \in ShapeIds
      /\ (top + 1) % IdSpace = top + 1
      /\ DOMAIN d \subseteq ShapeIds
      /\ \A i \in DOMAIN d : d[i] \in Shapes /\ i < top
      /\ b = [shape_object_ |-> d, shape_max_id_ |-> top]
  BY ShapeStoreAssumption DEF Numberable, IsBoard, IsDrawing, ShapeIds
<1>2. e.id \in Nat /\ e.shape \in Shapes /\ e = [id |-> e.id, shape |-> e.shape]
  BY ShapeStoreAssumption DEF Entries
<1>3. CASE e.id \in DOMAIN d
  BY <1>1, <1>2, <1>3
     DEF AddOne, DrawOne, StoredId, Numberable, IsBoard, IsDrawing
<1>4. CASE e.id \notin DOMAIN d
  <2> DEFINE drawn == [i \in DOMAIN d \cup {top} |-> IF i = top THEN e.shape ELSE d[i]]
  <2>1. Insert(d, top, e.shape) = drawn
    BY <1>1 DEF Insert
  <2>2. DrawOne(d, [e EXCEPT !.id = StoredId(b, e)]) = drawn
    BY <1>2, <1>4 DEF DrawOne, StoredId
  <2>3. AddOne(b, e) = [shape_object_ |-> drawn, shape_max_id_ |-> top + 1]
    BY <1>1, <1>4, <2>1 DEF AddOne
  <2>4. \A i \in DOMAIN drawn : i \in ShapeIds /\ i < top + 1 /\ drawn[i] \in Shapes
    BY <1>1, <1>2 DEF ShapeIds
  <2> HIDE DEF drawn
  <2> QED
    BY <1>1, <2>2, <2>3, <2>4 DEF Numberable, IsBoard, IsDrawing
<1> QED
  BY <1>3, <1>4

(* A request is a sequence of entries.                                     *)
LEMMA ListShape ==
  ASSUME NEW list \in ShapeLists
  PROVE  /\ Len(list) \in Nat
         /\ \A n \in 1 .. Len(list) : list[n] \in Entries
<1>1. PICK m \in 0 .. MaxList : list \in [1 .. m -> Entries]
  BY DEF ShapeLists
<1>2. m \in Nat /\ DOMAIN list = 1 .. m /\ list \in Seq(Entries)
  BY <1>1, ShapeStoreAssumption
<1>3. Len(list) = m
  BY <1>2
<1> QED
  BY <1>1, <1>2, <1>3

(* The request as broadcast is a list as long as the request.              *)
LEMMA NumberedShape ==
  ASSUME NEW b, NEW list, Len(list) \in Nat
  PROVE  Len(Numbered(b, list)) = Len(list)
<1> DEFINE N == Len(list)
           num(n) == [list[n] EXCEPT !.id = StoredId(Turns(b, list)[n - 1], list[n])]
           val == {num(n) : n \in 1 .. N}
<1>1. [n \in 1 .. N |-> num(n)] \in Seq(val)
  OBVIOUS
<1> QED
  BY <1>1 DEF Numbered

(* The whole loop: when the ids suffice, the board stays numberable, the   *)
(* ids it gives were not given before, and drawing the broadcast list on   *)
(* the old drawing gives the new one.                                      *)
LEMMA AddShapesDrawn ==
  ASSUME NEW b, Numberable(b), NEW list \in ShapeLists,
         b.shape_max_id_ + Len(list) < IdSpace
  PROVE  /\ Numberable(AddShapes(b, list))
         /\ AddShapes(b, list).shape_max_id_ \in
              b.shape_max_id_ .. b.shape_max_id_ + Len(list)
         /\ \A i \in DOMAIN AddShapes(b, list).shape_object_ :
              i \in DOMAIN b.shape_object_ \/ b.shape_max_id_ <= i
         /\ Draw(b.shape_object_, Numbered(b, list)) = AddShapes(b, list).shape_object_
<1> DEFINE N == Len(list)
           T == Turns(b, list)
           num == Numbered(b, list)
           S == Strokes(b.shape_object_, num)
           Same(n) == /\ Numberable(T[n])
                      /\ T[n].shape_max_id_ \in b.shape_max_id_ .. b.shape_max_id_ + n
                      /\ \A i \in DOMAIN T[n].shape_object_ :
                           i \in DOMAIN b.shape_object_ \/ b.shape_max_id_ <= i
                      /\ S[n] = T[n].shape_object_
           Good == {n \in Nat : n <= N => Same(n)}
<1>1. N \in Nat /\ \A n \in 1 .. N : list[n] \in Entries
  BY ListShape
<1>2. Len(num) = N
  BY <1>1, NumberedShape
<1>3. b.shape_max_id_ \in Nat
  BY ShapeStoreAssumption DEF Numberable, IsBoard, ShapeIds
<1>4. T = [n \in 0 .. N |-> IF n = 0 THEN b ELSE AddOne(T[n - 1], list[n])]
  BY <1>1, TurnsDefined
<1>5. S = [n \in 0 .. N |-> IF n = 0 THEN b.shape_object_
                                     ELSE DrawOne(S[n - 1], num[n])]
  BY <1>1, <1>2, StrokesDefined
<1>6. \A n \in 1 .. N : num[n] = [list[n] EXCEPT !.id = StoredId(T[n - 1], list[n])]
  BY DEF Numbered
<1>7. 0 \in Good
  <2> HIDE DEF T, S
  <2>1. T[0] = b /\ S[0] = b.shape_object_
    BY <1>1, <1>4, <1>5
  <2> QED
    BY <1>3, <2>1
<1>8. ASSUME NEW n \in Nat, n \in Good
      PROVE  n + 1 \in Good
  <2> SUFFICES ASSUME n + 1 <= N
               PROVE  Same(n + 1)
    OBVIOUS
  <2> HIDE DEF T, S, num, N
  <2>1. /\ n + 1 \in 0 .. N /\ n + 1 \in 1 .. N /\ n + 1 # 0 /\ (n + 1) - 1 = n
        /\ n <= N
    BY <1>1
  <2>2. T[n + 1] = AddOne(T[n], list[n + 1])
    BY <1>4, <2>1
  <2>3. S[n + 1] = DrawOne(S[n], num[n + 1])
    BY <1>5, <2>1
  <2>4. num[n + 1] = [list[n + 1] EXCEPT !.id = StoredId(T[n], list[n + 1])]
    BY <1>6, <2>1
  <2>5. Same(n)
    BY <1>8, <2>1
  <2>6. list[n + 1] \in Entries
    BY <1>1, <2>1
  <2>7. T[n].shape_max_id_ + 1 < IdSpace
    BY <1>1, <1>3, <2>1, <2>5, ShapeStoreAssumption DEF N
  <2>8. /\ Numberable(T[n + 1])
        /\ T[n + 1].shape_max_id_ \in {T[n].shape_max_id_, T[n].shape_max_id_ + 1}
        /\ T[n + 1].shape_object_ = DrawOne(T[n].shape_object_, num[n + 1])
    BY <2>2, <2>4, <2>5, <2>6, <2>7, OneTurn
  <2>9. \A i \in DOMAIN T[n + 1].shape_object_ :
          i \in DOMAIN T[n].shape_object_ \/ i = T[n].shape_max_id_
    BY <2>4, <2>6, <2>8 DEF DrawOne, StoredId, Entries
  <2>10. T[n + 1].shape_max_id_ \in b.shape_max_id_ .. b.shape_max_id_ + (n + 1)
    BY <1>3, <2>5, <2>8
  <2>11. \A i \in DOMAIN T[n + 1].shape_object_ :
           i \in DOMAIN b.shape_object_ \/ b.shape_max_id_ <= i
    BY <2>5, <2>9
  <2> QED
    BY <2>3, <2>5, <2>8, <2>10, <2>11
<1>9. N \in Good
  <2> HIDE DEF Good
  <2> QED
    BY <1>1, <1>7, <1>8, NatSetInduction
<1> QED
  BY <1>1, <1>2, <1>9 DEF AddShapes, Draw

(* A removal keeps the board numberable and is what a client does.         *)
LEMMA RemoveShapeErases ==
  ASSUME NEW b, Numberable(b), NEW id
  PROVE  /\ Numberable(RemoveShape(b, id))
         /\ RemoveShape(b, id).shape_max_id_ = b.shape_max_id_
         /\ RemoveShape(b, id).shape_object_ = Erase(b.shape_object_, id)
<1> DEFINE left == [i \in DOMAIN b.shape_object_ \ {id} |-> b.shape_object_[i]]
<1>1. b = [shape_object_ |-> b.shape_object_, shape_max_id_ |-> b.shape_max_id_]
  BY DEF Numberable, IsBoard
<1>2. RemoveShape(b, id) = [shape_object_ |-> left, shape_max_id_ |-> b.shape_max_id_]
  BY <1>1 DEF RemoveShape
<1> QED
  BY <1>2 DEF Numberable, IsBoard, IsDrawing, Erase

-----------------------------------------------------------------------------
(* Types alone, which hold even when the counter wraps: the loop keeps     *)
(* boards boards and broadcasts ids that fit a uint32_t.                   *)
LEMMA AddShapesTyped ==
  ASSUME NEW b, IsBoard(b), NEW list \in ShapeLists
  PROVE  /\ IsBoard(AddShapes(b, list))
         /\ \A n \in 1 .. Len(list) :
              /\ Numbered(b, list)[n].id \in ShapeIds
              /\ Numbered(b, list)[n].shape \in Shapes
<1> DEFINE N == Len(list)
           T == Turns(b, list)
           Good == {n \in Nat : n <= N => IsBoard(T[n])}
<1>1. N \in Nat /\ \A n \in 1 .. N : list[n] \in Entries
  BY ListShape
<1>2. T = [n \in 0 .. N |-> IF n = 0 THEN b ELSE AddOne(T[n - 1], list[n])]
  BY <1>1, TurnsDefined
<1>3. ASSUME NEW c, IsBoard(c), NEW e \in Entries
      PROVE  IsBoard(AddOne(c, e)) /\ StoredId(c, e) \in ShapeIds
  <2> DEFINE d == c.shape_object_
             top == c.shape_max_id_
  <2>1. /\ top \in ShapeIds /\ (top + 1) % IdSpace \in ShapeIds
        /\ c = [shape_object_ |-> d, shape_max_id_ |-> top]
        /\ DOMAIN d \subseteq ShapeIds /\ \A i \in DOMAIN d : d[i] \in Shapes
    BY <1>3, ShapeStoreAssumption DEF IsBoard, IsDrawing, ShapeIds
  <2>2. e.shape \in Shapes
    BY DEF Entries
  <2>3. CASE e.id \in DOMAIN d
    BY <2>1, <2>2, <2>3 DEF AddOne, StoredId, IsBoard, IsDrawing
  <2>4. CASE e.id \notin DOMAIN d
    <3> DEFINE new == Insert(d, top, e.shape)
    <3>1. DOMAIN new \subseteq ShapeIds /\ \A i \in DOMAIN new : new[i] \in Shapes
      BY <2>1, <2>2 DEF Insert
    <3>2. AddOne(c, e) = [shape_object_ |-> new, shape_max_id_ |-> (top + 1) % IdSpace]
      BY <2>4 DEF AddOne
    <3> HIDE DEF new
    <3> QED
      BY <2>1, <2>4, <3>1, <3>2 DEF StoredId, IsBoard, IsDrawing
  <2> QED
    BY <2>3, <2>4
<1>4. 0 \in Good
  <2> HIDE DEF T
  <2>1. T[0] = b
    BY <1>1, <1>2
  <2> QED
    BY <2>1
<1>5. ASSUME NEW n \in Nat, n \in Good
      PROVE  n + 1 \in Good
  <2> SUFFICES ASSUME n + 1 <= N
               PROVE  IsBoard(T[n + 1])
    OBVIOUS
  <2> HIDE DEF T, N
  <2>1. n + 1 \in 0 .. N /\ n + 1 \in 1 .. N /\ n + 1 # 0 /\ (n + 1) - 1 = n /\ n <= N
    BY <1>1
  <2>2. T[n + 1] = AddOne(T[n], list[n + 1])
    BY <1>2, <2>1
  <2>3. IsBoard(T[n]) /\ list[n + 1] \in Entries
    BY <1>1, <1>5, <2>1
  <2> QED
    BY <1>3, <2>2, <2>3
<1>6. \A n \in 0 .. N : IsBoard(T[n])
  <2>1. Nat \subseteq Good
    <3> HIDE DEF Good
    <3> QED
      BY <1>4, <1>5, NatSetInduction
  <2> HIDE DEF T, N
  <2> QED
    BY <1>1, <2>1
<1>7. ASSUME NEW n \in 1 .. N
      PROVE  /\ Numbered(b, list)[n].id \in ShapeIds
             /\ Numbered(b, list)[n].shape \in Shapes
  <2> HIDE DEF T, N
  <2>1. n - 1 \in 0 .. N /\ list[n] \in Entries
    BY <1>1
  <2>2. StoredId(T[n - 1], list[n]) \in ShapeIds
    BY <1>3, <1>6, <2>1
  <2>3. Numbered(b, list)[n] = [list[n] EXCEPT !.id = StoredId(T[n - 1], list[n])]
    BY DEF Numbered, T, N
  <2>4. list[n] = [id |-> list[n].id, shape |-> list[n].shape] /\ list[n].shape \in Shapes
    BY <2>1 DEF Entries
  <2> QED
    BY <2>2, <2>3, <2>4
<1> QED
  BY <1>1, <1>6, <1>7 DEF AddShapes

(* A client that draws entries of the right type keeps a drawing.          *)
LEMMA DrawTyped ==
  ASSUME NEW drawing, IsDrawing(drawing), NEW list, Len(list) \in Nat,
         \A n \in 1 .. Len(list) : list[n].id \in ShapeIds /\ list[n].shape \in Shapes
  PROVE  IsDrawing(Draw(drawing, list))
<1> DEFINE N == Len(list)
           S == Strokes(drawing, list)
           Good == {n \in Nat : n <= N => IsDrawing(S[n])}
<1>1. S = [n \in 0 .. N |-> IF n = 0 THEN drawing ELSE DrawOne(S[n - 1], list[n])]
  BY StrokesDefined
<1>2. 0 \in Good
  <2> HIDE DEF S
  <2>1. S[0] = drawing
    BY <1>1
  <2> QED
    BY <2>1
<1>3. ASSUME NEW n \in Nat, n \in Good
      PROVE  n + 1 \in Good
  <2> SUFFICES ASSUME n + 1 <= N
               PROVE  IsDrawing(S[n + 1])
    OBVIOUS
  <2> HIDE DEF S
  <2>1. n + 1 \in 0 .. N /\ n + 1 \in 1 .. N /\ n + 1 # 0 /\ (n + 1) - 1 = n /\ n <= N
    OBVIOUS
  <2>2. S[n + 1] = DrawOne(S[n], list[n + 1])
    BY <1>1, <2>1
  <2>3. IsDrawing(S[n])
    BY <1>3, <2>1
  <2> QED
    BY <2>1, <2>2, <2>3 DEF DrawOne, IsDrawing
<1>4. N \in Good
  <2> HIDE DEF Good
  <2> QED
    BY <1>2, <1>3, NatSetInduction
<1> QED
  BY <1>4 DEF Draw

-----------------------------------------------------------------------------
(* Rooms and sessions are well typed throughout.                           *)
THEOREM RoomsTyped == Spec => []RoomsTypeOK
<1>1. Init => RoomsTypeOK
  BY WhiteBoardAssumption DEF Init, RoomsTypeOK
<1>2. RoomsTypeOK /\ [Next]_vars => RoomsTypeOK'
  <2> SUFFICES ASSUME RoomsTypeOK, [Next]_vars
               PROVE  RoomsTypeOK'
    OBVIOUS
  <2> USE DEF RoomsTypeOK
  <2>1. ASSUME NEW s \in Sessions, NEW n \in Names, OnlyRename(s, n)
        PROVE  RoomsTypeOK'
    BY <2>1 DEF OnlyRename, HandleRoomOperate, Serve
  <2>2. ASSUME NEW s \in Sessions, NEW n \in Names, PlayerAskRoomList(s, n)
        PROVE  RoomsTypeOK'
    BY <2>2 DEF PlayerAskRoomList, HandleRoomOperate, Serve
  <2>3. ASSUME NEW s \in Sessions, NEW n \in Names, PlayerLeaveRoom(s, n)
        PROVE  RoomsTypeOK'
    BY <2>3, WhiteBoardAssumption
       DEF PlayerLeaveRoom, LeaveRoom, HandleRoomOperate, Serve,
           SessionsWithout, DeleteTimeWithout
  <2>4. ASSUME NEW s \in Sessions, NEW n \in Names, NEW k \in Keys,
               PlayerCreateRoom(s, n, k)
        PROVE  RoomsTypeOK'
    BY <2>4 DEF PlayerCreateRoom, AddRoom, HandleRoomOperate, Serve
  <2>5. ASSUME NEW s \in Sessions, NEW n \in Names, NEW k \in Keys,
               PlayerEnterRoom(s, n, k)
        PROVE  RoomsTypeOK'
    BY <2>5, WhiteBoardAssumption
       DEF PlayerEnterRoom, HandleRoomOperate, Serve,
           SessionsWithout, DeleteTimeWithout
  <2>6. ASSUME NEW s \in Sessions, NEW n \in Names, NEW k \in Keys,
               PlayerDeleteRoom(s, n, k)
        PROVE  RoomsTypeOK'
    <3>1. PICK out \in SUBSET sessions_[k] :
            /\ sessions_' = [sessions_ EXCEPT ![k] = @ \ out]
            /\ room_' = [p \in Sessions |-> IF p \in out THEN NULL ELSE room_[p]]
      BY <2>6 DEF PlayerDeleteRoom
    <3>2. 0 \in -1 .. DeleteDelay
      BY WhiteBoardAssumption
    <3> QED
      BY <2>6, <3>1, <3>2 DEF PlayerDeleteRoom, HandleRoomOperate, Serve
  <2>7. ASSUME NEW s \in Sessions, NEW n \in Names, NEW k \in Keys,
               PlayerSyncPlayerList(s, n, k)
        PROVE  RoomsTypeOK'
    BY <2>7 DEF PlayerSyncPlayerList, HandleRoomOperate, Serve
  <2>8. ASSUME NEW s \in Sessions, NEW n \in Names, NEW k \in Keys, NEW des \in Keys,
               PlayerCopyRoom(s, n, k, des)
        PROVE  RoomsTypeOK'
    BY <2>8 DEF PlayerCopyRoom, AddRoom, HandleRoomOperate, Serve
  <2>9. ASSUME NEW s \in Sessions, ShapeOperation(s)
        PROVE  RoomsTypeOK'
    BY <2>9 DEF ShapeOperation, ShapeRefused, HandleAddShape, HandleRemoveShape,
                ChangeBoard, Serve
  <2>10. ASSUME NEW s \in Sessions, OnConnClosed(s)
         PROVE  RoomsTypeOK'
    BY <2>10, WhiteBoardAssumption
       DEF OnConnClosed, LeaveRoom, SessionsWithout, DeleteTimeWithout
  <2>11. ASSUME NEW k \in Keys, ForceDeleteCrashes(k)
         PROVE  RoomsTypeOK'
    BY <2>11 DEF ForceDeleteCrashes
  <2>12. ASSUME Tick
         PROVE  RoomsTypeOK'
    <3> SUFFICES ASSUME NEW k \in Keys
                 PROVE  can_delete_time_'[k] \in {Never} \cup (-1 .. DeleteDelay)
      BY <2>12 DEF Tick
    <3>1. can_delete_time_[k] \in {Never} \cup (-1 .. DeleteDelay)
      OBVIOUS
    <3> QED
      BY <2>12, <3>1, WhiteBoardAssumption DEF Tick
  <2>13. ASSUME Update
         PROVE  RoomsTypeOK'
    BY <2>13 DEF Update
  <2>14. CASE UNCHANGED vars
    BY <2>14 DEF vars
  <2> QED
    BY <2>1, <2>2, <2>3, <2>4, <2>5, <2>6, <2>7, <2>8, <2>9, <2>10, <2>11,
       <2>12, <2>13, <2>14
       DEF Next, RoomOperation
<1> QED
  BY <1>1, <1>2, PTL DEF Spec

-----------------------------------------------------------------------------
(* Every pointer from a session to its room and back is good throughout.   *)
(* Membership is inductive together with the types: a room only goes when  *)
(* it has no sessions, and a session goes after leaving its room.          *)
THEOREM PointersGood == Spec => []Membership
<1>1. Init => Membership
  BY DEF Init, Membership
<1>2. RoomsTypeOK /\ Membership /\ [Next]_vars => Membership'
  <2> SUFFICES ASSUME RoomsTypeOK, Membership, [Next]_vars
               PROVE  Membership'
    OBVIOUS
  <2> USE WhiteBoardAssumption DEF RoomsTypeOK, Membership
  <2>1. ASSUME NEW s \in Sessions, NEW n \in Names,
               OnlyRename(s, n) \/ PlayerAskRoomList(s, n)
        PROVE  Membership'
    BY <2>1 DEF OnlyRename, PlayerAskRoomList, HandleRoomOperate, Serve
  <2>2. ASSUME NEW s \in Sessions, NEW n \in Names, PlayerLeaveRoom(s, n)
        PROVE  Membership'
    BY <2>2 DEF PlayerLeaveRoom, LeaveRoom, HandleRoomOperate, Serve, SessionsWithout
  <2>3. ASSUME NEW s \in Sessions, NEW n \in Names, NEW k \in Keys,
               PlayerCreateRoom(s, n, k)
        PROVE  Membership'
    BY <2>3 DEF PlayerCreateRoom, AddRoom, HandleRoomOperate, Serve
  <2>4. ASSUME NEW s \in Sessions, NEW n \in Names, NEW k \in Keys,
               PlayerEnterRoom(s, n, k)
        PROVE  Membership'
    BY <2>4 DEF PlayerEnterRoom, HandleRoomOperate, Serve, SessionsWithout
  <2>5. ASSUME NEW s \in Sessions, NEW n \in Names, NEW k \in Keys,
               PlayerDeleteRoom(s, n, k)
        PROVE  Membership'
    <3>1. PICK out \in SUBSET sessions_[k] :
            /\ sessions_' = [sessions_ EXCEPT ![k] = @ \ out]
            /\ room_' = [p \in Sessions |-> IF p \in out THEN NULL ELSE room_[p]]
      BY <2>5 DEF PlayerDeleteRoom
    <3> QED
      BY <2>5, <3>1 DEF PlayerDeleteRoom, HandleRoomOperate, Serve
  <2>6. ASSUME NEW s \in Sessions, NEW n \in Names, NEW k \in Keys,
               PlayerSyncPlayerList(s, n, k)
        PROVE  Membership'
    BY <2>6 DEF PlayerSyncPlayerList, HandleRoomOperate, Serve
  <2>7. ASSUME NEW s \in Sessions, NEW n \in Names, NEW k \in Keys, NEW des \in Keys,
               PlayerCopyRoom(s, n, k, des)
        PROVE  Membership'
    BY <2>7 DEF PlayerCopyRoom, AddRoom, HandleRoomOperate, Serve
  <2>8. ASSUME NEW s \in Sessions, ShapeOperation(s)
        PROVE  Membership'
    BY <2>8 DEF ShapeOperation, ShapeRefused, HandleAddShape, HandleRemoveShape,
                ChangeBoard, Serve
  <2>9. ASSUME NEW s \in Sessions, OnConnClosed(s)
        PROVE  Membership'
    BY <2>9 DEF OnConnClosed, LeaveRoom, SessionsWithout
  <2>10. ASSUME NEW k \in Keys, ForceDeleteCrashes(k)
         PROVE  Membership'
    BY <2>10 DEF ForceDeleteCrashes
  <2>11. ASSUME Tick
         PROVE  Membership'
    BY <2>11 DEF Tick
  <2>12. ASSUME Update
         PROVE  Membership'
    BY <2>12 DEF Update, CanDelete
  <2>13. CASE UNCHANGED vars
    BY <2>13 DEF vars
  <2> QED
    BY <2>1, <2>2, <2>3, <2>4, <2>5, <2>6, <2>7, <2>8, <2>9, <2>10, <2>11,
       <2>12, <2>13
       DEF Next, RoomOperation
<1> QED
  BY <1>1, <1>2, RoomsTyped, PTL DEF Spec

-----------------------------------------------------------------------------
(* The drawings.  What CanvasInSync rests on: every board, in use or not,  *)
(* is numberable and its counter within the bound.                         *)
BoardInv ==
  /\ DOMAIN board = Keys
  /\ \A k \in Keys : Numberable(board[k]) /\ board[k].shape_max_id_ <= MaxShapeId + 1
  /\ DOMAIN canvas = Sessions
  /\ CanvasInSync

(* A change of the board of a room in which everyone was in sync leaves    *)
(* everyone in sync, when the change of the canvases mirrors it.           *)
LEMMA ChangeKeepsSync ==
  ASSUME RoomsTypeOK, Membership, BoardInv,
         NEW s \in Sessions, room_[s] # NULL,
         NEW b, Numberable(b), b.shape_max_id_ <= MaxShapeId + 1,
         board' = [board EXCEPT ![room_[s]] = b],
         room_' = room_,
         canvas' = [p \in Sessions |-> IF p \in sessions_[room_[s]]
                                       THEN b.shape_object_ ELSE canvas[p]]
  PROVE  BoardInv'
<1>1. room_[s] \in Keys
  BY DEF RoomsTypeOK
<1>2. \A p \in Sessions : room_[p] # NULL =>
        (room_[p] \in Keys /\ (p \in sessions_[room_[s]] <=> room_[p] = room_[s]))
  BY <1>1 DEF RoomsTypeOK, Membership
<1> QED
  BY <1>1, <1>2 DEF BoardInv, CanvasInSync

(* The empty drawing of a new room satisfies what BoardInv asks of a board.*)
LEMMA NewBoardFits == Numberable(NewBoard) /\ NewBoard.shape_max_id_ <= MaxShapeId + 1
BY ShapeStoreAssumption DEF NewBoard, Blank, Numberable, IsBoard, IsDrawing, ShapeIds

(* While the ids do not wrap around uint32_t, BoardInv holds throughout.   *)
LEMMA BoardsGood ==
  ASSUME MaxShapeId + 1 < IdSpace
  PROVE  Spec => []BoardInv
<1>1. Init => BoardInv
  BY NewBoardFits DEF Init, BoardInv, CanvasInSync
<1>2. RoomsTypeOK /\ Membership /\ BoardInv /\ [Next]_vars => BoardInv'
  <2> SUFFICES ASSUME RoomsTypeOK, Membership, BoardInv, [Next]_vars
               PROVE  BoardInv'
    OBVIOUS
  <2>1. ASSUME UNCHANGED <<board, room_, canvas>>
        PROVE  BoardInv'
    BY <2>1 DEF BoardInv, CanvasInSync
  <2>2. ASSUME NEW s \in Sessions, LeaveRoom(s)
        PROVE  BoardInv'
    BY <2>2 DEF LeaveRoom, BoardInv, CanvasInSync, RoomsTypeOK
  <2>3. ASSUME NEW s \in Sessions, NEW n \in Names, NEW k \in Keys,
               PlayerEnterRoom(s, n, k)
        PROVE  BoardInv'
    BY <2>3 DEF PlayerEnterRoom, BoardInv, CanvasInSync, RoomsTypeOK
  <2>4. ASSUME NEW s \in Sessions, NEW n \in Names, NEW k \in Keys,
               PlayerDeleteRoom(s, n, k)
        PROVE  BoardInv'
    <3>1. PICK out \in SUBSET sessions_[k] :
            /\ room_' = [p \in Sessions |-> IF p \in out THEN NULL ELSE room_[p]]
            /\ canvas' = [p \in Sessions |-> IF p \in out THEN Blank ELSE canvas[p]]
      BY <2>4 DEF PlayerDeleteRoom
    <3> QED
      BY <2>4, <3>1 DEF PlayerDeleteRoom, BoardInv, CanvasInSync
  <2>5. ASSUME NEW k \in Keys, NEW b, AddRoom(k, b), UNCHANGED canvas,
               Numberable(b), b.shape_max_id_ <= MaxShapeId + 1
        PROVE  BoardInv'
    <3>1. \A s \in Sessions : room_[s] # NULL => room_[s] # k
      BY <2>5 DEF AddRoom, Membership
    <3> QED
      BY <2>5, <3>1 DEF AddRoom, BoardInv, CanvasInSync, RoomsTypeOK
  <2>6. ASSUME NEW s \in Sessions, NEW list \in ShapeLists, HandleAddShape(s, list)
        PROVE  BoardInv'
    <3> DEFINE b == board[room_[s]]
               new == AddShapes(b, list)
               msg == Numbered(b, list)
    <3>1. /\ room_[s] # NULL /\ room_[s] \in Keys
          /\ b.shape_max_id_ + Len(list) <= MaxShapeId + 1
          /\ board' = [board EXCEPT ![room_[s]] = new]
          /\ room_' = room_
          /\ canvas' = [p \in Sessions |-> IF p \in sessions_[room_[s]]
                                           THEN Draw(canvas[p], msg) ELSE canvas[p]]
      BY <2>6 DEF HandleAddShape, ChangeBoard, RoomsTypeOK
    <3>2. Numberable(b) /\ b.shape_max_id_ \in Nat /\ Len(list) \in Nat
      BY <3>1, ListShape, ShapeStoreAssumption
         DEF BoardInv, Numberable, IsBoard, ShapeIds
    <3>3. /\ Numberable(new)
          /\ new.shape_max_id_ \in b.shape_max_id_ .. b.shape_max_id_ + Len(list)
          /\ Draw(b.shape_object_, msg) = new.shape_object_
      <4> HIDE DEF b
      <4>1. b.shape_max_id_ + Len(list) < IdSpace
        BY <3>1, <3>2, ShapeStoreAssumption
      <4> QED
        BY <3>2, <4>1, AddShapesDrawn
    <3>4. \A p \in sessions_[room_[s]] : canvas[p] = b.shape_object_
      BY <3>1 DEF BoardInv, CanvasInSync, Membership, RoomsTypeOK
    <3>5. new.shape_max_id_ <= MaxShapeId + 1
      <4>1. new.shape_max_id_ \in Nat
        BY <3>3, ShapeStoreAssumption DEF Numberable, IsBoard, ShapeIds
      <4> HIDE DEF new, b
      <4> QED
        BY <3>1, <3>2, <3>3, <4>1, ShapeStoreAssumption
    <3>6. canvas' = [p \in Sessions |-> IF p \in sessions_[room_[s]]
                                        THEN new.shape_object_ ELSE canvas[p]]
      <4> HIDE DEF new, b, msg
      <4> QED
        BY <3>1, <3>3, <3>4
    <3> HIDE DEF new, b, msg
    <3> QED
      BY <3>1, <3>3, <3>5, <3>6, ChangeKeepsSync
  <2>7. ASSUME NEW s \in Sessions, NEW id \in 0 .. MaxShapeId, HandleRemoveShape(s, id)
        PROVE  BoardInv'
    <3> DEFINE b == board[room_[s]]
               new == RemoveShape(b, id)
    <3>1. /\ room_[s] # NULL /\ room_[s] \in Keys
          /\ board' = [board EXCEPT ![room_[s]] = new]
          /\ room_' = room_
          /\ canvas' = [p \in Sessions |-> IF p \in sessions_[room_[s]]
                                           THEN Erase(canvas[p], id) ELSE canvas[p]]
      BY <2>7 DEF HandleRemoveShape, ChangeBoard, RoomsTypeOK
    <3>2. Numberable(b) /\ b.shape_max_id_ <= MaxShapeId + 1
      BY <3>1 DEF BoardInv
    <3>3. /\ Numberable(new)
          /\ new.shape_max_id_ = b.shape_max_id_
          /\ new.shape_object_ = Erase(b.shape_object_, id)
      <4> HIDE DEF b
      <4> QED
        BY <3>2, RemoveShapeErases
    <3>4. \A p \in sessions_[room_[s]] : canvas[p] = b.shape_object_
      BY <3>1 DEF BoardInv, CanvasInSync, Membership, RoomsTypeOK
    <3>5. canvas' = [p \in Sessions |-> IF p \in sessions_[room_[s]]
                                        THEN new.shape_object_ ELSE canvas[p]]
      <4> HIDE DEF new, b
      <4> QED
        BY <3>1, <3>3, <3>4
    <3> HIDE DEF new, b
    <3> QED
      BY <3>1, <3>2, <3>3, <3>5, ChangeKeepsSync
  <2>8. ASSUME Update
        PROVE  BoardInv'
    <3> DEFINE gone == {k \in rooms_ : CanDelete(k)}
    <3>1. \A s \in Sessions : room_[s] # NULL => room_[s] \notin gone
      BY DEF CanDelete, Membership
    <3>2. /\ board' = [k \in Keys |-> IF k \in gone THEN NewBoard ELSE board[k]]
          /\ UNCHANGED <<room_, canvas>>
      BY <2>8 DEF Update
    <3> HIDE DEF gone
    <3> QED
      BY <3>1, <3>2, NewBoardFits DEF BoardInv, CanvasInSync, RoomsTypeOK
  <2>9. ASSUME NEW s \in Sessions, NEW n \in Names, RoomOperation(s, n)
        PROVE  BoardInv'
    <3>1. CASE OnlyRename(s, n) \/ PlayerAskRoomList(s, n)
      BY <2>1, <3>1 DEF OnlyRename, PlayerAskRoomList, viewVars
    <3>2. CASE PlayerLeaveRoom(s, n)
      BY <2>2, <3>2 DEF PlayerLeaveRoom
    <3>3. ASSUME NEW k \in Keys, PlayerCreateRoom(s, n, k)
          PROVE  BoardInv'
      BY <2>5, <3>3, NewBoardFits DEF PlayerCreateRoom
    <3>4. ASSUME NEW k \in Keys, PlayerSyncPlayerList(s, n, k)
          PROVE  BoardInv'
      BY <2>1, <3>4 DEF PlayerSyncPlayerList
    <3>5. ASSUME NEW k \in Keys, NEW des \in Keys, PlayerCopyRoom(s, n, k, des)
          PROVE  BoardInv'
      <4>1. AddRoom(des, board[k]) /\ UNCHANGED canvas
        BY <3>5 DEF PlayerCopyRoom
      <4>2. Numberable(board[k]) /\ board[k].shape_max_id_ <= MaxShapeId + 1
        BY DEF BoardInv
      <4> QED
        BY <2>5, <4>1, <4>2
    <3> QED
      BY <2>3, <2>4, <2>9, <3>1, <3>2, <3>3, <3>4, <3>5 DEF RoomOperation
  <2>10. ASSUME NEW s \in Sessions, ShapeOperation(s)
         PROVE  BoardInv'
    BY <2>1, <2>6, <2>7, <2>10 DEF ShapeOperation, ShapeRefused, viewVars
  <2>11. ASSUME NEW s \in Sessions, OnConnClosed(s)
         PROVE  BoardInv'
    BY <2>2, <2>11 DEF OnConnClosed
  <2>12. ASSUME Tick \/ \E k \in Keys : ForceDeleteCrashes(k)
         PROVE  BoardInv'
    BY <2>1, <2>12 DEF Tick, ForceDeleteCrashes, viewVars
  <2>13. CASE UNCHANGED vars
    BY <2>1, <2>13 DEF vars
  <2> QED
    BY <2>8, <2>9, <2>10, <2>11, <2>12, <2>13 DEF Next
<1> QED
  BY <1>1, <1>2, RoomsTyped, PointersGood, PTL DEF Spec

(* While the ids do not wrap around uint32_t, every player in a room sees  *)
(* the room's drawing, and no room has given out an id it will give again. *)
THEOREM DrawingsShared ==
  ASSUME MaxShapeId + 1 < IdSpace
  PROVE  Spec => [](CanvasInSync /\ IdsBelowCounter)
<1>1. RoomsTypeOK /\ BoardInv => CanvasInSync /\ IdsBelowCounter
  BY DEF BoardInv, IdsBelowCounter, RoomsTypeOK
<1> QED
  BY <1>1, BoardsGood, RoomsTyped, PTL

(* Under the same condition no room gives out an id twice in its life: the *)
(* counter is never set back, and a shape appears under an id at or above  *)
(* it, whatever was removed, copied or overwritten before.                 *)
THEOREM IdsAreFresh ==
  ASSUME MaxShapeId + 1 < IdSpace
  PROVE  Spec => FreshIds
<1> DEFINE Fresh(b, c) ==
             /\ b.shape_max_id_ <= c.shape_max_id_
             /\ NewIds(b, c)
           AllFresh == \A k \in rooms_ \cap rooms_' : Fresh(board[k], board'[k])
<1>1. RoomsTypeOK /\ BoardInv /\ BoardInv' /\ [Next]_vars => AllFresh
  <2> SUFFICES ASSUME RoomsTypeOK, BoardInv, BoardInv', [Next]_vars
               PROVE  AllFresh
    OBVIOUS
  <2>1. \A k \in Keys : Numberable(board[k]) /\ board[k].shape_max_id_ \in Nat
    BY ShapeStoreAssumption DEF BoardInv, Numberable, IsBoard, ShapeIds
  <2>2. ASSUME NEW k \in Keys, board'[k] = board[k]
        PROVE  Fresh(board[k], board'[k])
    BY <2>1, <2>2 DEF NewIds
  <2>3. ASSUME board' = board
        PROVE  AllFresh
    BY <2>2, <2>3 DEF RoomsTypeOK
  <2>4. ASSUME NEW k \in Keys, NEW b, AddRoom(k, b)
        PROVE  AllFresh
    <3>1. \A j \in rooms_ : j \in Keys /\ board'[j] = board[j]
      BY <2>4 DEF AddRoom, BoardInv, RoomsTypeOK
    <3> QED
      BY <2>2, <3>1
  <2>5. ASSUME NEW s \in Sessions, NEW b, room_[s] # NULL,
               board' = [board EXCEPT ![room_[s]] = b],
               Fresh(board[room_[s]], b)
        PROVE  AllFresh
    <3>1. room_[s] \in Keys /\ board'[room_[s]] = b
      BY <2>5 DEF BoardInv, RoomsTypeOK
    <3>2. \A j \in rooms_ : j \in Keys /\ (j # room_[s] => board'[j] = board[j])
      BY <2>5 DEF BoardInv, RoomsTypeOK
    <3> HIDE DEF Fresh
    <3> QED
      BY <2>2, <2>5, <3>1, <3>2
  <2>6. ASSUME NEW s \in Sessions, NEW list \in ShapeLists, HandleAddShape(s, list)
        PROVE  AllFresh
    <3> DEFINE b == board[room_[s]]
               new == AddShapes(b, list)
    <3>1. /\ room_[s] # NULL /\ room_[s] \in Keys
          /\ b.shape_max_id_ + Len(list) <= MaxShapeId + 1
          /\ board' = [board EXCEPT ![room_[s]] = new]
      BY <2>6 DEF HandleAddShape, ChangeBoard, RoomsTypeOK
    <3>2. Numberable(b) /\ b.shape_max_id_ \in Nat /\ Len(list) \in Nat
      BY <2>1, <3>1, ListShape
    <3>3. /\ Numberable(new)
          /\ new.shape_max_id_ \in b.shape_max_id_ .. b.shape_max_id_ + Len(list)
          /\ \A i \in DOMAIN new.shape_object_ :
               i \in DOMAIN b.shape_object_ \/ b.shape_max_id_ <= i
      <4> HIDE DEF b
      <4>1. b.shape_max_id_ + Len(list) < IdSpace
        BY <3>1, <3>2, ShapeStoreAssumption
      <4> QED
        BY <3>2, <4>1, AddShapesDrawn
    <3>4. Fresh(b, new)
      <4> HIDE DEF b, new
      <4> QED
        BY <3>2, <3>3 DEF NewIds, Numberable
    <3> HIDE DEF new
    <3> QED
      BY <2>5, <3>1, <3>4
  <2>7. ASSUME NEW s \in Sessions, NEW id \in 0 .. MaxShapeId, HandleRemoveShape(s, id)
        PROVE  AllFresh
    <3> DEFINE b == board[room_[s]]
               new == RemoveShape(b, id)
    <3>1. /\ room_[s] # NULL /\ room_[s] \in Keys
          /\ board' = [board EXCEPT ![room_[s]] = new]
          /\ Numberable(b) /\ b.shape_max_id_ \in Nat
      BY <2>1, <2>7 DEF HandleRemoveShape, ChangeBoard, RoomsTypeOK
    <3>2. new.shape_max_id_ = b.shape_max_id_ /\ new.shape_object_ = Erase(b.shape_object_, id)
      <4> HIDE DEF b
      <4> QED
        BY <3>1, RemoveShapeErases
    <3>3. Fresh(b, new)
      <4> HIDE DEF b, new
      <4> QED
        BY <3>1, <3>2 DEF NewIds, Erase
    <3> HIDE DEF new
    <3> QED
      BY <2>5, <3>1, <3>3
  <2>8. ASSUME Update
        PROVE  AllFresh
    <3>1. \A j \in rooms_ \cap rooms_' : j \in Keys /\ board'[j] = board[j]
      BY <2>8 DEF Update, RoomsTypeOK
    <3> QED
      BY <2>2, <3>1
  <2>9. ASSUME NEW s \in Sessions, NEW n \in Names, RoomOperation(s, n)
        PROVE  AllFresh
    <3>1. CASE OnlyRename(s, n) \/ PlayerAskRoomList(s, n) \/ PlayerLeaveRoom(s, n)
      BY <2>3, <3>1 DEF OnlyRename, PlayerAskRoomList, PlayerLeaveRoom, LeaveRoom
    <3>2. ASSUME NEW k \in Keys, \/ PlayerEnterRoom(s, n, k)
                                 \/ PlayerDeleteRoom(s, n, k)
                                 \/ PlayerSyncPlayerList(s, n, k)
          PROVE  AllFresh
      BY <2>3, <3>2 DEF PlayerEnterRoom, PlayerDeleteRoom, PlayerSyncPlayerList
    <3>3. ASSUME NEW k \in Keys, \/ PlayerCreateRoom(s, n, k)
                                 \/ \E des \in Keys : PlayerCopyRoom(s, n, k, des)
          PROVE  AllFresh
      BY <2>4, <3>3 DEF PlayerCreateRoom, PlayerCopyRoom
    <3> QED
      BY <2>9, <3>1, <3>2, <3>3 DEF RoomOperation
  <2>10. ASSUME NEW s \in Sessions, ShapeOperation(s)
         PROVE  AllFresh
    BY <2>3, <2>6, <2>7, <2>10 DEF ShapeOperation, ShapeRefused
  <2>11. ASSUME \/ Tick
                \/ \E s \in Sessions : OnConnClosed(s)
                \/ \E k \in Keys : ForceDeleteCrashes(k)
         PROVE  AllFresh
    BY <2>3, <2>11 DEF Tick, OnConnClosed, LeaveRoom, ForceDeleteCrashes
  <2>12. CASE UNCHANGED vars
    BY <2>3, <2>12 DEF vars
  <2> QED
    BY <2>8, <2>9, <2>10, <2>11, <2>12 DEF Next
<1> QED
  BY <1>1, BoardsGood, RoomsTyped, PTL DEF Spec, FreshIds

-----------------------------------------------------------------------------
(* The types of what RoomsTypeOK leaves out: drawings and lists.           *)
ListsTypeOK ==
  /\ DOMAIN player_list = Sessions
  /\ \A s \in Sessions :
       \E ps \in SUBSET Sessions : player_list[s] \in [ps -> Names \cup {NULL}]
  /\ room_list \in [Sessions -> {NULL} \cup SUBSET Keys]

DrawingsTypeOK ==
  /\ DOMAIN board = Keys /\ \A k \in Keys : IsBoard(board[k])
  /\ DOMAIN canvas = Sessions /\ \A s \in Sessions : IsDrawing(canvas[s])

(* What a player is told of a room after a step is a list of players.      *)
LEMMA PlayersListed ==
  ASSUME RoomsTypeOK', NEW k \in Keys
  PROVE  \E ps \in SUBSET Sessions : PlayersOf(k)' \in [ps -> Names \cup {NULL}]
<1>1. sessions_'[k] \in SUBSET Sessions
  BY DEF RoomsTypeOK
<1>2. \A p \in sessions_'[k] : usr_name_'[p] \in Names \cup {NULL}
  BY <1>1 DEF RoomsTypeOK
<1>3. PlayersOf(k)' = [p \in sessions_'[k] |-> usr_name_'[p]]
  BY DEF PlayersOf
<1> QED
  BY <1>1, <1>2, <1>3

(* Sending the list of players to rooms keeps the lists typed.             *)
LEMMA BroadCastTyped ==
  ASSUME RoomsTypeOK', ListsTypeOK, NEW ks, BroadCastPlayerList(ks), NoRoomList
  PROVE  ListsTypeOK'
<1>1. \A k \in Keys : \E ps \in SUBSET Sessions :
        PlayersOf(k)' \in [ps -> Names \cup {NULL}]
  BY PlayersListed
<1>2. Blank \in [{} -> Names \cup {NULL}]
  BY DEF Blank
<1>3. ASSUME NEW s \in Sessions
      PROVE  \E ps \in SUBSET Sessions : player_list'[s] \in [ps -> Names \cup {NULL}]
  BY <1>1, <1>2 DEF BroadCastPlayerList, ListsTypeOK, RoomsTypeOK
<1> QED
  BY <1>3 DEF BroadCastPlayerList, NoRoomList, ListsTypeOK

(* A step of a player's room operation keeps drawings and lists typed.     *)
LEMMA RoomOperationTyped ==
  ASSUME RoomsTypeOK, RoomsTypeOK', ListsTypeOK, DrawingsTypeOK,
         NEW s \in Sessions, NEW n \in Names, RoomOperation(s, n)
  PROVE  ListsTypeOK' /\ DrawingsTypeOK'
<1>1. IsDrawing(Blank) /\ IsBoard(NewBoard)
  BY NewBoardFits DEF Numberable, IsBoard, NewBoard
<1>2. CASE OnlyRename(s, n)
  BY <1>2 DEF OnlyRename, viewVars, ListsTypeOK, DrawingsTypeOK
<1>3. CASE PlayerAskRoomList(s, n)
  BY <1>3 DEF PlayerAskRoomList, ListsTypeOK, DrawingsTypeOK, RoomsTypeOK
<1>4. CASE PlayerLeaveRoom(s, n)
  <2>1. ListsTypeOK'
    BY <1>4, BroadCastTyped DEF PlayerLeaveRoom, LeaveRoom
  <2>2. DrawingsTypeOK'
    BY <1>1, <1>4 DEF PlayerLeaveRoom, LeaveRoom, DrawingsTypeOK
  <2> QED
    BY <2>1, <2>2
<1>5. ASSUME NEW k \in Keys, NEW b, IsBoard(b), AddRoom(k, b), UNCHANGED <<canvas, player_list>>
      PROVE  ListsTypeOK' /\ DrawingsTypeOK'
  <2>1. ListsTypeOK'
    BY <1>5 DEF AddRoom, BroadCastRoomList, ListsTypeOK, RoomsTypeOK
  <2>2. DrawingsTypeOK'
    BY <1>5 DEF AddRoom, DrawingsTypeOK
  <2> QED
    BY <2>1, <2>2
<1>6. ASSUME NEW k \in Keys, PlayerCreateRoom(s, n, k)
      PROVE  ListsTypeOK' /\ DrawingsTypeOK'
  BY <1>1, <1>5, <1>6 DEF PlayerCreateRoom
<1>7. ASSUME NEW k \in Keys, PlayerEnterRoom(s, n, k)
      PROVE  ListsTypeOK' /\ DrawingsTypeOK'
  <2>1. ListsTypeOK'
    BY <1>7, BroadCastTyped DEF PlayerEnterRoom
  <2>2. DrawingsTypeOK'
    BY <1>7 DEF PlayerEnterRoom, DrawingsTypeOK, IsBoard
  <2> QED
    BY <2>1, <2>2
<1>8. ASSUME NEW k \in Keys, PlayerDeleteRoom(s, n, k)
      PROVE  ListsTypeOK' /\ DrawingsTypeOK'
  <2>1. PICK out \in SUBSET sessions_[k] :
          /\ canvas' = [p \in Sessions |-> IF p \in out THEN Blank ELSE canvas[p]]
          /\ BroadCastPlayerList(IF out = {} THEN {} ELSE {k})
    BY <1>8 DEF PlayerDeleteRoom
  <2>2. NoRoomList /\ board' = board
    BY <1>8 DEF PlayerDeleteRoom
  <2>3. ListsTypeOK'
    BY <2>1, <2>2, BroadCastTyped
  <2>4. DrawingsTypeOK'
    BY <1>1, <2>1, <2>2 DEF DrawingsTypeOK
  <2> QED
    BY <2>3, <2>4
<1>9. ASSUME NEW k \in Keys, PlayerSyncPlayerList(s, n, k)
      PROVE  ListsTypeOK' /\ DrawingsTypeOK'
  <2>1. ListsTypeOK'
    BY <1>9, PlayersListed DEF PlayerSyncPlayerList, ListsTypeOK
  <2>2. DrawingsTypeOK'
    BY <1>9 DEF PlayerSyncPlayerList, DrawingsTypeOK
  <2> QED
    BY <2>1, <2>2
<1>10. ASSUME NEW k \in Keys, NEW des \in Keys, PlayerCopyRoom(s, n, k, des)
       PROVE  ListsTypeOK' /\ DrawingsTypeOK'
  BY <1>5, <1>10 DEF PlayerCopyRoom, DrawingsTypeOK
<1> QED
  BY <1>2, <1>3, <1>4, <1>6, <1>7, <1>8, <1>9, <1>10 DEF RoomOperation

(* So does a step of drawing, even one that wraps the id counter.          *)
LEMMA ShapeOperationTyped ==
  ASSUME RoomsTypeOK, ListsTypeOK, DrawingsTypeOK, NEW s \in Sessions, ShapeOperation(s)
  PROVE  ListsTypeOK' /\ DrawingsTypeOK'
<1>1. CASE ShapeRefused(s)
  BY <1>1 DEF ShapeRefused, viewVars, ListsTypeOK, DrawingsTypeOK
<1>2. ASSUME NEW list \in ShapeLists, HandleAddShape(s, list)
      PROVE  ListsTypeOK' /\ DrawingsTypeOK'
  <2> DEFINE b == board[room_[s]]
             msg == Numbered(b, list)
             new == AddShapes(b, list)
  <2>1. /\ board' = [board EXCEPT ![room_[s]] = new]
        /\ canvas' = [p \in Sessions |-> IF p \in sessions_[room_[s]]
                                         THEN Draw(canvas[p], msg) ELSE canvas[p]]
        /\ UNCHANGED <<player_list, room_list>>
        /\ IsBoard(b)
    BY <1>2 DEF HandleAddShape, ChangeBoard, RoomsTypeOK, DrawingsTypeOK
  <2>2. Len(list) \in Nat /\ Len(msg) = Len(list)
    BY ListShape, NumberedShape
  <2>3. /\ IsBoard(new)
        /\ \A m \in 1 .. Len(list) : msg[m].id \in ShapeIds /\ msg[m].shape \in Shapes
    <3> HIDE DEF b
    <3> QED
      BY <2>1, AddShapesTyped
  <2> HIDE DEF msg, new
  <2>4. \A p \in Sessions : IsDrawing(Draw(canvas[p], msg))
    BY <2>2, <2>3, DrawTyped DEF DrawingsTypeOK
  <2> QED
    BY <2>1, <2>3, <2>4 DEF ListsTypeOK, DrawingsTypeOK
<1>3. ASSUME NEW id \in 0 .. MaxShapeId, HandleRemoveShape(s, id)
      PROVE  ListsTypeOK' /\ DrawingsTypeOK'
  <2> DEFINE b == board[room_[s]]
             new == RemoveShape(b, id)
  <2>1. /\ board' = [board EXCEPT ![room_[s]] = new]
        /\ canvas' = [p \in Sessions |-> IF p \in sessions_[room_[s]]
                                         THEN Erase(canvas[p], id) ELSE canvas[p]]
        /\ UNCHANGED <<player_list, room_list>>
        /\ IsBoard(b)
    BY <1>3 DEF HandleRemoveShape, ChangeBoard, RoomsTypeOK, DrawingsTypeOK
  <2>2. IsBoard(new)
    <3> HIDE DEF b
    <3>1. new = [shape_object_ |-> [i \in DOMAIN b.shape_object_ \ {id} |-> b.shape_object_[i]],
                 shape_max_id_ |-> b.shape_max_id_]
      BY <2>1 DEF RemoveShape, IsBoard
    <3> QED
      BY <2>1, <3>1 DEF IsBoard, IsDrawing
  <2>3. \A p \in Sessions : IsDrawing(Erase(canvas[p], id))
    BY DEF DrawingsTypeOK, Erase, IsDrawing
  <2> HIDE DEF new
  <2> QED
    BY <2>1, <2>2, <2>3 DEF ListsTypeOK, DrawingsTypeOK
<1> QED
  BY <1>1, <1>2, <1>3 DEF ShapeOperation

(* Everything is well typed throughout, the shape ids whether they wrap or *)
(* not: rooms and sessions first, then what the players are shown.         *)
THEOREM WhiteBoardTyped == Spec => []TypeOK
<1>1. Init => ListsTypeOK /\ DrawingsTypeOK
  <2>1. IsDrawing(Blank) /\ IsBoard(NewBoard)
    BY NewBoardFits DEF Numberable, IsBoard, NewBoard
  <2>2. Blank \in [{} -> Names \cup {NULL}]
    BY DEF Blank
  <2> QED
    BY <2>1, <2>2 DEF Init, ListsTypeOK, DrawingsTypeOK
<1>2. RoomsTypeOK /\ RoomsTypeOK' /\ ListsTypeOK /\ DrawingsTypeOK /\ [Next]_vars
        => ListsTypeOK' /\ DrawingsTypeOK'
  <2> SUFFICES ASSUME RoomsTypeOK, RoomsTypeOK', ListsTypeOK, DrawingsTypeOK, [Next]_vars
               PROVE  ListsTypeOK' /\ DrawingsTypeOK'
    OBVIOUS
  <2>1. ASSUME UNCHANGED <<board, viewVars>>
        PROVE  ListsTypeOK' /\ DrawingsTypeOK'
    BY <2>1 DEF viewVars, ListsTypeOK, DrawingsTypeOK
  <2>2. ASSUME NEW s \in Sessions, OnConnClosed(s)
        PROVE  ListsTypeOK' /\ DrawingsTypeOK'
    <3>1. ListsTypeOK'
      BY <2>2, BroadCastTyped DEF OnConnClosed, LeaveRoom
    <3>2. IsDrawing(Blank)
      BY NewBoardFits DEF Numberable, IsBoard, NewBoard
    <3>3. DrawingsTypeOK'
      BY <2>2, <3>2 DEF OnConnClosed, LeaveRoom, DrawingsTypeOK
    <3> QED
      BY <3>1, <3>3
  <2>3. ASSUME Update
        PROVE  ListsTypeOK' /\ DrawingsTypeOK'
    <3>1. IsBoard(NewBoard)
      BY NewBoardFits DEF Numberable
    <3>2. ListsTypeOK'
      BY <2>3 DEF Update, BroadCastRoomList, ListsTypeOK, RoomsTypeOK
    <3>3. DrawingsTypeOK'
      BY <2>3, <3>1 DEF Update, DrawingsTypeOK
    <3> QED
      BY <3>2, <3>3
  <2>4. ASSUME Tick \/ \E k \in Keys : ForceDeleteCrashes(k)
        PROVE  ListsTypeOK' /\ DrawingsTypeOK'
    BY <2>1, <2>4 DEF Tick, ForceDeleteCrashes
  <2>5. CASE UNCHANGED vars
    BY <2>1, <2>5 DEF vars, viewVars
  <2> QED
    BY <2>2, <2>3, <2>4, <2>5, RoomOperationTyped, ShapeOperationTyped DEF Next
<1>3. RoomsTypeOK /\ ListsTypeOK /\ DrawingsTypeOK => TypeOK
  BY DEF TypeOK, ListsTypeOK, DrawingsTypeOK
<1> QED
  BY <1>1, <1>2, <1>3, RoomsTyped, PTL DEF Spec

-----------------------------------------------------------------------------
(* A room list that any player holds is the present one, throughout: the   *)
(* broadcasts of AddNewRoom, CopyRoom and Update leave out nobody who is   *)
(* in a room, and who is in none forgets the list.                         *)
THEOREM RoomListCurrent == Spec => []RoomListInSync
<1>1. Init => RoomListInSync
  BY DEF Init, RoomListInSync
<1>2. RoomsTypeOK /\ RoomsTypeOK' /\ ListsTypeOK /\ RoomListInSync /\ [Next]_vars
        => RoomListInSync'
  <2> SUFFICES ASSUME RoomsTypeOK, RoomsTypeOK', ListsTypeOK, RoomListInSync, [Next]_vars
               PROVE  RoomListInSync'
    OBVIOUS
  <2>1. ASSUME rooms_' = rooms_, NoRoomList
        PROVE  RoomListInSync'
    BY <2>1 DEF NoRoomList, RoomListInSync
  <2>2. ASSUME BroadCastRoomList
        PROVE  RoomListInSync'
    BY <2>2 DEF BroadCastRoomList, RoomListInSync
  <2>3. ASSUME rooms_' = rooms_, room_list' = room_list
        PROVE  RoomListInSync'
    BY <2>3 DEF RoomListInSync
  <2>4. ASSUME NEW s \in Sessions, NEW n \in Names, RoomOperation(s, n)
        PROVE  RoomListInSync'
    <3>1. CASE OnlyRename(s, n)
      BY <2>3, <3>1 DEF OnlyRename, viewVars
    <3>2. CASE PlayerAskRoomList(s, n)
      BY <3>2 DEF PlayerAskRoomList, RoomListInSync, ListsTypeOK
    <3>3. CASE PlayerLeaveRoom(s, n)
      BY <2>1, <3>3 DEF PlayerLeaveRoom, LeaveRoom
    <3>4. ASSUME NEW k \in Keys, PlayerCreateRoom(s, n, k)
          PROVE  RoomListInSync'
      BY <2>2, <3>4 DEF PlayerCreateRoom, AddRoom
    <3>5. ASSUME NEW k \in Keys, PlayerEnterRoom(s, n, k)
          PROVE  RoomListInSync'
      BY <2>1, <3>5 DEF PlayerEnterRoom
    <3>6. ASSUME NEW k \in Keys, PlayerDeleteRoom(s, n, k)
          PROVE  RoomListInSync'
      BY <2>1, <3>6 DEF PlayerDeleteRoom
    <3>7. ASSUME NEW k \in Keys, PlayerSyncPlayerList(s, n, k)
          PROVE  RoomListInSync'
      BY <2>3, <3>7 DEF PlayerSyncPlayerList
    <3>8. ASSUME NEW k \in Keys, NEW des \in Keys, PlayerCopyRoom(s, n, k, des)
          PROVE  RoomListInSync'
      BY <2>2, <3>8 DEF PlayerCopyRoom, AddRoom
    <3> QED
      BY <2>4, <3>1, <3>2, <3>3, <3>4, <3>5, <3>6, <3>7, <3>8 DEF RoomOperation
  <2>5. ASSUME NEW s \in Sessions, ShapeOperation(s)
        PROVE  RoomListInSync'
    BY <2>3, <2>5 DEF ShapeOperation, ShapeRefused, HandleAddShape, HandleRemoveShape,
                      ChangeBoard, viewVars
  <2>6. ASSUME NEW s \in Sessions, OnConnClosed(s)
        PROVE  RoomListInSync'
    BY <2>1, <2>6 DEF OnConnClosed, LeaveRoom
  <2>7. ASSUME Tick \/ \E k \in Keys : ForceDeleteCrashes(k)
        PROVE  RoomListInSync'
    BY <2>3, <2>7 DEF Tick, ForceDeleteCrashes, viewVars
  <2>8. ASSUME Update
        PROVE  RoomListInSync'
    BY <2>2, <2>8 DEF Update
  <2>9. CASE UNCHANGED vars
    BY <2>3, <2>9 DEF vars
  <2> QED
    BY <2>4, <2>5, <2>6, <2>7, <2>8, <2>9 DEF Next
<1>3. TypeOK => ListsTypeOK
  BY DEF TypeOK, ListsTypeOK
<1> QED
  BY <1>1, <1>2, <1>3, RoomsTyped, WhiteBoardTyped, PTL DEF Spec

-----------------------------------------------------------------------------
(* Whoever is in a room whose players change in a step is sent the list of *)
(* those who are in it after the step, under the names they have then.     *)
(* Sending goes by room_, the list by sessions_: Membership before the step*)
(* and after it makes the two agree.                                       *)
THEOREM PlayersAreTold == Spec => PlayersTold
<1> DEFINE Told(k) == \A s \in sessions_'[k] : player_list'[s] = PlayersOf(k)'
           AllTold == \A k \in rooms_' : sessions_'[k] # sessions_[k] => Told(k)
<1>1. /\ RoomsTypeOK /\ Membership
      /\ RoomsTypeOK' /\ Membership'
      /\ [Next]_vars
      => AllTold
  <2> SUFFICES ASSUME RoomsTypeOK, Membership, RoomsTypeOK', Membership', [Next]_vars
               PROVE  AllTold
    OBVIOUS
  <2>1. ASSUME sessions_' = sessions_
        PROVE  AllTold
    BY <2>1
  <2>2. ASSUME NEW ks, BroadCastPlayerList(ks),
               \A k \in Keys \ ks : sessions_'[k] = sessions_[k]
        PROVE  AllTold
    <3> SUFFICES ASSUME NEW k \in rooms_', sessions_'[k] # sessions_[k],
                        NEW s \in sessions_'[k]
                 PROVE  player_list'[s] = PlayersOf(k)'
      OBVIOUS
    <3>1. k \in Keys /\ k \in ks /\ s \in Sessions
      BY <2>2 DEF RoomsTypeOK
    <3>2. room_'[s] = k /\ k # NULL
      BY <3>1, WhiteBoardAssumption DEF Membership
    <3>3. player_list'[s] = PlayersOf(room_[s])'
      BY <2>2, <3>1, <3>2 DEF BroadCastPlayerList
    <3> QED
      BY <3>2, <3>3 DEF PlayersOf
  <2>3. ASSUME NEW s \in Sessions, NEW n \in Names, RoomOperation(s, n)
        PROVE  AllTold
    <3>1. CASE OnlyRename(s, n) \/ PlayerAskRoomList(s, n)
      BY <2>1, <3>1 DEF OnlyRename, PlayerAskRoomList
    <3>2. CASE PlayerLeaveRoom(s, n)
      BY <2>2, <3>2 DEF PlayerLeaveRoom, LeaveRoom, SessionsWithout
    <3>3. ASSUME NEW k \in Keys, PlayerCreateRoom(s, n, k) \/ PlayerSyncPlayerList(s, n, k)
          PROVE  AllTold
      BY <2>1, <3>3 DEF PlayerCreateRoom, PlayerSyncPlayerList, AddRoom
    <3>4. ASSUME NEW k \in Keys, PlayerEnterRoom(s, n, k)
          PROVE  AllTold
      BY <2>2, <3>4 DEF PlayerEnterRoom, SessionsWithout
    <3>5. ASSUME NEW k \in Keys, PlayerDeleteRoom(s, n, k)
          PROVE  AllTold
      <4>1. PICK out \in SUBSET sessions_[k] :
              /\ sessions_' = [sessions_ EXCEPT ![k] = @ \ out]
              /\ BroadCastPlayerList(IF out = {} THEN {} ELSE {k})
        BY <3>5 DEF PlayerDeleteRoom
      <4>2. CASE out = {}
        BY <2>1, <4>1, <4>2 DEF RoomsTypeOK
      <4>3. CASE out # {}
        BY <2>2, <4>1, <4>3 DEF RoomsTypeOK
      <4> QED
        BY <4>2, <4>3
    <3>6. ASSUME NEW k \in Keys, NEW des \in Keys, PlayerCopyRoom(s, n, k, des)
          PROVE  AllTold
      BY <2>1, <3>6 DEF PlayerCopyRoom, AddRoom
    <3> QED
      BY <2>3, <3>1, <3>2, <3>3, <3>4, <3>5, <3>6 DEF RoomOperation
  <2>4. ASSUME NEW s \in Sessions, ShapeOperation(s)
        PROVE  AllTold
    BY <2>1, <2>4 DEF ShapeOperation, ShapeRefused, HandleAddShape, HandleRemoveShape,
                      ChangeBoard
  <2>5. ASSUME NEW s \in Sessions, OnConnClosed(s)
        PROVE  AllTold
    BY <2>2, <2>5 DEF OnConnClosed, LeaveRoom, SessionsWithout
  <2>6. ASSUME Tick \/ Update \/ \E k \in Keys : ForceDeleteCrashes(k)
        PROVE  AllTold
    BY <2>1, <2>6 DEF Tick, Update, ForceDeleteCrashes
  <2>7. CASE UNCHANGED vars
    BY <2>1, <2>7 DEF vars
  <2> QED
    BY <2>3, <2>4, <2>5, <2>6, <2>7 DEF Next
<1> QED
  BY <1>1, RoomsTyped, PointersGood, PTL DEF Spec, PlayersTold
=============================================================================
