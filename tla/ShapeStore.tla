----------------------------- MODULE ShapeStore -----------------------------
(***************************************************************************)
(* The drawing of one room: Room::shape_object_ (a map from shape id to    *)
(* serialised shape) with the id counter Room::shape_max_id_, and what     *)
(* Room::PlayerAddShape and Room::PlayerRemoveShape compute on it.  The    *)
(* module has no state: WhiteBoard keeps one board per room.               *)
(*                                                                         *)
(* A request or a broadcast of shapes (WhiteBoardMessageList) is a         *)
(* sequence of records [id |-> shapeid, shape |-> contents].               *)
(***************************************************************************)
EXTENDS Integers, Sequences

CONSTANTS
  Shapes,     \* the contents a shape can have
  IdSpace,    \* number of values of the uint32_t shape id: 2^32 in the code
  MaxShapeId, \* bound: the largest id a client names or a room hands out
  MaxList     \* bound: the most shapes in one request

ASSUME ShapeStoreAssumption ==
  /\ IdSpace \in Nat /\ IdSpace > 1
  /\ MaxShapeId \in Nat
  /\ MaxList \in Nat

ShapeIds == 0 .. IdSpace - 1

Entries == [id : 0 .. MaxShapeId, shape : Shapes]
ShapeLists == UNION {[1 .. n -> Entries] : n \in 0 .. MaxList}

Blank == [i \in {} |-> {}]

NewBoard == [shape_object_ |-> Blank, shape_max_id_ |-> 1]

IsDrawing(f) == DOMAIN f \subseteq ShapeIds /\ \A i \in DOMAIN f : f[i] \in Shapes

IsBoard(b) ==
  /\ b = [shape_object_ |-> b.shape_object_, shape_max_id_ |-> b.shape_max_id_]
  /\ IsDrawing(b.shape_object_)
  /\ b.shape_max_id_ \in ShapeIds

(* The counter is above every id the room has given out, so that no id is  *)
(* given out a second time.                                                *)
Numberable(b) ==
  /\ IsBoard(b)
  /\ \A i \in DOMAIN b.shape_object_ : i < b.shape_max_id_

-----------------------------------------------------------------------------
(* std::map::insert leaves the entry of an id that is already there alone. *)
Insert(drawing, id, shape) ==
  [i \in DOMAIN drawing \cup {id} |->
     IF i \in DOMAIN drawing THEN drawing[i] ELSE shape]

(* The id under which a room stores an entry: its own when the room has    *)
(* that shape, the next free one otherwise.                                *)
StoredId(b, e) ==
  IF e.id \in DOMAIN b.shape_object_ THEN e.id ELSE b.shape_max_id_

(* One turn of PlayerAddShape's loop.                                      *)
AddOne(b, e) ==
  IF e.id \in DOMAIN b.shape_object_
  THEN [b EXCEPT !.shape_object_[e.id] = e.shape]
  ELSE [shape_object_ |-> Insert(b.shape_object_, b.shape_max_id_, e.shape),
        shape_max_id_ |-> (b.shape_max_id_ + 1) % IdSpace]

(* The boards the loop goes through on a list of shapes.                   *)
Turns(b, list) ==
  LET after[n \in 0 .. Len(list)] ==
        IF n = 0 THEN b ELSE AddOne(after[n - 1], list[n])
  IN  after

AddShapes(b, list) == Turns(b, list)[Len(list)]

(* A mistake to be caught: the broadcast carries the ids of the request.   *)
AsRequested(b, list) == list

(* The request as the loop leaves it, with the ids the room gave: this is  *)
(* what is broadcast.                                                      *)
Numbered(b, list) ==
  [n \in 1 .. Len(list) |->
     [list[n] EXCEPT !.id = StoredId(Turns(b, list)[n - 1], list[n])]]

(* A mistake to be caught: the room takes the id of its last shape back.   *)
RemoveAndReuse(b, id) ==
  [shape_object_ |-> [i \in DOMAIN b.shape_object_ \ {id} |-> b.shape_object_[i]],
   shape_max_id_ |-> IF id + 1 = b.shape_max_id_ THEN id ELSE b.shape_max_id_]

RemoveShape(b, id) ==
  [b EXCEPT !.shape_object_ = [i \in DOMAIN @ \ {id} |-> @[i]]]

-----------------------------------------------------------------------------
(* The other end: what a client that applies the messages it is sent shows.*)
DrawOne(canvas, e) ==
  [i \in DOMAIN canvas \cup {e.id} |-> IF i = e.id THEN e.shape ELSE canvas[i]]

Strokes(canvas, list) ==
  LET shown[n \in 0 .. Len(list)] ==
        IF n = 0 THEN canvas ELSE DrawOne(shown[n - 1], list[n])
  IN  shown

Draw(canvas, list) == Strokes(canvas, list)[Len(list)]

Erase(canvas, id) == [i \in DOMAIN canvas \ {id} |-> canvas[i]]
=============================================================================
