---------------------------- MODULE MCWhiteBoard ----------------------------
(***************************************************************************)
(* WhiteBoard on small instances.  The configurations give the constants   *)
(* their values.  In the run of the rooms players are interchangeable, and *)
(* so are keys; the run with temporal properties has no symmetry.          *)
(***************************************************************************)
EXTENDS WhiteBoard, TLC

RoomSymmetry == Permutations(Sessions) \cup Permutations(Keys)
=============================================================================
