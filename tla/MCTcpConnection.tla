--------------------------- MODULE MCTcpConnection ---------------------------
(***************************************************************************)
(* What one connection reads and writes, for TLC: the chunks between the   *)
(* threads, the packets cut from them, and the packets that are sent.      *)
(* These share nothing, and part says whose behaviour this is; the others  *)
(* stay as they begin.  The properties of the first are TcpRead's own.     *)
(***************************************************************************)
EXTENDS TcpRead

CONSTANTS
  Base, PACKETLEN, OPCODELEN, STRING_LEN, PeerPackets, RawLength, MaxQueue, \* of Framing
  MaxWrites, CLOSE, game, Nothing                                       \* of TcpWrite

VARIABLES
  part,
  stream, received, read_queue_, buf_, packets,
  queue_index_, queues_, pushing, sending, wake, draining, idle, late,
  written, life, handed, answered, write_req_set_, freed, leaked

Cut == INSTANCE Framing WITH arrived <- received, got <- packets

(* A body is bytes, and an opcode is a number without a sign.              *)
ASSUME CutAssumption ==
  /\ Base \in Nat \ {0}
  /\ PACKETLEN \in Nat /\ OPCODELEN \in Nat /\ STRING_LEN \in Nat /\ RawLength \in Nat
  /\ PeerPackets \subseteq [opcode : Nat, body : Seq(0 .. Base - 1)]

(* With the widths in the cfg all of these can be encoded.                 *)
SmallPackets == [opcode : {1, 2}, body : {<<>>, <<0>>, <<2, 1>>}]

(* A packet is not the request to close, and Nothing is not a push.        *)
ASSUME WriteAssumption ==
  /\ MaxWrites \in Nat
  /\ CLOSE \notin 1 .. MaxWrites
  /\ Nothing \notin [to : {0, 1}, item : (1 .. MaxWrites) \cup {CLOSE}]

Write == INSTANCE TcpWrite

cutVars == <<stream, received, read_queue_, buf_, packets>>
writeVars == <<queue_index_, queues_, pushing, sending, wake, draining, idle, late,
  written, life, handed, answered, write_req_set_, freed, leaked>>
connectionVars == <<part, vars, cutVars, writeVars>>

ConnectionInit ==
  /\ part \in {"read", "cut", "write"}
  /\ Init
  /\ Cut!Init /\ (part = "cut" \/ stream = [i \in 1 .. RawLength |-> 0])
  /\ Write!Init

ConnectionNext ==
  /\ UNCHANGED part
  /\ \/ part = "read" /\ Next /\ UNCHANGED <<cutVars, writeVars>>
     \/ part = "cut" /\ Cut!Next /\ UNCHANGED <<vars, writeVars>>
     \/ part = "write" /\ Write!Next /\ UNCHANGED <<vars, cutVars>>

(* The fairness of each part, which it owes when it is the one that moves. *)
ReadFairness ==
  /\ WF_vars(part = "read" /\ WriteItem) /\ WF_vars(part = "read" /\ StoreTail)
  /\ WF_vars(part = "read" /\ Refused)
  /\ WF_vars(part = "read" /\ WasFull) /\ WF_vars(part = "read" /\ StopRead)
  /\ WF_vars(part = "read" /\ open /\ Pop)
  /\ WF_vars(part = "read" /\ StoreHead) /\ WF_vars(part = "read" /\ AskToRead)

CutFairness ==
  WF_cutVars(part = "cut" /\ Cut!ReadPacket) /\ WF_cutVars(part = "cut" /\ Cut!BufCat)

ConnectionSpec ==
  ConnectionInit /\ [][ConnectionNext]_connectionVars /\ ReadFairness /\ CutFairness

-----------------------------------------------------------------------------
(* Of cutting the bytes into packets (tcp_connection.cpp:347-421).         *)
ReadAsSent == Cut!ReadAsSent
EveryPacketRead == Cut!EveryPacketRead

(* Of writing (tcp_connection.cpp:62-80,204-232,315-345).                  *)
WrittenInOrder == Write!WrittenInOrder
WritesFreedOnce == Write!WritesFreedOnce
=============================================================================
