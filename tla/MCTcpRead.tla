----------------------------- MODULE MCTcpRead ------------------------------
(***************************************************************************)
(* TcpRead on small instances: the configurations give Size and MaxChunks. *)
(***************************************************************************)
EXTENDS TcpRead
=============================================================================
