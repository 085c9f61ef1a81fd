---------------------------- MODULE MCServerStop ----------------------------
(***************************************************************************)
(* Starting and stopping with the three services of the server, and all    *)
(* they could depend on: main's graph, others, circles and a service that  *)
(* is not there.                                                           *)
(***************************************************************************)
EXTENDS ServerStop

CONSTANTS Account, Dispatcher, missing

MCNames == <<Account, Dispatcher, server>>

MCGraphs ==
  {d \in [{Account, Dispatcher, server} -> SUBSET {Account, Dispatcher, server, missing}] :
     /\ d[Account] \subseteq {Dispatcher, server, missing}
     /\ d[Dispatcher] \subseteq {Account, server}
     /\ d[server] \subseteq {Account}}
=============================================================================
