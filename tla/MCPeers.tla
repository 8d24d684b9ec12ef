------------------------------ MODULE MCPeers ------------------------------
(* Small instances of Peers. *)
EXTENDS Peers
=============================================================================
