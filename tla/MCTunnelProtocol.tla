-------------------------- MODULE MCTunnelProtocol --------------------------
(* TunnelProtocol for TLC; the instances are in the configurations.         *)
EXTENDS TunnelProtocol
=============================================================================
