------------------------------- MODULE MCGateway -------------------------------
(* Small instances of GatewayConfig for TLC: up to three nodes.            *)
EXTENDS GatewayConfig

CONSTANTS n1, n2, n3   \* model values the configurations draw from

=============================================================================
