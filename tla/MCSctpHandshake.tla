-------------------------- MODULE MCSctpHandshake --------------------------
(* A client against a server that only answers, as in the deployment.       *)
EXTENDS SctpHandshake

CONSTANTS client, server
MCPeer == {client, server}
MCClient == {client}
=============================================================================
