------------------------------ MODULE MCSpork ------------------------------
(* Instance of Spork for TLC: a signer and two peers.                      *)
EXTENDS Spork
CONSTANTS a, b, c

MCNode == {a, b, c}
MCSigner == {a}
MCPeer == {b}
MCOne == {1}
=============================================================================
