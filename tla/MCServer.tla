------------------------------ MODULE MCServer ------------------------------
(* Server for TLC: the clients are numbered as they come.                  *)
EXTENDS Server

FourClients == 1..4
=============================================================================
