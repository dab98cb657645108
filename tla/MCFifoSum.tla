----------------------------- MODULE MCFifoSum -----------------------------
(* FifoSum for TLC: an array whose sum and product differ.                 *)
EXTENDS FifoSum

Drawn == <<3, 5>>
=============================================================================
