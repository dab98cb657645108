---------------------------- MODULE MCMWCpBarrier ----------------------------
(* MWCpBarrier for TLC: a source tree with a subdirectory.                 *)
EXTENDS MWCpBarrier

(* "top" holds the file a and the directory "sub" with the other files.    *)
Tree == [e \in {"sub"} \cup Items |-> IF e \in {"sub", "a"} THEN "top" ELSE "sub"]
=============================================================================
