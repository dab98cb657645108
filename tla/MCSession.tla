----------------------------- MODULE MCSession ------------------------------
(* Session for TLC: every kind of command the user can type.               *)
EXTENDS Session

AllKinds == {"short", "long", "bareUpload", "killServer", "quit"}
=============================================================================
