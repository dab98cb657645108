--------------------------- MODULE MCFileCommands ---------------------------
(* FileCommands for TLC.                                                   *)
EXTENDS FileCommands

ProcSymmetry == Permutations(Procs)

(* "f" is in the working directory, "g" only in the server directory.      *)
Directory == [n \in Names |-> IF n = "f" THEN <<"old">> ELSE NoFile]
ServerDirectory == [n \in Names |-> IF n = "g" THEN <<"old", "old">> ELSE NoFile]
TableFG == <<"f", "g">>
TableF == <<"f">>
TableEmpty == << >>
=============================================================================
