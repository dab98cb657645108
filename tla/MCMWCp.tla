------------------------------- MODULE MCMWCp -------------------------------
(* MWCp for TLC: a source tree with a subdirectory.                        *)
EXTENDS MWCp

(* "top" holds the file a and the directory "sub" with the other files.    *)
Tree == [e \in {"sub"} \cup Items |-> IF e \in {"sub", "a"} THEN "top" ELSE "sub"]

(* Nothing tells the files of "sub" apart: readdir gives them by name, and *)
(* "sub" before or after "a".                                              *)
InSub == <<"b", "c", "d", "e", "g">>
NamesOrder == {<<InSub[i], InSub[j]>> : <<i, j>> \in {p \in (1..5) \X (1..5) : p[1] < p[2]}}
=============================================================================
