--------------------------- MODULE MCReaderWriter ---------------------------
(* ReaderWriter for TLC: a few child processes on two files.               *)
EXTENDS ReaderWriter, TLC

ProcSymmetry == Permutations(Procs)
ProcSlotSymmetry == Permutations(Procs) \cup Permutations(Slots)
=============================================================================
