-------------------------------- MODULE Fifo --------------------------------
(***************************************************************************)
(* A FIFO as the programs use it: open, read, write and close on a named   *)
(* pipe, blocking.  Each operator returns the FIFO after the call.         *)
(*   readers, writers  the descriptors open for reading and for writing;   *)
(*                     one whose open still waits counts                   *)
(*   blocked           the descriptors whose open still waits              *)
(*   data              what has been written and not yet read              *)
(* The capacity of the pipe is left out: a write does not wait.            *)
(***************************************************************************)
EXTENDS Naturals, Sequences

EmptyFifo == [readers |-> {}, writers |-> {}, blocked |-> {}, data |-> << >>]

(* The open of a side waits for the other side, and frees who waits there. *)
OpenRead(f, d) ==
  [f EXCEPT !.readers = @ \cup {d},
            !.blocked = (@ \ f.writers) \cup {e \in {d} : f.writers = {}}]

OpenWrite(f, d) ==
  [f EXCEPT !.writers = @ \cup {d},
            !.blocked = (@ \ f.readers) \cup {e \in {d} : f.readers = {}}]

Blocked(f, d) == d \in f.blocked

(* With the last descriptor goes the data that nobody has read.            *)
Closed(f, D) ==
  LET g == [f EXCEPT !.readers = @ \ D, !.writers = @ \ D, !.blocked = @ \ D]
  IN  IF g.readers \cup g.writers = {} THEN EmptyFifo ELSE g

(* A write without a reader is answered with SIGPIPE.                      *)
Broken(f) == f.readers = {}
Written(f, x) == [f EXCEPT !.data = Append(@, x)]

(* A read waits for data, or for the last writer to close.                 *)
Readable(f) == f.data # << >> \/ f.writers = {}
Drained(f) == [f EXCEPT !.data = << >>]
=============================================================================
