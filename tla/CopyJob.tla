------------------------------ MODULE CopyJob ------------------------------
(***************************************************************************)
(* What the directory copier promises: every file is queued once, taken    *)
(* from the queue in that order by one worker, and copied by it; the queue *)
(* never holds more than Capacity files and is closed after the last one.  *)
(***************************************************************************)
EXTENDS Integers, Sequences

CONSTANTS Items, NoItem, Workers, Capacity

VARIABLES
  todo,     \* files not yet queued
  queue,    \* files waiting for a worker, oldest first
  busy,     \* the file a worker has
  copied,   \* files copied
  closed    \* no more files will be queued

jobVars == <<todo, queue, busy, copied, closed>>

JobInit ==
  /\ todo = Items
  /\ queue = << >>
  /\ busy = [w \in Workers |-> NoItem]
  /\ copied = {}
  /\ closed = FALSE

Put(f) ==
  /\ f \in todo /\ Len(queue) < Capacity
  /\ todo' = todo \ {f}
  /\ queue' = Append(queue, f)
  /\ UNCHANGED <<busy, copied, closed>>

Take(w) ==
  /\ busy[w] = NoItem /\ queue # << >>
  /\ busy' = [busy EXCEPT ![w] = Head(queue)]
  /\ queue' = Tail(queue)
  /\ UNCHANGED <<todo, copied, closed>>

Complete(w) ==
  /\ busy[w] # NoItem
  /\ copied' = copied \cup {busy[w]}
  /\ busy' = [busy EXCEPT ![w] = NoItem]
  /\ UNCHANGED <<todo, queue, closed>>

Close ==
  /\ todo = {} /\ ~closed
  /\ closed' = TRUE
  /\ UNCHANGED <<todo, queue, busy, copied>>

JobNext ==
  \/ \E f \in Items : Put(f)
  \/ \E w \in Workers : Take(w) \/ Complete(w)
  \/ Close

JobSpec == JobInit /\ [][JobNext]_jobVars
=============================================================================
