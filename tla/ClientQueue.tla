---------------------------- MODULE ClientQueue ----------------------------
(***************************************************************************)
(* The queue of structs.c: a ring that grows.  Each operator returns the   *)
(* queue after the call; malloc does not fail here.                        *)
(***************************************************************************)
EXTENDS Naturals, Sequences

CONSTANTS
  Null,     \* a slot whose client has been taken
  Unset     \* a slot of a new array: malloc does not clear it

queue_constructor == [front |-> 0, rear |-> 0, capacity |-> 0, size |-> 0, elements |-> << >>]

(* Where an index of the ring goes from i.                                 *)
Follows(i, capacity) == IF i = capacity - 1 THEN 0 ELSE i + 1

(* The clients of the queue, first come first.                             *)
Contents(que) ==
  [k \in 1..que.size |-> que.elements[(que.front + k - 1) % que.capacity]]

resize_queue(que) ==
  LET new_capa == IF que.capacity = 0 THEN 1 ELSE 2 * que.capacity
  IN  [front |-> 0, rear |-> que.size, capacity |-> new_capa, size |-> que.size,
       elements |-> [i \in 0..(new_capa - 1) |->
                       IF i < que.size THEN Contents(que)[i + 1] ELSE Unset]]

enqueue(que, item) ==
  LET q == IF que.size = que.capacity THEN resize_queue(que) ELSE que
  IN  [q EXCEPT !.elements[q.rear] = item,
                !.rear = Follows(@, q.capacity),
                !.size = @ + 1]

(* Mutant: the front stays where it was.                                   *)
DequeueStays(que) == [que EXCEPT !.elements[que.front] = Null, !.size = @ - 1]

(* Of a queue that is not empty: its first client, and what is left.       *)
first(que) == que.elements[que.front]
dequeue(que) ==
  [que EXCEPT !.elements[que.front] = Null,
              !.front = Follows(@, que.capacity),
              !.size = @ - 1]

(* queue_destructor frees what is not NULL: is all of that a client?       *)
Destroyable(que) == \A i \in 0..(que.capacity - 1) : que.elements[i] # Unset

(* What the code keeps true of a queue.                                    *)
RingOK(que) ==
  /\ que.capacity \in Nat /\ que.front \in Nat /\ que.rear \in Nat /\ que.size \in 0..que.capacity
  /\ que = [front |-> que.front, rear |-> que.rear, capacity |-> que.capacity,
            size |-> que.size, elements |-> que.elements]
  /\ que.capacity = 0 => que.front = 0 /\ que.rear = 0
  /\ que.capacity # 0 =>
       /\ que.front < que.capacity
       /\ que.rear = (que.front + que.size) % que.capacity
       /\ DOMAIN que.elements = 0..(que.capacity - 1)
       /\ que.elements = [i \in 0..(que.capacity - 1) |-> que.elements[i]]
=============================================================================
