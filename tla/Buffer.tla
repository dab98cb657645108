------------------------------- MODULE Buffer -------------------------------
(***************************************************************************)
(* The bounded buffer of the directory copier: HW4/src/buffer.c (the       *)
(* routines of HW5/src/buffer.c are the same).                             *)
(*                                                                         *)
(* at[t] is where thread t is inside a routine of the buffer, "out" when   *)
(* in none.  Taking the mutex, the test of the while loop with the body,   *)
(* and releasing the mutex are separate steps.  A thread in                *)
(* pthread_cond_wait is at "push_wait" or "pop_wait" until it is signalled *)
(* (or wakes up for no reason, if Spurious) and has to take the mutex      *)
(* again before it tests the condition again.                              *)
(***************************************************************************)
EXTENDS Integers, FiniteSets

CONSTANTS
  Threads,    \* the threads that use the buffer
  Items,      \* what can be put into it (BufferElement)
  NoItem,     \* a BufferElement not yet assigned
  Capacity,   \* buffer->capacity
  Free,       \* the mutex has no owner
  Spurious    \* may pthread_cond_wait return without a signal?

ASSUME BufferAssumption ==
  /\ Capacity \in Nat
  /\ Free \notin Threads
  /\ NoItem \notin Items
  /\ Spurious \in BOOLEAN

VARIABLES
  items, in, out, count, done,   \* the fields of Buffer
  mutex,                         \* the owner of buffer->mutex
  at,                            \* where a thread is in a routine
  item,                          \* the element a thread pushes or has popped
  ret                            \* what buffer_pop returned to a thread

dataVars == <<items, in, out, count>>
bufferVars == <<dataVars, done, mutex, at, item, ret>>

Index == 0..(Capacity - 1)

PushPoints == {"push_lock", "push_test", "push_wait", "push_relock", "push_unlock"}
PopPoints == {"pop_lock", "pop_test", "pop_wait", "pop_relock", "pop_unlock"}
DonePoints == {"done_lock", "done_set", "done_unlock"}
BufferPoints == {"out"} \cup PushPoints \cup PopPoints \cup DonePoints

(* Points where a thread owns the mutex.                                   *)
OwnPoints == {"push_test", "push_unlock", "pop_test", "pop_unlock", "done_set", "done_unlock"}

init_buffer ==
  /\ items = [i \in Index |-> NoItem]
  /\ in = 0 /\ out = 0 /\ count = 0
  /\ done = FALSE
  /\ mutex = Free
  /\ at = [t \in Threads |-> "out"]
  /\ item = [t \in Threads |-> NoItem]
  /\ ret = [t \in Threads |-> 1]

-----------------------------------------------------------------------------
Goto(t, point) == at' = [at EXCEPT ![t] = point]

(* pthread_mutex_lock, also at the end of pthread_cond_wait.               *)
Lock(t, from, to) ==
  /\ at[t] = from /\ mutex = Free
  /\ mutex' = t
  /\ Goto(t, to)
  /\ UNCHANGED <<dataVars, done, item, ret>>

Unlock(t, from) ==
  /\ at[t] = from
  /\ mutex' = Free
  /\ Goto(t, "out")
  /\ UNCHANGED <<dataVars, done, item, ret>>

(* pthread_cond_wait lets go of the mutex and waits.                       *)
CondWait(t, point) ==
  /\ mutex' = Free
  /\ Goto(t, point)
  /\ UNCHANGED <<dataVars, done, item, ret>>

(* pthread_cond_signal: one of the threads waiting at a point, if there is *)
(* any, is woken, while thread t itself goes on to the unlock.             *)
Signal(t, waiting, woken, next) ==
  \/ /\ \A u \in Threads : at[u] # waiting
     /\ Goto(t, next)
  \/ \E u \in Threads :
       /\ at[u] = waiting
       /\ at' = [at EXCEPT ![u] = woken, ![t] = next]

(* pthread_cond_broadcast wakes them all.                                  *)
Broadcast(t, waiting, woken, next) ==
  at' = [u \in Threads |-> IF u = t THEN next
                           ELSE IF at[u] = waiting THEN woken ELSE at[u]]

-----------------------------------------------------------------------------
(* Mutant: never waits.                                                    *)
PushTestNoWait(t) ==
  /\ at[t] = "push_test"
  /\ items' = [items EXCEPT ![in] = item[t]]
  /\ in' = (in + 1) % Capacity
  /\ count' = count + 1
  /\ item' = [item EXCEPT ![t] = NoItem]
  /\ Signal(t, "pop_wait", "pop_relock", "push_unlock")
  /\ UNCHANGED <<out, done, mutex, ret>>

(* Mutant: the next push goes to the same slot.                            *)
PushTestForgetsIn(t) ==
  /\ at[t] = "push_test"
  /\ \/ /\ count >= Capacity
        /\ CondWait(t, "push_wait")
     \/ /\ count < Capacity
        /\ items' = [items EXCEPT ![in] = item[t]]
        /\ count' = count + 1
        /\ item' = [item EXCEPT ![t] = NoItem]
        /\ Signal(t, "pop_wait", "pop_relock", "push_unlock")
        /\ UNCHANGED <<in, out, done, mutex, ret>>

(* buffer_push *)
PushTest(t) ==
  /\ at[t] = "push_test"
  /\ \/ /\ count >= Capacity
        /\ CondWait(t, "push_wait")
     \/ /\ count < Capacity
        /\ items' = [items EXCEPT ![in] = item[t]]
        /\ in' = (in + 1) % Capacity
        /\ count' = count + 1
        /\ item' = [item EXCEPT ![t] = NoItem]
        /\ Signal(t, "pop_wait", "pop_relock", "push_unlock")
        /\ UNCHANGED <<out, done, mutex, ret>>

buffer_push(t) ==
  \/ Lock(t, "push_lock", "push_test")
  \/ PushTest(t)
  \/ Lock(t, "push_relock", "push_test")
  \/ Unlock(t, "push_unlock")

(* Mutant: returns 0 from an empty buffer that is not done.                *)
PopTestNoWait(t) ==
  /\ at[t] = "pop_test"
  /\ \/ /\ count <= 0
        /\ ret' = [ret EXCEPT ![t] = 0]
        /\ Goto(t, "pop_unlock")
        /\ UNCHANGED <<dataVars, done, mutex, item>>
     \/ /\ count > 0
        /\ item' = [item EXCEPT ![t] = items[out]]
        /\ out' = (out + 1) % Capacity
        /\ count' = count - 1
        /\ ret' = [ret EXCEPT ![t] = 1]
        /\ Signal(t, "push_wait", "push_relock", "pop_unlock")
        /\ UNCHANGED <<items, in, done, mutex>>

(* Mutant: the next pop takes the same slot.                               *)
PopTestForgetsOut(t) ==
  /\ at[t] = "pop_test"
  /\ \/ /\ count <= 0 /\ ~done
        /\ CondWait(t, "pop_wait")
     \/ /\ count <= 0 /\ done
        /\ ret' = [ret EXCEPT ![t] = 0]
        /\ Goto(t, "pop_unlock")
        /\ UNCHANGED <<dataVars, done, mutex, item>>
     \/ /\ count > 0
        /\ item' = [item EXCEPT ![t] = items[out]]
        /\ count' = count - 1
        /\ ret' = [ret EXCEPT ![t] = 1]
        /\ Signal(t, "push_wait", "push_relock", "pop_unlock")
        /\ UNCHANGED <<items, in, out, done, mutex>>

(* buffer_pop: with nothing in the buffer it waits, or returns 0 if no     *)
(* more will come.                                                         *)
PopTest(t) ==
  /\ at[t] = "pop_test"
  /\ \/ /\ count <= 0 /\ ~done
        /\ CondWait(t, "pop_wait")
     \/ /\ count <= 0 /\ done
        /\ ret' = [ret EXCEPT ![t] = 0]
        /\ Goto(t, "pop_unlock")
        /\ UNCHANGED <<dataVars, done, mutex, item>>
     \/ /\ count > 0
        /\ item' = [item EXCEPT ![t] = items[out]]
        /\ out' = (out + 1) % Capacity
        /\ count' = count - 1
        /\ ret' = [ret EXCEPT ![t] = 1]
        /\ Signal(t, "push_wait", "push_relock", "pop_unlock")
        /\ UNCHANGED <<items, in, done, mutex>>

buffer_pop(t) ==
  \/ Lock(t, "pop_lock", "pop_test")
  \/ PopTest(t)
  \/ Lock(t, "pop_relock", "pop_test")
  \/ Unlock(t, "pop_unlock")

(* Mutant: pthread_cond_signal in the place of the broadcast.              *)
SetDoneSignals(t) ==
  /\ at[t] = "done_set"
  /\ done' = TRUE
  /\ Signal(t, "pop_wait", "pop_relock", "done_unlock")
  /\ UNCHANGED <<dataVars, mutex, item, ret>>

SetDone(t) ==
  /\ at[t] = "done_set"
  /\ done' = TRUE
  /\ Broadcast(t, "pop_wait", "pop_relock", "done_unlock")
  /\ UNCHANGED <<dataVars, mutex, item, ret>>

buffer_set_done(t) ==
  \/ Lock(t, "done_lock", "done_set")
  \/ SetDone(t)
  \/ Unlock(t, "done_unlock")

buffer_is_done == done

(* pthread_cond_wait may return although nobody signalled.                 *)
Wake(t) ==
  /\ Spurious
  /\ \/ at[t] = "push_wait" /\ Goto(t, "push_relock")
     \/ at[t] = "pop_wait" /\ Goto(t, "pop_relock")
  /\ UNCHANGED <<dataVars, done, mutex, item, ret>>

(* One step of the routine thread t is in.                                 *)
RoutineStep(t) == buffer_push(t) \/ buffer_pop(t) \/ buffer_set_done(t)

-----------------------------------------------------------------------------
BufferTypeOK ==
  /\ items \in [Index -> Items \cup {NoItem}]
  /\ in \in Nat /\ out \in Nat /\ count \in Nat
  /\ done \in BOOLEAN
  /\ mutex \in Threads \cup {Free}
  /\ at \in [Threads -> BufferPoints]
  /\ item \in [Threads -> Items \cup {NoItem}]
  /\ ret \in [Threads -> {0, 1}]

(* A thread is between lock and unlock exactly when it owns the mutex.     *)
MutexOwned == \A t \in Threads : at[t] \in OwnPoints <=> mutex = t

(* The next index after i of the ring.                                     *)
Succ(i) == IF i + 1 = Capacity THEN 0 ELSE i + 1

(* in is count places after out, round the ring.                           *)
RingOK ==
  /\ count <= Capacity
  /\ Capacity > 0 => /\ in \in Index /\ out \in Index
                     /\ in = IF out + count < Capacity THEN out + count
                             ELSE out + count - Capacity

(* The slots from out up to in hold the elements not yet popped.           *)
Occupied ==
  {i \in Index : IF out + count <= Capacity THEN out <= i /\ i < out + count
                 ELSE out <= i \/ i < out + count - Capacity}
=============================================================================
