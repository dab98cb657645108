-------------------------- MODULE CopyThreadsProofs --------------------------
(***************************************************************************)
(* The threads of the directory copier keep CopyInv, for any tree, any     *)
(* number of workers and slots: what the copiers of HW4 and HW5 share.     *)
(***************************************************************************)
EXTENDS CopyThreads, FiniteSetTheorems, SequenceTheorems, TLAPS

(* A push takes the first free slot of the ring.                           *)
LEMMA SlotPushed ==
  ASSUME BufferTypeOK, RingOK, count < Capacity,
         in' = (in + 1) % Capacity, out' = out, count' = count + 1
  PROVE  /\ in \in Index /\ in \notin Occupied /\ in' \in Nat
         /\ Occupied' = Occupied \cup {in}
         /\ RingOK'
<1> USE BufferAssumption DEF BufferTypeOK
<1>1. Capacity \in Nat \ {0} /\ in \in 0..(Capacity - 1) /\ out \in 0..(Capacity - 1)
      /\ in = IF out + count < Capacity THEN out + count ELSE out + count - Capacity
  BY DEF RingOK, Index
<1>2. in' = IF in + 1 = Capacity THEN 0 ELSE in + 1
  BY <1>1
<1>3. in \notin Occupied
  BY <1>1 DEF Occupied, Index
<1>4. Occupied' = Occupied \cup {in}
  BY <1>1 DEF Occupied, Index
<1>5. RingOK'
  BY <1>1, <1>2 DEF RingOK, Index
<1> QED
  BY <1>1, <1>2, <1>3, <1>4, <1>5 DEF Index

(* A pop frees the first slot that is taken.                               *)
LEMMA SlotPopped ==
  ASSUME BufferTypeOK, RingOK, count > 0,
         out' = (out + 1) % Capacity, in' = in, count' = count - 1
  PROVE  /\ out \in Index /\ out \in Occupied /\ out' \in Nat /\ count' \in Nat
         /\ Occupied' = Occupied \ {out}
         /\ RingOK'
<1> USE BufferAssumption DEF BufferTypeOK
<1>1. Capacity \in Nat \ {0} /\ in \in 0..(Capacity - 1) /\ out \in 0..(Capacity - 1)
      /\ count <= Capacity
      /\ in = IF out + count < Capacity THEN out + count ELSE out + count - Capacity
  BY DEF RingOK, Index
<1>2. out' = IF out + 1 = Capacity THEN 0 ELSE out + 1
  BY <1>1
<1>3. out \in Occupied
  BY <1>1 DEF Occupied, Index
<1>4. Occupied' = Occupied \ {out}
  BY <1>1, <1>2 DEF Occupied, Index
<1>5. RingOK'
  BY <1>1, <1>2 DEF RingOK, Index
<1> QED
  BY <1>1, <1>2, <1>3, <1>4, <1>5 DEF Index

(* An empty ring has no slot taken.                                        *)
LEMMA EmptyRing ==
  ASSUME BufferTypeOK, RingOK, count = 0
  PROVE  Occupied = {}
BY BufferAssumption DEF BufferTypeOK, RingOK, Occupied, Index

(* Main and the walk do not change in a routine of the buffer.             *)
LEMMA RoutineLeavesWalk ==
  ASSUME CopyInv, NEW t \in Threads, BufferStep(t)
  PROVE  WalkOK' /\ WalkComplete' /\ MainOK'
<1>1. UNCHANGED <<main, started, joined, mpc, dir, entry, stack, left, made, dest, wpc, destroyed>>
  BY DEF BufferStep, mainVars, walkVars
<1> QED
  BY <1>1 DEF CopyInv, WalkOK, WalkComplete, MainOK, Entries

(* The steps of a routine that only lock, unlock, wait or are woken.       *)
Moves ==
  {<<"push_lock", "push_test">>, <<"push_test", "push_wait">>, <<"push_wait", "push_relock">>,
   <<"push_relock", "push_test">>, <<"push_unlock", "out">>,
   <<"pop_lock", "pop_test">>, <<"pop_test", "pop_wait">>, <<"pop_wait", "pop_relock">>,
   <<"pop_relock", "pop_test">>, <<"pop_unlock", "out">>,
   <<"done_lock", "done_set">>, <<"done_unlock", "out">>}

LEMMA MoveKeeps ==
  ASSUME CopyInv, proc' = proc, NEW t \in Threads, BufferStep(t),
         NEW to, <<at[t], to>> \in Moves, Goto(t, to), UNCHANGED <<dataVars, done, item, ret>>,
         \/ to \in OwnPoints /\ mutex = Free /\ mutex' = t
         \/ at[t] \in OwnPoints /\ to \notin OwnPoints /\ mutex' = Free
         \/ at[t] \notin OwnPoints /\ to \notin OwnPoints /\ mutex' = mutex
  PROVE  CopyInv'
<1> USE BufferAssumption, ThreadsAssumption DEF CopyInv
<1>1. UNCHANGED <<main, started, joined, mpc, dir, entry, stack, left, made, dest, wpc, destroyed>>
      /\ UNCHANGED <<items, in, out, count>>
  BY DEF BufferStep, mainVars, walkVars, dataVars
<1>2. at' = [at EXCEPT ![t] = to] /\ to \in BufferPoints
  BY DEF Goto, Moves, BufferPoints, PushPoints, PopPoints, DonePoints
<1>3. CopyTypeOK'
  BY <1>1, <1>2 DEF CopyTypeOK, BufferTypeOK
<1>4. MutexOwned'
  BY <1>2 DEF MutexOwned, CopyTypeOK, BufferTypeOK
<1>5. RoutineOf'
  BY <1>1, <1>2 DEF RoutineOf, Moves, PushPoints, PopPoints, DonePoints, CopyTypeOK, BufferTypeOK
<1>6. HandsOK'
  BY <1>1, <1>2 DEF HandsOK, RoutineOf, Popped, Moves, PushPoints, PopPoints, DonePoints, CopyTypeOK, BufferTypeOK
<1>7. DoneOK'
  BY <1>1, <1>2 DEF DoneOK, RoutineOf, Popped, Moves, PushPoints, PopPoints, DonePoints, CopyTypeOK, BufferTypeOK
<1>8. RingOK' /\ (\A i \in Occupied : items[i] \in Items)' /\ EachFileInOnePlace'
  BY <1>1 DEF RingOK, Occupied, EachFileInOnePlace, InHand, Queued, InFlight
<1> QED
  BY <1>3, <1>4, <1>5, <1>6, <1>7, <1>8, RoutineLeavesWalk

(* A push into a free slot: the file goes from the manager to the ring.    *)
LEMMA PushKeeps ==
  ASSUME CopyInv, proc' = proc, NEW t \in Threads, BufferStep(t),
         at[t] = "push_test", PushTest(t), count < Capacity
  PROVE  CopyInv'
<1> USE BufferAssumption, ThreadsAssumption DEF CopyInv
<1>1. UNCHANGED <<main, started, joined, mpc, dir, entry, stack, left, made, dest, wpc, destroyed>>
  BY DEF BufferStep, mainVars, walkVars
<1>2. t = Manager
  BY DEF RoutineOf, PopPoints, Workers
<1>3. /\ items' = [items EXCEPT ![in] = item[t]] /\ in' = (in + 1) % Capacity /\ count' = count + 1
      /\ item' = [item EXCEPT ![t] = NoItem] /\ UNCHANGED <<out, done, mutex, ret>>
      /\ Signal(t, "pop_wait", "pop_relock", "push_unlock")
  BY DEF PushTest, CopyTypeOK, BufferTypeOK
<1>4. /\ in \in Index /\ in \notin Occupied /\ in' \in Nat
      /\ Occupied' = Occupied \cup {in} /\ RingOK'
  BY <1>3, SlotPushed DEF CopyTypeOK
<1>5. /\ at' \in [Threads -> BufferPoints] /\ at'[t] = "push_unlock"
      /\ \A u \in Threads \ {t} : at'[u] = at[u] \/ (at[u] = "pop_wait" /\ at'[u] = "pop_relock")
  BY <1>3 DEF Signal, Goto, CopyTypeOK, BufferTypeOK, BufferPoints, PushPoints, PopPoints
<1>6. item[t] \in Items
  BY <1>2 DEF HandsOK, CopyTypeOK, BufferTypeOK
<1>7. CopyTypeOK'
  BY <1>1, <1>3, <1>4, <1>5 DEF CopyTypeOK, BufferTypeOK
<1>8. MutexOwned'
  BY <1>3, <1>5 DEF MutexOwned, OwnPoints
<1>9. (\A i \in Occupied : items[i] \in Items)'
  BY <1>3, <1>4, <1>6 DEF CopyTypeOK, BufferTypeOK
<1>10. EachFileInOnePlace'
  <2>1. (\A u, v \in Threads : item[u] = item[v] /\ item[u] # NoItem => u = v)'
    BY <1>3 DEF EachFileInOnePlace, CopyTypeOK, BufferTypeOK
  <2>2. \A i \in Occupied : items'[i] = items[i] /\ items[i] # item[t]
    <3>1. Occupied \subseteq Index
      BY DEF Occupied
    <3>2. item[t] \in InHand /\ item[t] \notin Queued
      BY <1>6 DEF InHand, EachFileInOnePlace
    <3> QED
      BY <1>3, <1>4, <3>1, <3>2 DEF Queued, CopyTypeOK, BufferTypeOK
  <2>3. items'[in] = item[t]
    BY <1>3, <1>4 DEF CopyTypeOK, BufferTypeOK
  <2>4. (\A i, j \in Occupied : items[i] = items[j] => i = j)'
    BY <1>4, <2>2, <2>3 DEF EachFileInOnePlace
  <2>5. Queued' = Queued \cup {item[t]}
    BY <1>4, <2>2, <2>3 DEF Queued
  <2>6. InHand' = InHand \ {item[t]} /\ item[t] \in InHand
    BY <1>3, <1>6 DEF InHand, EachFileInOnePlace, CopyTypeOK, BufferTypeOK
  <2>7. InFlight' = InFlight
    BY <1>1 DEF InFlight
  <2> QED
    BY <2>1, <2>4, <2>5, <2>6, <2>7 DEF EachFileInOnePlace
<1>11. RoutineOf'
  BY <1>1, <1>2, <1>5 DEF RoutineOf, PushPoints, PopPoints, DonePoints, Workers
<1>12. HandsOK'
  BY <1>1, <1>2, <1>3, <1>5 DEF HandsOK, Popped, Workers, CopyTypeOK, BufferTypeOK
<1>13. DoneOK'
  BY <1>1, <1>2, <1>3, <1>5 DEF DoneOK, RoutineOf, Popped, Workers, PushPoints, Ended
<1> QED
  BY <1>4, <1>7, <1>8, <1>9, <1>10, <1>11, <1>12, <1>13, RoutineLeavesWalk

(* A pop: the first file of the ring goes to a worker.                     *)
LEMMA PopKeeps ==
  ASSUME CopyInv, proc' = proc, NEW t \in Threads, BufferStep(t),
         at[t] = "pop_test", PopTest(t), count > 0
  PROVE  CopyInv'
<1> USE BufferAssumption, ThreadsAssumption DEF CopyInv
<1>1. UNCHANGED <<main, started, joined, mpc, dir, entry, stack, left, made, dest, wpc, destroyed>>
  BY DEF BufferStep, mainVars, walkVars
<1>2. t \in Workers /\ t # Manager /\ wpc[t] = "pop_called"
  BY DEF RoutineOf, PopPoints, PushPoints, DonePoints
<1>3. /\ item' = [item EXCEPT ![t] = items[out]] /\ out' = (out + 1) % Capacity /\ count' = count - 1
      /\ ret' = [ret EXCEPT ![t] = 1] /\ UNCHANGED <<items, in, done, mutex>>
      /\ Signal(t, "push_wait", "push_relock", "pop_unlock")
  BY DEF PopTest, CopyTypeOK, BufferTypeOK
<1>4. /\ out \in Index /\ out \in Occupied /\ out' \in Nat /\ count' \in Nat
      /\ Occupied' = Occupied \ {out} /\ RingOK'
  BY <1>3, SlotPopped DEF CopyTypeOK
<1>5. /\ at' \in [Threads -> BufferPoints] /\ at'[t] = "pop_unlock"
      /\ \A u \in Threads \ {t} : at'[u] = at[u] \/ (at[u] = "push_wait" /\ at'[u] = "push_relock")
  <2>1. at \in [Threads -> BufferPoints] /\ {"push_relock", "pop_unlock"} \subseteq BufferPoints
    BY DEF CopyTypeOK, BufferTypeOK, BufferPoints, PushPoints, PopPoints
  <2>2. Signal(t, "push_wait", "push_relock", "pop_unlock")
    BY <1>3
  <2> HIDE DEF CopyInv
  <2> QED
    BY <2>1, <2>2 DEF Signal, Goto
<1>6. items[out] \in Items /\ item[t] = NoItem
  BY <1>2, <1>4 DEF HandsOK, Popped
<1>7. CopyTypeOK'
  BY <1>1, <1>3, <1>4, <1>5, <1>6 DEF CopyTypeOK, BufferTypeOK
<1>8. MutexOwned'
  BY <1>3, <1>5 DEF MutexOwned, OwnPoints
<1>9. (\A i \in Occupied : items[i] \in Items)'
  BY <1>3, <1>4
<1>10. EachFileInOnePlace'
  <2>1. \A u \in Threads : item[u] # items[out]
    BY <1>4, <1>6 DEF EachFileInOnePlace, InHand, Queued
  <2>2. (\A u, v \in Threads : item[u] = item[v] /\ item[u] # NoItem => u = v)'
    BY <1>3, <2>1 DEF EachFileInOnePlace, CopyTypeOK, BufferTypeOK
  <2>3. (\A i, j \in Occupied : items[i] = items[j] => i = j)'
    BY <1>3, <1>4 DEF EachFileInOnePlace
  <2>4. Queued' = Queued \ {items[out]} /\ items[out] \in Queued
    BY <1>3, <1>4 DEF Queued, EachFileInOnePlace
  <2>5. InHand' = InHand \cup {items[out]}
    BY <1>3, <1>6 DEF InHand, CopyTypeOK, BufferTypeOK
  <2>6. InFlight' = InFlight
    BY <1>1 DEF InFlight
  <2> QED
    BY <2>2, <2>3, <2>4, <2>5, <2>6 DEF EachFileInOnePlace
<1>11. RoutineOf'
  BY <1>1, <1>2, <1>5 DEF RoutineOf, PushPoints, PopPoints, DonePoints, Workers
<1>12. HandsOK'
  BY <1>1, <1>2, <1>3, <1>5, <1>6 DEF HandsOK, Popped, Workers, CopyTypeOK, BufferTypeOK
<1>13. DoneOK'
  <2>1. ~(done /\ count = 0)
    BY DEF CopyTypeOK, BufferTypeOK
  <2>2. \A w \in Workers : ~(wpc[w] \in Ended \/ (Popped(w) /\ ret[w] = 0))
    BY <2>1 DEF DoneOK
  <2>3. \A w \in Workers : ~(wpc[w] \in Ended \/ (Popped(w) /\ ret[w] = 0))'
    <3> SUFFICES ASSUME NEW w \in Workers
                 PROVE  ~(wpc[w] \in Ended \/ (Popped(w) /\ ret[w] = 0))'
      OBVIOUS
    <3>1. CASE w = t
      BY <1>1, <1>2, <1>3, <3>1 DEF Ended, CopyTypeOK, BufferTypeOK
    <3>2. CASE w # t
      <4>1. w \in Threads /\ ret'[w] = ret[w] /\ wpc'[w] = wpc[w]
        BY <1>1, <1>3, <3>2 DEF CopyTypeOK, BufferTypeOK
      <4>2. at'[w] = at[w] \/ at'[w] = "push_relock"
        BY <1>5, <3>2, <4>1
      <4> QED
        BY <2>2, <4>1, <4>2 DEF Popped
    <3> QED
      BY <3>1, <3>2
  <2>4. Manager \in Threads /\ (at'[Manager] = at[Manager] \/ (at[Manager] = "push_wait" /\ at'[Manager] = "push_relock"))
    BY <1>2, <1>5
  <2>5. (done => mpc \in {"set_done_called"} \cup Ended /\ at[Manager] \in {"done_unlock", "out"})'
    BY <1>1, <1>3, <2>4 DEF DoneOK
  <2>6. (\/ at[Manager] = "done_unlock" \/ mpc \in Ended
         \/ mpc = "set_done_called" /\ at[Manager] = "out"
         => done)'
    BY <1>1, <1>3, <2>4 DEF DoneOK
  <2>7. (\A w \in Workers : wpc[w] \in Ended \/ (Popped(w) /\ ret[w] = 0) => done /\ count = 0)'
    BY <2>3
  <2> QED
    BY <2>5, <2>6, <2>7 DEF DoneOK
<1> QED
  BY <1>4, <1>7, <1>8, <1>9, <1>10, <1>11, <1>12, <1>13, RoutineLeavesWalk

(* A pop that finds the ring empty after the manager's last file.          *)
LEMMA LastPopKeeps ==
  ASSUME CopyInv, proc' = proc, NEW t \in Threads, BufferStep(t),
         at[t] = "pop_test", PopTest(t), count <= 0, done
  PROVE  CopyInv'
<1> USE BufferAssumption, ThreadsAssumption DEF CopyInv
<1>1. UNCHANGED <<main, started, joined, mpc, dir, entry, stack, left, made, dest, wpc, destroyed>>
  BY DEF BufferStep, mainVars, walkVars
<1>2. t \in Workers /\ t # Manager /\ wpc[t] = "pop_called"
  BY DEF RoutineOf, PopPoints, PushPoints, DonePoints
<1>3. /\ ret' = [ret EXCEPT ![t] = 0] /\ at' = [at EXCEPT ![t] = "pop_unlock"]
      /\ UNCHANGED <<items, in, out, count, done, mutex, item>> /\ count = 0
  <2>1. count = 0 /\ ~(count > 0)
    BY DEF CopyTypeOK, BufferTypeOK
  <2> HIDE DEF CopyInv
  <2> QED
    BY <2>1 DEF PopTest, Goto, dataVars
<1>4. CopyTypeOK'
  BY <1>1, <1>3 DEF CopyTypeOK, BufferTypeOK, BufferPoints, PopPoints
<1>5. MutexOwned'
  BY <1>3 DEF MutexOwned, OwnPoints, CopyTypeOK, BufferTypeOK
<1>6. RoutineOf'
  BY <1>1, <1>2, <1>3 DEF RoutineOf, PopPoints, CopyTypeOK, BufferTypeOK
<1>7. HandsOK'
  BY <1>1, <1>2, <1>3 DEF HandsOK, Popped, CopyTypeOK, BufferTypeOK
<1>8. DoneOK'
  BY <1>1, <1>2, <1>3 DEF DoneOK, Popped, CopyTypeOK, BufferTypeOK
<1>9. RingOK' /\ (\A i \in Occupied : items[i] \in Items)' /\ EachFileInOnePlace'
  BY <1>1, <1>3 DEF RingOK, Occupied, EachFileInOnePlace, InHand, Queued, InFlight
<1> QED
  BY <1>4, <1>5, <1>6, <1>7, <1>8, <1>9, RoutineLeavesWalk

(* The flag is set and every worker that waits is woken.                   *)
LEMMA SetDoneKeeps ==
  ASSUME CopyInv, proc' = proc, NEW t \in Threads, BufferStep(t), SetDone(t)
  PROVE  CopyInv'
<1> USE BufferAssumption, ThreadsAssumption DEF CopyInv
<1>1. UNCHANGED <<main, started, joined, mpc, dir, entry, stack, left, made, dest, wpc, destroyed>>
  BY DEF BufferStep, mainVars, walkVars
<1>2. t = Manager /\ mpc = "set_done_called"
  BY DEF SetDone, RoutineOf, PopPoints, DonePoints, Workers
<1>3. done' = TRUE /\ UNCHANGED <<items, in, out, count, mutex, item, ret>> /\ at[t] = "done_set"
  BY DEF SetDone, dataVars
<1>4. at' = [u \in Threads |-> IF u = t THEN "done_unlock"
                               ELSE IF at[u] = "pop_wait" THEN "pop_relock" ELSE at[u]]
  BY DEF SetDone, Broadcast
<1>5. CopyTypeOK'
  BY <1>1, <1>3, <1>4 DEF CopyTypeOK, BufferTypeOK, BufferPoints, PopPoints, DonePoints
<1>6. MutexOwned'
  BY <1>3, <1>4 DEF MutexOwned, OwnPoints
<1>7. RoutineOf'
  BY <1>1, <1>2, <1>4 DEF RoutineOf, PushPoints, PopPoints, DonePoints
<1>8. HandsOK'
  BY <1>1, <1>2, <1>3, <1>4 DEF HandsOK, Popped
<1>9. DoneOK'
  BY <1>1, <1>2, <1>3, <1>4 DEF DoneOK, Popped, Ended
<1>10. RingOK' /\ (\A i \in Occupied : items[i] \in Items)' /\ EachFileInOnePlace'
  BY <1>1, <1>3 DEF RingOK, Occupied, EachFileInOnePlace, InHand, Queued, InFlight
<1> QED
  BY <1>5, <1>6, <1>7, <1>8, <1>9, <1>10, RoutineLeavesWalk

(* No step of a routine of the buffer breaks the invariant.                *)
LEMMA BufferStepKeeps ==
  ASSUME CopyInv, proc' = proc, NEW t \in Threads, BufferStep(t)
  PROVE  CopyInv'
<1>1. ASSUME NEW from, NEW to, Lock(t, from, to), <<from, to>> \in Moves, to \in OwnPoints
      PROVE  CopyInv'
  BY <1>1, MoveKeeps DEF Lock
<1>2. ASSUME NEW from, Unlock(t, from), <<from, "out">> \in Moves, from \in OwnPoints
      PROVE  CopyInv'
  BY <1>2, MoveKeeps DEF Unlock, OwnPoints
<1>3. ASSUME NEW to, at[t] \in OwnPoints, <<at[t], to>> \in Moves, to \notin OwnPoints, CondWait(t, to)
      PROVE  CopyInv'
  BY <1>3, MoveKeeps DEF CondWait
<1>4. CASE Wake(t)
  <2>1. PICK to : Goto(t, to) /\ <<at[t], to>> \in Moves /\ at[t] \notin OwnPoints /\ to \notin OwnPoints
    BY <1>4 DEF Wake, Moves, OwnPoints
  <2> QED
    BY <1>4, <2>1, MoveKeeps DEF Wake
<1>5. CASE buffer_push(t)
  <2>1. CASE Lock(t, "push_lock", "push_test") \/ Lock(t, "push_relock", "push_test")
    BY <1>1, <2>1 DEF Moves, OwnPoints
  <2>2. CASE PushTest(t)
    BY <1>3, <2>2, PushKeeps DEF PushTest, Moves, OwnPoints
  <2>3. CASE Unlock(t, "push_unlock")
    BY <1>2, <2>3 DEF Moves, OwnPoints
  <2> QED
    BY <1>5, <2>1, <2>2, <2>3 DEF buffer_push
<1>6. CASE buffer_pop(t)
  <2>1. CASE Lock(t, "pop_lock", "pop_test") \/ Lock(t, "pop_relock", "pop_test")
    BY <1>1, <2>1 DEF Moves, OwnPoints
  <2>2. CASE PopTest(t)
    BY <1>3, <2>2, PopKeeps, LastPopKeeps DEF PopTest, Moves, OwnPoints
  <2>3. CASE Unlock(t, "pop_unlock")
    BY <1>2, <2>3 DEF Moves, OwnPoints
  <2> QED
    BY <1>6, <2>1, <2>2, <2>3 DEF buffer_pop
<1>7. CASE buffer_set_done(t)
  <2>1. CASE Lock(t, "done_lock", "done_set")
    BY <1>1, <2>1 DEF Moves, OwnPoints
  <2>2. CASE SetDone(t)
    BY <2>2, SetDoneKeeps
  <2>3. CASE Unlock(t, "done_unlock")
    BY <1>2, <2>3 DEF Moves, OwnPoints
  <2> QED
    BY <1>7, <2>1, <2>2, <2>3 DEF buffer_set_done
<1> QED
  BY <1>4, <1>5, <1>6, <1>7 DEF BufferStep, RoutineStep

-----------------------------------------------------------------------------
(* The copier starts with nothing open and nothing in the ring.            *)
LEMMA CopyStarts == CopyInit => CopyInv
<1> SUFFICES ASSUME CopyInit PROVE CopyInv
  OBVIOUS
<1> USE BufferAssumption, ThreadsAssumption DEF CopyInit, init_buffer
<1>1. CopyTypeOK
  <2>1. BufferTypeOK
    BY DEF BufferTypeOK, BufferPoints
  <2>2. stack \in Seq(Dirs)
    OBVIOUS
  <2>3. left \in [Dirs -> SUBSET DOMAIN Parent]
    OBVIOUS
  <2>4. started \in 0..WorkerCount /\ joined \in 0..WorkerCount /\ made \subseteq Dirs
    OBVIOUS
  <2>5. /\ dest \in [Items -> {"none", "empty", "copied"}]
        /\ wpc \in [Workers -> WorkerPoints] /\ mpc \in ManagerPoints
    BY DEF WorkerPoints, ManagerPoints
  <2> QED
    BY <2>1, <2>2, <2>3, <2>4, <2>5 DEF CopyTypeOK
<1>2. MutexOwned
  BY DEF MutexOwned, OwnPoints
<1>3. RingOK /\ Occupied = {}
  BY DEF RingOK, Occupied, Index
<1>4. EachFileInOnePlace
  BY <1>3 DEF EachFileInOnePlace, InHand, Queued, InFlight
<1>5. RoutineOf
  BY DEF RoutineOf, PushPoints, PopPoints, DonePoints
<1>6. HandsOK
  BY DEF HandsOK, Popped
<1>7. WalkOK
  BY DEF WalkOK
<1>8. WalkComplete
  BY DEF WalkComplete, Ended
<1>9. DoneOK
  BY DEF DoneOK, Popped, Ended
<1>10. MainOK
  BY DEF MainOK, Workers
<1> QED
  BY <1>1, <1>2, <1>3, <1>4, <1>5, <1>6, <1>7, <1>8, <1>9, <1>10 DEF CopyInv

(* A step that leaves the buffer and the walk alone.                       *)
LEMMA RestKeeps ==
  ASSUME CopyInv, UNCHANGED <<bufferVars, dest>>
  PROVE  /\ BufferTypeOK' /\ MutexOwned' /\ RingOK'
         /\ (\A i \in Occupied : items[i] \in Items)' /\ EachFileInOnePlace'
<1>1. UNCHANGED <<items, in, out, count, done, mutex, at, item, ret, dest>>
  BY DEF bufferVars, dataVars
<1> QED
  BY <1>1 DEF CopyInv, CopyTypeOK, BufferTypeOK, MutexOwned, RingOK, Occupied,
              EachFileInOnePlace, InHand, Queued, InFlight

(* main creates the threads, joins them and cleans up.                     *)
LEMMA MainKeeps ==
  ASSUME CopyInv, proc' = proc, MainStep
  PROVE  CopyInv'
<1> USE BufferAssumption, ThreadsAssumption DEF CopyInv
<1>1. UNCHANGED <<bufferVars, dest, dir, entry, stack, left, made>>
  BY DEF MainStep, CreateManager, CreateWorker, JoinManager, JoinWorker, Cleanup, walkVars
<1>2. UNCHANGED <<items, in, out, count, done, mutex, at, item, ret, dest>>
  BY <1>1 DEF bufferVars, dataVars
<1>3. CASE CreateManager
  <2>1. /\ main = "start" /\ mpc = "new" /\ mpc' = "opendir" /\ main' = "create"
        /\ UNCHANGED <<started, joined, wpc, destroyed>>
    BY <1>3 DEF CreateManager, MainOK
  <2>2. CopyTypeOK'
    BY <1>1, <2>1, RestKeeps DEF CopyTypeOK, ManagerPoints
  <2>3. RoutineOf' /\ HandsOK' /\ DoneOK' /\ MainOK'
    BY <1>2, <2>1 DEF RoutineOf, HandsOK, DoneOK, MainOK, Popped, Ended
  <2>4. WalkOK'
    BY <1>1, <2>1 DEF WalkOK, Entries
  <2>5. WalkComplete'
    BY <1>1, <2>1 DEF WalkComplete, WalkOK, Ended
  <2> QED
    BY <1>1, <2>2, <2>3, <2>4, <2>5, RestKeeps
<1>4. CASE CreateWorker
  <2>1. /\ main = "create" /\ started < WorkerCount /\ started' = started + 1
        /\ wpc' = [wpc EXCEPT ![started + 1] = "pop"]
        /\ UNCHANGED <<main, joined, mpc, destroyed>>
    BY <1>4 DEF CreateWorker, walkVars
  <2>2. started + 1 \in Workers /\ started \in 0..WorkerCount /\ wpc[started + 1] = "new"
    BY <2>1 DEF CopyTypeOK, MainOK, Workers
  <2>3. CopyTypeOK'
    BY <1>1, <2>1, <2>2, RestKeeps DEF CopyTypeOK, WorkerPoints
  <2>4. \A w \in Workers : w # started + 1 => wpc'[w] = wpc[w]
    BY <2>1 DEF CopyTypeOK
  <2>5. wpc'[started + 1] = "pop"
    BY <2>1, <2>2 DEF CopyTypeOK
  <2>6. RoutineOf' /\ HandsOK' /\ DoneOK'
    BY <1>2, <2>1, <2>2, <2>4, <2>5 DEF RoutineOf, HandsOK, DoneOK, Popped, Ended
  <2>7. MainOK'
    BY <2>1, <2>2, <2>4, <2>5 DEF MainOK, CopyTypeOK, Workers
  <2>8. WalkOK' /\ WalkComplete'
    BY <1>1, <2>1 DEF WalkOK, WalkComplete, Entries
  <2> QED
    BY <1>1, <2>3, <2>6, <2>7, <2>8, RestKeeps
<1>5. CASE JoinManager \/ JoinWorker \/ Cleanup
  <2>1. UNCHANGED <<mpc, wpc, started>>
    BY <1>5 DEF JoinManager, JoinWorker, Cleanup, walkVars
  <2>2. /\ main' \in {"start", "create", "join", "end"}
        /\ joined' \in 0..WorkerCount /\ destroyed' \in BOOLEAN
    <3>1. joined < WorkerCount => joined + 1 \in 0..WorkerCount
      BY DEF CopyTypeOK
    <3> QED
      BY <1>5, <3>1 DEF JoinManager, JoinWorker, Cleanup, CopyTypeOK
  <2>3. CopyTypeOK'
    BY <1>1, <2>1, <2>2, RestKeeps DEF CopyTypeOK
  <2>4. RoutineOf' /\ HandsOK' /\ DoneOK'
    BY <1>2, <2>1 DEF RoutineOf, HandsOK, DoneOK, Popped
  <2>5. MainOK'
    <3>1. CASE JoinManager
      BY <2>1, <3>1 DEF MainOK, JoinManager
    <3>2. CASE JoinWorker
      <4>1. \A w \in Workers : w <= joined + 1 => w <= joined \/ w = joined + 1
        BY DEF CopyTypeOK, Workers
      <4> QED
        BY <2>1, <3>2, <4>1 DEF MainOK, JoinWorker
    <3>3. CASE Cleanup
      BY <2>1, <3>3 DEF MainOK, Cleanup
    <3> QED
      BY <1>5, <3>1, <3>2, <3>3
  <2>6. WalkOK' /\ WalkComplete'
    BY <1>1, <2>1 DEF WalkOK, WalkComplete, Entries
  <2> QED
    BY <1>1, <2>3, <2>4, <2>5, <2>6, RestKeeps
<1> QED
  BY <1>3, <1>4, <1>5 DEF MainStep

(* While the manager walks, main waits for it and the flag is not set.     *)
LEMMA ManagerWalks ==
  ASSUME CopyInv, mpc \in {"opendir", "readdir", "open", "set_done"}
  PROVE  /\ at[Manager] = "out" /\ item[Manager] = NoItem /\ ~done
         /\ \A w \in Workers : wpc[w] \notin Ended /\ ~(Popped(w) /\ ret[w] = 0)
         /\ main \notin {"start", "join", "end"}
<1> USE ThreadsAssumption DEF CopyInv
<1>1. at[Manager] = "out"
  BY DEF RoutineOf
<1>2. ~done
  BY DEF DoneOK, Ended
<1> QED
  BY <1>1, <1>2 DEF HandsOK, DoneOK, MainOK

(* A step of the walk that leaves the files and the buffer alone.          *)
LEMMA WalkOnlyKeeps ==
  ASSUME CopyInv, proc' = proc,
         UNCHANGED <<bufferVars, dest, main, started, joined, wpc>>,
         mpc \in {"opendir", "readdir", "open"},
         mpc' \in {"opendir", "readdir", "open", "set_done", "exit"}, destroyed' \in BOOLEAN,
         dir' \in Dirs, entry' \in Items \cup {NoItem}, stack' \in Seq(Dirs),
         left' \in [Dirs -> SUBSET DOMAIN Parent], made' \subseteq Dirs,
         WalkOK', WalkComplete'
  PROVE  CopyInv'
<1> USE BufferAssumption, ThreadsAssumption
<1>1. UNCHANGED <<items, in, out, count, done, mutex, at, item, ret>>
  BY DEF bufferVars, dataVars
<1>2. /\ at[Manager] = "out" /\ item[Manager] = NoItem /\ ~done
      /\ main \notin {"start", "join", "end"}
      /\ \A w \in Workers : wpc[w] \notin Ended /\ ~(Popped(w) /\ ret[w] = 0)
  BY ManagerWalks
<1>3. CopyTypeOK'
  BY RestKeeps DEF CopyInv, CopyTypeOK, ManagerPoints
<1>4. RoutineOf' /\ HandsOK'
  BY <1>1, <1>2 DEF CopyInv, RoutineOf, HandsOK, Popped, PushPoints, DonePoints
<1>5. DoneOK'
  BY <1>1, <1>2 DEF DoneOK, Popped, Ended
<1>6. MainOK'
  BY <1>2 DEF CopyInv, MainOK
<1> QED
  BY <1>3, <1>4, <1>5, <1>6, RestKeeps DEF CopyInv

(* The manager opens a directory, or fails to, and reads the next entry.   *)
LEMMA DirectoryKeeps ==
  ASSUME CopyInv, proc' = proc, OpenDir \/ ReadDir
  PROVE  CopyInv'
<1> USE BufferAssumption, ThreadsAssumption
<1>0. /\ WalkOK /\ WalkComplete /\ CopyTypeOK
      /\ stack \in Seq(Dirs) /\ left \in [Dirs -> SUBSET DOMAIN Parent] /\ made \subseteq Dirs
      /\ dir \in Dirs /\ entry \in Items \cup {NoItem} /\ destroyed \in BOOLEAN
  BY DEF CopyInv, CopyTypeOK
<1>1. CASE mpc = "opendir" /\ Fail
  <2>1. WalkOK'
    BY <1>0, <1>1 DEF Fail, WalkOK, Entries
  <2>2. WalkComplete'
    BY <1>1 DEF Fail, WalkComplete
  <2> QED
    BY <1>0, <1>1, <2>1, <2>2, WalkOnlyKeeps DEF Fail, mainVars
<1>2. CASE OpenDir /\ ~Fail
  <2>1. /\ mpc = "opendir" /\ mpc' = "readdir" /\ stack' = Append(stack, dir)
        /\ left' = [left EXCEPT ![dir] = Entries(dir)] /\ made' = made \cup {dir}
        /\ UNCHANGED <<bufferVars, main, started, joined, dir, entry, dest, wpc, destroyed>>
    BY <1>2 DEF OpenDir, mainVars
  <2>2. /\ dir \notin made /\ (dir # Root => Parent[dir] \in made)
        /\ \A d \in Dirs : dir \notin left[d]
    BY <1>0, <2>1 DEF WalkOK
  <2>3. /\ stack' \in Seq(Dirs) /\ Len(stack') = Len(stack) + 1 /\ Len(stack) \in Nat
        /\ stack'[Len(stack) + 1] = dir
        /\ \A k \in 1..Len(stack) : stack'[k] = stack[k]
    BY <1>0, <2>1
  <2>4. Entries(dir) \subseteq DOMAIN Parent /\ left'[dir] = Entries(dir)
        /\ left' \in [Dirs -> SUBSET DOMAIN Parent]
        /\ \A d \in Dirs : d # dir => left'[d] = left[d]
    BY <1>0, <2>1 DEF Entries
  <2>5. \A e \in Entries(dir) : e # Root /\ e \in DOMAIN Parent /\ Parent[e] = dir
                                /\ e \in (Dirs \ {Root}) \cup Items
    BY DEF Entries
  <2>6. \A e \in Entries(dir) : IF e \in Dirs THEN e \notin made' ELSE dest'[e] = "none"
    <3> SUFFICES ASSUME NEW e \in Entries(dir)
                 PROVE  IF e \in Dirs THEN e \notin made' ELSE dest'[e] = "none"
      OBVIOUS
    <3>1. Parent[e] \notin made
      BY <2>2, <2>5
    <3>2. CASE e \in Dirs
      <4>1. e \notin made
        BY <1>0, <2>5, <3>1, <3>2 DEF WalkOK
      <4>2. e # dir
        BY <2>2, <2>5, <3>1
      <4> QED
        BY <2>1, <3>2, <4>1, <4>2
    <3>3. CASE e \notin Dirs
      BY <1>0, <2>1, <2>5, <3>1, <3>3 DEF WalkOK
    <3> QED
      BY <3>2, <3>3
  <2>7. WalkOK'
    <3>1. (mpc \in {"readdir", "open", "push"} => Len(stack) > 0)'
      BY <2>3
    <3>2. (\A k \in 1..Len(stack) : stack[k] \in made)'
      <4>1. \A k \in 1..(Len(stack) + 1) : k \in 1..Len(stack) \/ k = Len(stack) + 1
        BY <2>3
      <4> QED
        BY <1>0, <2>1, <2>3, <4>1 DEF WalkOK
    <3>3. (\A d \in Dirs : left[d] \subseteq Entries(d) /\ (d \notin made => left[d] = {}))'
      BY <1>0, <2>1, <2>4 DEF WalkOK, Entries
    <3>4. (\A d \in Dirs : \A e \in left[d] : IF e \in Dirs THEN e \notin made ELSE dest[e] = "none")'
      BY <1>0, <2>1, <2>2, <2>4, <2>6 DEF WalkOK
    <3>5. (\A e \in made \ {Root} : Parent[e] \in made)'
      BY <1>0, <2>1, <2>2 DEF WalkOK
    <3>6. (\A f \in Items : Parent[f] \notin made => dest[f] = "none")'
      BY <1>0, <2>1 DEF WalkOK
    <3> QED
      BY <2>1, <3>1, <3>2, <3>3, <3>4, <3>5, <3>6 DEF WalkOK
  <2>8. WalkComplete'
    <3>1. Root \in made'
      BY <1>0, <2>1 DEF WalkComplete
    <3>2. (\A d \in made : left[d] # {} => \E k \in 1..Len(stack) : stack[k] = d)'
      <4> SUFFICES ASSUME NEW d \in made', left'[d] # {}
                   PROVE  \E k \in 1..(Len(stack) + 1) : stack'[k] = d
        BY <2>3
      <4>1. CASE d = dir
        BY <2>3, <4>1
      <4>2. CASE d # dir
        <5>1. PICK k \in 1..Len(stack) : stack[k] = d
          BY <1>0, <2>1, <2>4, <4>2 DEF WalkComplete
        <5> QED
          BY <2>3, <5>1
      <4> QED
        BY <4>1, <4>2
    <3>3. ASSUME NEW e \in DOMAIN Parent, Parent[e] \in made'
          PROVE  (\/ e \in left[Parent[e]]
                  \/ e \in made \/ (mpc = "opendir" /\ dir = e)
                  \/ e \in Items /\ (dest[e] # "none" \/ (mpc = "open" /\ entry = e)))'
      <4>1. CASE Parent[e] = dir
        BY <2>4, <4>1 DEF Entries
      <4>2. CASE Parent[e] # dir
        <5>1. Parent[e] \in made /\ left'[Parent[e]] = left[Parent[e]]
          BY <1>0, <2>1, <2>4, <3>3, <4>2
        <5> QED
          BY <1>0, <2>1, <5>1 DEF WalkComplete
      <4> QED
        BY <4>1, <4>2
    <3> QED
      BY <2>1, <3>1, <3>2, <3>3 DEF WalkComplete, Ended
  <2> QED
    BY <1>0, <2>1, <2>3, <2>4, <2>7, <2>8, WalkOnlyKeeps
<1>3. CASE ReadDir
  <2> DEFINE d == stack[Len(stack)]
  <2>1. /\ mpc = "readdir" /\ UNCHANGED <<bufferVars, main, started, joined, made, dest, wpc, destroyed>>
    BY <1>3 DEF ReadDir, mainVars
  <2>2. Len(stack) \in Nat /\ Len(stack) > 0 /\ d \in made /\ d \in Dirs /\ Root \in made
    BY <1>0, <2>1 DEF WalkOK, WalkComplete
  <2>3. CASE \E e \in Readable(left[d]) :
               /\ left' = [left EXCEPT ![d] = @ \ {e}]
               /\ \/ e \in Dirs /\ dir' = e /\ mpc' = "opendir" /\ UNCHANGED entry
                  \/ e \in Items /\ entry' = e /\ mpc' = "open" /\ UNCHANGED dir
               /\ UNCHANGED stack
    <3>1. PICK e \in left[d] :
               /\ left' = [left EXCEPT ![d] = @ \ {e}]
               /\ \/ e \in Dirs /\ dir' = e /\ mpc' = "opendir" /\ UNCHANGED entry
                  \/ e \in Items /\ entry' = e /\ mpc' = "open" /\ UNCHANGED dir
               /\ UNCHANGED stack
      BY <2>3 DEF Readable
    <3> HIDE DEF d
    <3>2. /\ left' \in [Dirs -> SUBSET DOMAIN Parent] /\ left'[d] = left[d] \ {e}
          /\ \A x \in Dirs : x # d => left'[x] = left[x]
      BY <1>0, <2>2, <3>1
    <3>3. e \in DOMAIN Parent /\ Parent[e] = d /\ e # Root /\ (e \in Dirs => e \notin Items)
      BY <1>0, <2>2 DEF WalkOK, Entries
    <3>4. \A x \in Dirs : e \notin left'[x]
      BY <1>0, <2>2, <3>2, <3>3 DEF WalkOK, Entries
    <3>5. IF e \in Dirs THEN e \notin made ELSE dest[e] = "none"
      BY <1>0, <2>2 DEF WalkOK
    <3>6. WalkOK'
      <4>1. (\A x \in Dirs : left[x] \subseteq Entries(x) /\ (x \notin made => left[x] = {}))'
        BY <1>0, <2>1, <2>2, <3>2 DEF WalkOK, Entries
      <4>2. (\A x \in Dirs : \A y \in left[x] : IF y \in Dirs THEN y \notin made ELSE dest[y] = "none")'
        BY <1>0, <2>1, <2>2, <3>2 DEF WalkOK
      <4>3. (mpc = "opendir" => /\ dir \notin made
                                /\ dir # Root => Parent[dir] \in made
                                /\ \A x \in Dirs : dir \notin left[x])'
        BY <2>1, <2>2, <3>1, <3>3, <3>4, <3>5
      <4>4. (mpc = "open" => /\ entry \in Items /\ dest[entry] = "none"
                             /\ Parent[entry] \in made
                             /\ \A x \in Dirs : entry \notin left[x])'
        BY <2>1, <2>2, <3>1, <3>3, <3>4, <3>5
      <4>5. stack' = stack /\ mpc' \in {"opendir", "open"} /\ made' = made /\ dest' = dest
        BY <2>1, <3>1
      <4> QED
        BY <1>0, <2>2, <4>1, <4>2, <4>3, <4>4, <4>5 DEF WalkOK
    <3>7. WalkComplete'
      <4>1. (\A x \in made : left[x] # {} => \E k \in 1..Len(stack) : stack[k] = x)'
        BY <1>0, <2>1, <2>2, <3>1, <3>2 DEF WalkComplete
      <4>2. ASSUME NEW x \in DOMAIN Parent, Parent[x] \in made
            PROVE  (\/ x \in left[Parent[x]]
                    \/ x \in made \/ (mpc = "opendir" /\ dir = x)
                    \/ x \in Items /\ (dest[x] # "none" \/ (mpc = "open" /\ entry = x)))'
        <5>1. CASE x = e
          BY <3>1, <5>1
        <5>2. CASE x # e
          BY <1>0, <2>1, <3>2, <4>2, <5>2 DEF WalkComplete
        <5> QED
          BY <5>1, <5>2
      <4> QED
        BY <2>1, <2>2, <3>1, <4>1, <4>2 DEF WalkComplete, Ended
    <3>8. /\ mpc' \in {"opendir", "open"} /\ dir' \in Dirs /\ entry' \in Items \cup {NoItem}
          /\ stack' \in Seq(Dirs) /\ made' \subseteq Dirs /\ destroyed' \in BOOLEAN
      BY <1>0, <2>1, <3>1
    <3> QED
      BY <2>1, <3>2, <3>6, <3>7, <3>8, WalkOnlyKeeps
  <2>4. CASE /\ left[d] = {}
             /\ stack' = SubSeq(stack, 1, Len(stack) - 1)
             /\ mpc' = IF Len(stack) = 1 THEN "set_done" ELSE "readdir"
             /\ UNCHANGED <<left, dir, entry>>
    <3>1. /\ stack' \in Seq(Dirs) /\ Len(stack') = Len(stack) - 1
          /\ \A k \in 1..(Len(stack) - 1) : stack'[k] = stack[k]
      <4> HIDE DEF d
      <4>1. PICK n \in Nat : n = Len(stack) /\ n > 0
        BY <2>2
      <4>2. /\ 1 \in Int /\ n - 1 \in Int
            /\ \A k \in 1..(n - 1) : stack[k] \in Dirs
        BY <1>0, <4>1
      <4>3. /\ stack' = SubSeq(stack, 1, n - 1)
            /\ SubSeq(stack, 1, n - 1) \in Seq(Dirs)
            /\ Len(SubSeq(stack, 1, n - 1)) = IF 1 <= n - 1 THEN (n - 1) - 1 + 1 ELSE 0
            /\ \A k \in 1..((n - 1) - 1 + 1) : SubSeq(stack, 1, n - 1)[k] = stack[1 + k - 1]
        BY <1>0, <2>4, <4>1, <4>2, SubSeqProperties
      <4>4. (n - 1) - 1 + 1 = n - 1 /\ \A k \in 1..(n - 1) : 1 + k - 1 = k
        BY <4>1
      <4>5. (IF 1 <= n - 1 THEN n - 1 ELSE 0) = n - 1
        BY <4>1
      <4> QED
        BY <4>1, <4>3, <4>4, <4>5
    <3>2. mpc' \in {"readdir", "set_done"} /\ (mpc' = "readdir" => Len(stack') > 0)
          /\ (mpc' = "set_done" => stack' = << >>)
      BY <2>2, <2>4, <3>1, EmptySeq
    <3>3. WalkOK'
      <4>1. (\A k \in 1..Len(stack) : stack[k] \in made)'
        BY <1>0, <2>1, <2>2, <3>1 DEF WalkOK
      <4>2. UNCHANGED <<left, made, dest, dir, entry>>
        BY <2>1, <2>4
      <4> QED
        BY <1>0, <2>1, <3>2, <4>1, <4>2 DEF WalkOK, Entries
    <3>4. WalkComplete'
      <4>1. ASSUME NEW x \in made, left[x] # {}
            PROVE  \E k \in 1..Len(stack') : stack'[k] = x
        <5>1. PICK k \in 1..Len(stack) : stack[k] = x
          BY <1>0, <2>1, <4>1 DEF WalkComplete
        <5>2. k # Len(stack)
          BY <2>4, <4>1, <5>1
        <5>3. k \in 1..(Len(stack) - 1)
          BY <2>2, <5>2
        <5> QED
          BY <2>2, <3>1, <5>1, <5>3
      <4> QED
        BY <1>0, <2>1, <2>2, <2>4, <3>2, <4>1 DEF WalkComplete, Ended
    <3> HIDE DEF d
    <3> QED
      BY <1>0, <2>1, <2>4, <3>1, <3>2, <3>3, <3>4, WalkOnlyKeeps
  <2> QED
    BY <1>3, <2>3, <2>4 DEF ReadDir
<1> QED
  BY <1>1, <1>2, <1>3 DEF OpenDir

(* A file is opened and goes to the manager's hands, or the open fails.    *)
LEMMA OpenFileKeeps ==
  ASSUME CopyInv, proc' = proc, OpenFile
  PROVE  CopyInv'
<1> USE BufferAssumption, ThreadsAssumption
<1>0. WalkOK /\ WalkComplete /\ CopyTypeOK /\ mpc = "open" /\ CopyInv
  BY DEF CopyInv, OpenFile
<1>1. CASE Fail
  <2>1. WalkOK'
    BY <1>0, <1>1 DEF Fail, WalkOK, Entries
  <2>2. WalkComplete'
    BY <1>1 DEF Fail, WalkComplete
  <2>3. /\ UNCHANGED <<bufferVars, dest, main, started, joined, wpc, dir, entry, stack, left, made>>
        /\ destroyed' \in BOOLEAN /\ mpc' = "exit"
    BY <1>1 DEF Fail, mainVars
  <2>4. /\ dir' \in Dirs /\ entry' \in Items \cup {NoItem} /\ stack' \in Seq(Dirs)
        /\ left' \in [Dirs -> SUBSET DOMAIN Parent] /\ made' \subseteq Dirs
    BY <1>0, <2>3 DEF CopyTypeOK
  <2> QED
    BY <1>0, <2>1, <2>2, <2>3, <2>4, WalkOnlyKeeps
<1>2. CASE ~Fail
  <2>1. /\ dest' = [dest EXCEPT ![entry] = "empty"] /\ item' = [item EXCEPT ![Manager] = entry]
        /\ at' = [at EXCEPT ![Manager] = "push_lock"] /\ mpc' = "push"
        /\ UNCHANGED <<items, in, out, count, done, mutex, ret, main, started, joined,
                       dir, entry, stack, left, made, wpc, destroyed>>
    BY <1>2 DEF OpenFile, Goto, dataVars, mainVars
  <2>2. /\ entry \in Items /\ dest[entry] = "none" /\ Parent[entry] \in made
        /\ \A d \in Dirs : entry \notin left[d]
    BY <1>0 DEF WalkOK
  <2>3. /\ at[Manager] = "out" /\ item[Manager] = NoItem /\ ~done
        /\ \A w \in Workers : wpc[w] \notin Ended /\ ~(Popped(w) /\ ret[w] = 0)
        /\ main \notin {"start", "join", "end"}
    BY <1>0, ManagerWalks
  <2>4. CopyTypeOK'
    BY <1>0, <2>1, <2>2 DEF CopyTypeOK, BufferTypeOK, BufferPoints, PushPoints, ManagerPoints
  <2>5. MutexOwned'
    BY <1>0, <2>1, <2>3 DEF CopyInv, MutexOwned, OwnPoints, CopyTypeOK, BufferTypeOK
  <2>6. RingOK' /\ Occupied' = Occupied /\ (\A i \in Occupied : items[i] \in Items)'
    BY <2>1 DEF CopyInv, RingOK, Occupied
  <2>7. EachFileInOnePlace'
    <3>1. entry \notin InFlight /\ InFlight' = InFlight \cup {entry}
      BY <1>0, <2>1, <2>2 DEF InFlight, CopyTypeOK
    <3>2. InFlight = InHand \cup Queued /\ InHand \cap Queued = {} /\ Queued' = Queued
      BY <2>1, <2>6 DEF CopyInv, EachFileInOnePlace, Queued
    <3>3. \A u \in Threads : item[u] # entry
      BY <2>2, <3>1, <3>2 DEF InHand
    <3>4. InHand' = InHand \cup {entry}
      BY <1>0, <2>1, <2>2, <2>3 DEF InHand, CopyTypeOK, BufferTypeOK
    <3>5. (\A t, u \in Threads : item[t] = item[u] /\ item[t] # NoItem => t = u)'
      BY <1>0, <2>1, <3>3 DEF CopyInv, EachFileInOnePlace, CopyTypeOK, BufferTypeOK
    <3> QED
      BY <2>1, <2>6, <3>1, <3>2, <3>4, <3>5 DEF CopyInv, EachFileInOnePlace
  <2>8. \A w \in Workers : w \in Threads /\ w # Manager /\ at'[w] = at[w] /\ item'[w] = item[w]
    BY <1>0, <2>1 DEF CopyTypeOK, BufferTypeOK
  <2>9. at'[Manager] = "push_lock" /\ item'[Manager] = entry /\ entry # NoItem
    BY <1>0, <2>1, <2>2 DEF CopyTypeOK, BufferTypeOK
  <2>10. RoutineOf'
    BY <2>1, <2>8, <2>9 DEF CopyInv, RoutineOf, PushPoints, DonePoints
  <2>11. HandsOK'
    BY <2>1, <2>8, <2>9 DEF CopyInv, HandsOK, Popped
  <2>12. DoneOK'
    BY <2>1, <2>3, <2>8, <2>9 DEF DoneOK, Popped, Ended
  <2>13. MainOK'
    BY <2>1, <2>3 DEF CopyInv, MainOK
  <2>14. \A f \in Items : f # entry => dest'[f] = dest[f]
    BY <1>0, <2>1 DEF CopyTypeOK
  <2>15. WalkOK'
    <3>1. (\A d \in Dirs : \A e \in left[d] : IF e \in Dirs THEN e \notin made ELSE dest[e] = "none")'
      BY <1>0, <2>1, <2>2, <2>14 DEF WalkOK, Entries
    <3>2. (\A f \in Items : Parent[f] \notin made => dest[f] = "none")'
      BY <1>0, <2>1, <2>2, <2>14 DEF WalkOK
    <3>3. UNCHANGED <<left, made, stack>> /\ mpc' = "push"
      BY <2>1
    <3> QED
      BY <1>0, <3>1, <3>2, <3>3 DEF WalkOK, Entries
  <2>16. WalkComplete'
    <3>1. dest'[entry] = "empty"
      BY <1>0, <2>1, <2>2 DEF CopyTypeOK
    <3> QED
      BY <1>0, <2>1, <2>14, <3>1 DEF WalkComplete, Ended
  <2> QED
    BY <2>4, <2>5, <2>6, <2>7, <2>10, <2>11, <2>12, <2>13, <2>15, <2>16 DEF CopyInv
<1> QED
  BY <1>1, <1>2

(* A step that only moves the manager, or calls buffer_set_done.           *)
LEMMA ManagerMovesKeeps ==
  ASSUME CopyInv, proc' = proc,
         PushReturns \/ CallSetDone \/ \E point \in Ended : ManagerEnds(point)
  PROVE  CopyInv'
<1> USE BufferAssumption, ThreadsAssumption
<1>0. WalkOK /\ WalkComplete /\ CopyTypeOK
  BY DEF CopyInv
<1>1. UNCHANGED <<items, in, out, count, done, mutex, item, ret, main, started, joined,
                  dir, entry, stack, left, made, dest, wpc, destroyed>>
  BY DEF PushReturns, CallSetDone, ManagerEnds, bufferVars, dataVars, mainVars
<1>2. \/ mpc = "push" /\ mpc' = "readdir" /\ at[Manager] = "out" /\ at' = at
      \/ mpc = "set_done" /\ mpc' = "set_done_called" /\ at[Manager] = "out"
                          /\ at' = [at EXCEPT ![Manager] = "done_lock"]
      \/ mpc = "set_done_called" /\ mpc' \in Ended /\ at[Manager] = "out" /\ at' = at
  <2>1. mpc = "set_done" => at[Manager] = "out"
    BY ManagerWalks
  <2> QED
    BY <2>1 DEF PushReturns, CallSetDone, ManagerEnds, bufferVars, Goto
<1>3. \A w \in Workers : at'[w] = at[w]
  BY <1>0, <1>2 DEF CopyTypeOK, BufferTypeOK
<1>4. at'[Manager] = IF mpc = "set_done" THEN "done_lock" ELSE "out"
  BY <1>0, <1>2 DEF CopyTypeOK, BufferTypeOK
<1>5. CopyTypeOK'
  BY <1>0, <1>1, <1>2 DEF CopyTypeOK, BufferTypeOK, BufferPoints, DonePoints, ManagerPoints, Ended
<1>6. MutexOwned'
  BY <1>1, <1>2, <1>3, <1>4 DEF CopyInv, MutexOwned, OwnPoints
<1>7. RingOK' /\ (\A i \in Occupied : items[i] \in Items)' /\ EachFileInOnePlace'
  BY <1>1 DEF CopyInv, RingOK, Occupied, EachFileInOnePlace, InHand, Queued, InFlight
<1>8. RoutineOf'
  BY <1>1, <1>2, <1>3, <1>4 DEF CopyInv, RoutineOf, PushPoints, DonePoints
<1>9. HandsOK'
  BY <1>1, <1>2, <1>3, <1>4 DEF CopyInv, HandsOK, Popped
<1>10. DoneOK'
  BY <1>1, <1>2, <1>3, <1>4 DEF CopyInv, DoneOK, Popped, Ended
<1>11. MainOK'
  BY <1>1, <1>2 DEF CopyInv, MainOK, Ended
<1>12. WalkOK'
  BY <1>0, <1>1, <1>2 DEF WalkOK, Entries, Ended
<1>13. WalkComplete'
  BY <1>0, <1>1, <1>2 DEF WalkComplete, Ended
<1> QED
  BY <1>5, <1>6, <1>7, <1>8, <1>9, <1>10, <1>11, <1>12, <1>13 DEF CopyInv

(* No step of the manager breaks the invariant.                            *)
LEMMA ManagerKeeps ==
  ASSUME CopyInv, proc' = proc, Walk \/ \E point \in Ended : ManagerEnds(point)
  PROVE  CopyInv'
BY DirectoryKeeps, OpenFileKeeps, ManagerMovesKeeps DEF Walk

-----------------------------------------------------------------------------
(* A worker calls buffer_pop, gets its answer, or copies and closes.       *)
LEMMA WorkerKeeps ==
  ASSUME CopyInv, proc' = proc, NEW w \in Workers,
         CallPop(w) \/ CopyFile(w) \/ \E point \in Ended : PopReturns(w, point)
  PROVE  CopyInv'
<1> USE BufferAssumption, ThreadsAssumption
<1>0. CopyTypeOK /\ WalkOK /\ WalkComplete /\ RoutineOf /\ HandsOK /\ DoneOK /\ w \in Threads
  BY DEF CopyInv
<1>1. /\ UNCHANGED <<items, in, out, count, done, mutex, ret, main, started, joined,
                     mpc, dir, entry, stack, left, made, destroyed>>
      /\ w # Manager
  BY DEF CallPop, PopReturns, CopyFile, bufferVars, dataVars, mainVars, walkVars
<1>2. \A u \in Threads \ {w} : at'[u] = at[u] /\ item'[u] = item[u]
  BY <1>0 DEF CallPop, PopReturns, CopyFile, Goto, bufferVars, CopyTypeOK, BufferTypeOK
<1>3. \A u \in Workers \ {w} : u \in Threads /\ wpc'[u] = wpc[u]
  BY <1>0 DEF CallPop, PopReturns, CopyFile, CopyTypeOK
<1>4. wpc[w] \notin Ended \cup {"new"} /\ at[w] = "out"
  BY <1>0 DEF CallPop, PopReturns, CopyFile, Ended, RoutineOf, PopPoints
<1>5. MainOK'
  BY <1>0, <1>1, <1>3, <1>4 DEF CopyInv, MainOK, Ended
<1>6. RingOK' /\ Occupied' = Occupied
  BY <1>1 DEF CopyInv, RingOK, Occupied
<1>7. (\A i \in Occupied : items[i] \in Items)' /\ Queued' = Queued
  BY <1>1, <1>6 DEF CopyInv, Queued
<1>8. CASE CallPop(w)
  <2>1. /\ UNCHANGED <<item, dest>> /\ wpc[w] = "pop"
        /\ at' = [at EXCEPT ![w] = "pop_lock"] /\ wpc' = [wpc EXCEPT ![w] = "pop_called"]
    BY <1>8 DEF CallPop, Goto
  <2>2. at'[w] = "pop_lock" /\ wpc'[w] = "pop_called"
    BY <1>0, <2>1 DEF CopyTypeOK, BufferTypeOK
  <2>3. CopyTypeOK'
    BY <1>0, <1>1, <2>1 DEF CopyTypeOK, BufferTypeOK, BufferPoints, PopPoints, WorkerPoints
  <2>4. MutexOwned'
    BY <1>1, <1>2, <1>4, <2>2 DEF CopyInv, MutexOwned, OwnPoints
  <2>5. EachFileInOnePlace'
    BY <1>1, <1>6, <2>1 DEF CopyInv, EachFileInOnePlace, InHand, Queued, InFlight
  <2>6. RoutineOf'
    BY <1>0, <1>1, <1>2, <1>3, <2>2 DEF RoutineOf, PopPoints
  <2>7. HandsOK'
    BY <1>0, <1>1, <1>2, <1>3, <2>1, <2>2 DEF HandsOK, Popped
  <2>8. DoneOK'
    BY <1>0, <1>1, <1>2, <1>3, <2>2 DEF DoneOK, Popped, Ended
  <2>9. WalkOK' /\ WalkComplete'
    BY <1>0, <1>1, <2>1 DEF WalkOK, WalkComplete, Entries
  <2> QED
    BY <1>5, <1>6, <1>7, <2>3, <2>4, <2>5, <2>6, <2>7, <2>8, <2>9 DEF CopyInv
<1>9. CASE \E point \in Ended : PopReturns(w, point)
  <2>1. PICK point \in Ended : PopReturns(w, point)
    BY <1>9
  <2>2. /\ UNCHANGED <<item, at, dest>> /\ wpc[w] = "pop_called"
        /\ wpc' = [wpc EXCEPT ![w] = IF ret[w] = 1 THEN "copy" ELSE IF done THEN point ELSE "pop"]
    BY <2>1 DEF PopReturns, bufferVars, buffer_is_done
  <2>3. Popped(w) /\ ret[w] \in {0, 1}
    BY <1>0, <1>4, <2>2 DEF Popped, CopyTypeOK, BufferTypeOK
  <2>4. ret[w] = 0 => done /\ count = 0
    BY <1>0, <2>3 DEF DoneOK
  <2>5. wpc'[w] = IF ret[w] = 1 THEN "copy" ELSE point
    BY <1>0, <2>2, <2>3, <2>4 DEF CopyTypeOK
  <2>6. CopyTypeOK'
    BY <1>0, <1>1, <2>1, <2>2 DEF CopyTypeOK, BufferTypeOK, WorkerPoints, Ended
  <2>7. MutexOwned'
    BY <1>1, <2>2 DEF CopyInv, MutexOwned
  <2>8. EachFileInOnePlace'
    BY <1>1, <1>6, <2>2 DEF CopyInv, EachFileInOnePlace, InHand, Queued, InFlight
  <2>9. RoutineOf'
    BY <1>0, <1>1, <1>2, <1>3, <1>4, <2>2 DEF RoutineOf, PopPoints
  <2>10. HandsOK'
    BY <1>0, <1>1, <1>2, <1>3, <2>1, <2>2, <2>3, <2>5 DEF HandsOK, Popped, Ended
  <2>11. DoneOK'
    BY <1>0, <1>1, <1>2, <1>3, <2>1, <2>3, <2>4, <2>5 DEF DoneOK, Popped, Ended
  <2>12. WalkOK' /\ WalkComplete'
    BY <1>0, <1>1, <2>2 DEF WalkOK, WalkComplete, Entries
  <2> QED
    BY <1>5, <1>6, <1>7, <2>6, <2>7, <2>8, <2>9, <2>10, <2>11, <2>12 DEF CopyInv
<1>10. CASE CopyFile(w)
  <2>1. /\ wpc[w] = "copy" /\ dest' = [dest EXCEPT ![item[w]] = "copied"]
        /\ item' = [item EXCEPT ![w] = NoItem] /\ wpc' = [wpc EXCEPT ![w] = "pop"] /\ at' = at
    BY <1>10 DEF CopyFile
  <2>2. item[w] \in Items /\ item[w] \in InHand /\ dest[item[w]] = "empty"
    <3>1. item[w] \in Items
      BY <1>0, <2>1 DEF HandsOK, CopyTypeOK, BufferTypeOK
    <3> QED
      BY <1>0, <3>1 DEF CopyInv, EachFileInOnePlace, InHand, InFlight
  <2>3. item'[w] = NoItem /\ wpc'[w] = "pop" /\ dest'[item[w]] = "copied"
    BY <1>0, <2>1, <2>2 DEF CopyTypeOK, BufferTypeOK
  <2>4. \A f \in Items : f # item[w] => dest'[f] = dest[f]
    BY <1>0, <2>1 DEF CopyTypeOK
  <2>5. CopyTypeOK'
    BY <1>0, <1>1, <2>1 DEF CopyTypeOK, BufferTypeOK, WorkerPoints
  <2>6. MutexOwned'
    BY <1>1, <2>1 DEF CopyInv, MutexOwned
  <2>7. EachFileInOnePlace'
    <3>1. InHand' = InHand \ {item[w]}
      BY <1>0, <1>2, <2>2, <2>3 DEF CopyInv, EachFileInOnePlace, InHand
    <3>2. InFlight' = InFlight \ {item[w]}
      BY <2>2, <2>3, <2>4 DEF InFlight
    <3>3. (\A t, u \in Threads : item[t] = item[u] /\ item[t] # NoItem => t = u)'
      BY <1>2, <2>3 DEF CopyInv, EachFileInOnePlace
    <3>4. (\A i, j \in Occupied : items[i] = items[j] => i = j)'
      BY <1>1, <1>6 DEF CopyInv, EachFileInOnePlace
    <3> QED
      BY <1>7, <2>2, <3>1, <3>2, <3>3, <3>4 DEF CopyInv, EachFileInOnePlace
  <2>8. RoutineOf'
    BY <1>0, <1>1, <1>3, <1>4, <2>1 DEF RoutineOf, PopPoints
  <2>9. HandsOK'
    BY <1>0, <1>1, <1>2, <1>3, <2>1, <2>3 DEF HandsOK, Popped
  <2>10. DoneOK'
    BY <1>0, <1>1, <1>3, <2>1, <2>3 DEF DoneOK, Popped, Ended
  <2>11. \A f \in Items : dest'[f] = "none" <=> dest[f] = "none"
    BY <2>2, <2>3, <2>4
  <2>12. WalkOK'
    <3>1. (\A d \in Dirs : \A e \in left[d] : IF e \in Dirs THEN e \notin made ELSE dest[e] = "none")'
      BY <1>0, <1>1, <2>11 DEF WalkOK, Entries
    <3>2. (\A f \in Items : Parent[f] \notin made => dest[f] = "none")'
      BY <1>0, <1>1, <2>11 DEF WalkOK
    <3> QED
      BY <1>0, <1>1, <2>11, <3>1, <3>2 DEF WalkOK, Entries
  <2>13. WalkComplete'
    BY <1>0, <1>1, <2>11 DEF WalkComplete
  <2> QED
    BY <1>5, <1>6, <1>7, <2>5, <2>6, <2>7, <2>8, <2>9, <2>10, <2>12, <2>13 DEF CopyInv
<1> QED
  BY <1>8, <1>9, <1>10

(* A signal, the exit and the crash that may come before it.               *)
LEMMA StopKeeps ==
  ASSUME CopyInv, (SignalHandler /\ proc' = proc) \/ Exit \/ \E t \in Threads : CrashInBuffer(t)
  PROVE  CopyInv'
<1>1. /\ UNCHANGED <<bufferVars, dest, main, started, joined, mpc, dir, entry, stack, left, made, wpc>>
      /\ destroyed' \in BOOLEAN /\ (destroyed => destroyed') /\ proc' \in {"running", "exited"}
  BY DEF CopyInv, CopyTypeOK, SignalHandler, Exit, CrashInBuffer, mainVars, walkVars
<1>2. UNCHANGED <<at, item, ret, done, count>>
  BY <1>1 DEF bufferVars, dataVars
<1>3. CopyTypeOK'
  BY <1>1, RestKeeps DEF CopyInv, CopyTypeOK
<1>4. RoutineOf' /\ HandsOK' /\ DoneOK'
  BY <1>1, <1>2 DEF CopyInv, RoutineOf, HandsOK, DoneOK, Popped
<1>5. WalkOK' /\ WalkComplete' /\ MainOK'
  BY <1>1 DEF CopyInv, WalkOK, WalkComplete, Entries, MainOK
<1> QED
  BY <1>1, <1>3, <1>4, <1>5, RestKeeps DEF CopyInv

(* Nor does a step in which no variable changes.                           *)
LEMMA StutterKeeps == CopyInv /\ UNCHANGED copyVars => CopyInv'
<1> SUFFICES ASSUME CopyInv, UNCHANGED copyVars PROVE CopyInv'
  OBVIOUS
<1>1. /\ UNCHANGED <<bufferVars, dest, main, started, joined, mpc, dir, entry, stack, left, made,
                     wpc, destroyed, proc>>
      /\ UNCHANGED <<at, item, ret, done, count>>
  BY DEF copyVars, mainVars, walkVars, bufferVars, dataVars
<1> QED
  BY <1>1, RestKeeps DEF CopyInv, CopyTypeOK, RoutineOf, HandsOK, DoneOK, Popped,
                         WalkOK, WalkComplete, Entries, MainOK

-----------------------------------------------------------------------------
(* When the walk has ended, the whole tree is made and every file opened.  *)
LEMMA WalkEnds ==
  ASSUME CopyInv, mpc \in {"set_done", "set_done_called"} \cup Ended
  PROVE  /\ made = Dirs /\ stack = << >>
         /\ \A f \in Items : dest[f] # "none"
<1> USE ThreadsAssumption
<1>1. CopyTypeOK /\ WalkOK /\ WalkComplete
  BY DEF CopyInv
<1>2. stack = << >>
  BY <1>1 DEF WalkComplete, Ended
<1>3. \A d \in made : left[d] = {}
  BY <1>1, <1>2 DEF WalkComplete, Ended
<1>4. /\ Root \in made
      /\ \A e \in DOMAIN Parent : Parent[e] \in made => e \in made \/ (e \in Items /\ dest[e] # "none")
  BY <1>1, <1>3 DEF WalkComplete, Ended
<1>5. made = Dirs
  <2>1. \A d \in Dirs \ {Root} : Parent[d] \in made => d \in made
    BY <1>4
  <2>2. made \in SUBSET Dirs
    BY <1>1 DEF CopyTypeOK
  <2> QED
    BY <1>4, <2>1, <2>2, TreeAssumption
<1>6. \A f \in Items : dest[f] # "none"
  BY <1>4, <1>5
<1> QED
  BY <1>2, <1>5, <1>6

(* When the workers have come to their end too, every file is copied.      *)
LEMMA AllCopied ==
  ASSUME CopyInv, mpc \in Ended, \A w \in Workers : wpc[w] \in Ended, WorkerCount > 0
  PROVE  Copied = Items
<1> USE ThreadsAssumption
<1>1. CopyTypeOK /\ RoutineOf /\ HandsOK /\ DoneOK /\ EachFileInOnePlace /\ RingOK
  BY DEF CopyInv
<1>2. 1 \in Workers
  BY DEF Workers
<1>3. count = 0
  BY <1>1, <1>2 DEF DoneOK
<1>4. Queued = {}
  BY <1>1, <1>3, EmptyRing DEF Queued, CopyTypeOK
<1>5. \A w \in Workers : item[w] = NoItem
  BY <1>1 DEF HandsOK, Popped, Ended
<1>6. item[Manager] = NoItem
  BY <1>1 DEF HandsOK, RoutineOf, PushPoints, Ended
<1>7. InFlight = {}
  BY <1>1, <1>4, <1>5, <1>6, BufferAssumption DEF EachFileInOnePlace, InHand
<1>8. \A f \in Items : dest[f] # "none"
  BY WalkEnds
<1> QED
  BY <1>1, <1>7, <1>8 DEF InFlight, Copied, CopyTypeOK

(* The manager and the workers are WorkerCount + 1 threads.                *)
LEMMA ThreadsCounted == IsFiniteSet(Threads) /\ Cardinality(Threads) = WorkerCount + 1
<1> USE ThreadsAssumption
<1>1. IsFiniteSet(Workers) /\ Cardinality(Workers) = WorkerCount
  BY FS_Interval DEF Workers
<1> QED
  BY <1>1, FS_AddElement
=============================================================================
