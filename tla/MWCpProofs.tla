----------------------------- MODULE MWCpProofs -----------------------------
(***************************************************************************)
(* Proofs about the copier of HW4 (module MWCp), for every tree, every     *)
(* number of workers, slots and files, with and without errors, signals    *)
(* and wake-ups for no reason.                                             *)
(***************************************************************************)
EXTENDS MWCp, CopyThreadsProofs

(* No step breaks the invariant.                                           *)
LEMMA CopyNext == CopyInv /\ [MWCpNext]_copyVars => CopyInv'
<1> SUFFICES ASSUME CopyInv, [MWCpNext]_copyVars PROVE CopyInv'
  OBVIOUS
<1>1. CASE Running(MainStep)
  BY <1>1, MainKeeps DEF Running
<1>2. CASE Running(ManagerStep)
  BY <1>2, ManagerKeeps DEF Running, ManagerStep, Ended
<1>3. ASSUME NEW w \in Workers, Running(WorkerStep(w)) PROVE CopyInv'
  BY <1>3, WorkerKeeps DEF Running, WorkerStep, Ended
<1>4. ASSUME NEW t \in Threads, Running(BufferStep(t)) PROVE CopyInv'
  BY <1>4, BufferStepKeeps DEF Running
<1>5. CASE Running(SignalHandler) \/ Exit \/ \E t \in Threads : CrashInBuffer(t)
  BY <1>5, StopKeeps DEF Running
<1>6. CASE UNCHANGED copyVars
  BY <1>6, StutterKeeps
<1> QED
  BY <1>1, <1>2, <1>3, <1>4, <1>5, <1>6 DEF MWCpNext

(* CopyInv holds in every state: nobody but its owner is between lock and  *)
(* unlock, the ring holds the files from out up to in, and the walk, the   *)
(* hands of the threads and the done flag agree with it.                   *)
THEOREM CopyInvariant == MWCpSpec => []CopyInv
<1>1. CopyInit => CopyInv
  BY CopyStarts
<1> QED
  BY <1>1, CopyNext, PTL DEF MWCpSpec

(* No file is lost, queued twice or given to two workers.                  *)
THEOREM EveryFileInOnePlace == MWCpSpec => []EachFileInOnePlace
<1>1. CopyInv => EachFileInOnePlace
  BY DEF CopyInv
<1> QED
  BY <1>1, CopyInvariant, PTL

(* A worker leaves the loop of worker_function only when the manager has   *)
(* set the flag and the ring is empty.                                     *)
THEOREM LastToLeave == MWCpSpec => []WorkersLeaveLast
<1> DEFINE NoBarrier == mpc # "barrier"
<1>1. CopyInit => NoBarrier
  BY DEF CopyInit
<1>2. NoBarrier /\ [MWCpNext]_copyVars => NoBarrier'
  BY DEF MWCpNext, Running, MainStep, CreateManager, CreateWorker, JoinManager, JoinWorker, Cleanup,
         ManagerStep, Walk, OpenDir, Fail, ReadDir, OpenFile, PushReturns, CallSetDone, ManagerEnds,
         WorkerStep, CallPop, PopReturns, CopyFile, BufferStep, SignalHandler, Exit, CrashInBuffer,
         copyVars, walkVars
<1>3. CopyInv /\ NoBarrier => WorkersLeaveLast
  <2> SUFFICES ASSUME CopyInv, NoBarrier, NEW w \in Workers,
                      wpc[w] = "returned" \/ (wpc[w] = "pop_called" /\ at[w] = "out" /\ ret[w] = 0)
               PROVE  done /\ count = 0 /\ mpc \in {"set_done_called", "returned"}
    BY DEF WorkersLeaveLast
  <2>1. done /\ count = 0
    BY DEF CopyInv, DoneOK, Popped, Ended
  <2> QED
    BY <2>1 DEF CopyInv, DoneOK, Ended
<1> HIDE DEF NoBarrier
<1> QED
  BY <1>1, <1>2, <1>3, CopyInvariant, PTL DEF MWCpSpec

(* When main comes to its end the tree is copied: TreeAssumption makes the *)
(* directories the walk has made all of them, and the files in no place    *)
(* any more are the copied ones.                                           *)
THEOREM CopyComplete == MWCpSpec => []CompleteAtEnd
<1>1. CopyInv => CompleteAtEnd
  <2> SUFFICES ASSUME CopyInv, main = "end"
               PROVE  made = Dirs /\ stack = << >> /\ (WorkerCount > 0 => Copied = Items)
    BY DEF CompleteAtEnd
  <2>1. mpc \in Ended /\ joined = WorkerCount
    BY DEF CopyInv, MainOK, Ended
  <2>2. \A w \in Workers : wpc[w] \in Ended
    BY <2>1, ThreadsAssumption DEF CopyInv, MainOK, Ended, Workers
  <2> QED
    BY <2>1, <2>2, WalkEnds, AllCopied
<1> QED
  BY <1>1, CopyInvariant, PTL

(* main destroys the buffer when all threads are out of its routines.      *)
THEOREM DestroyedLast == MWCpSpec => []NoUseAfterDestroy
<1>1. CopyInv => NoUseAfterDestroy
  <2> SUFFICES ASSUME CopyInv, main = "end"
               PROVE  destroyed /\ \A t \in Threads : at[t] = "out"
    BY DEF NoUseAfterDestroy
  <2>1. mpc = "returned" /\ destroyed /\ joined = WorkerCount
    BY DEF CopyInv, MainOK
  <2>2. \A w \in Workers : wpc[w] = "returned"
    BY <2>1, ThreadsAssumption DEF CopyInv, MainOK, Workers
  <2> QED
    BY <2>1, <2>2, ThreadsAssumption DEF CopyInv, RoutineOf
<1> QED
  BY <1>1, CopyInvariant, PTL

(* At most so many files are open as there are slots and threads: each is  *)
(* in a slot or in the hands of a thread.                                  *)
THEOREM OpenFilesBounded == MWCpSpec => []DescriptorsBounded
<1>1. CopyInv => DescriptorsBounded
  <2> SUFFICES ASSUME CopyInv PROVE Cardinality(InFlight) <= Capacity + WorkerCount + 1
    BY DEF DescriptorsBounded
  <2> USE BufferAssumption, ThreadsAssumption
  <2>1. CopyTypeOK /\ EachFileInOnePlace /\ \A i \in Occupied : items[i] \in Items
    BY DEF CopyInv
  <2>2. IsFiniteSet(Threads) /\ Cardinality(Threads) = WorkerCount + 1
    BY ThreadsCounted
  <2>3. IsFiniteSet(InHand) /\ Cardinality(InHand) <= WorkerCount + 1
    <3> DEFINE Holders == {t \in Threads : item[t] \in Items}
               held == [t \in Holders |-> item[t]]
    <3>1. Holders \in SUBSET Threads
      OBVIOUS
    <3>2. held \in Surjection(Holders, InHand)
      BY DEF Surjection, InHand
    <3>3. IsFiniteSet(Holders) /\ Cardinality(Holders) <= WorkerCount + 1
      BY <2>2, <3>1, FS_Subset
    <3>4. IsFiniteSet(InHand) /\ Cardinality(InHand) <= Cardinality(Holders)
      <4> HIDE DEF Holders, held
      <4> QED
        BY <3>2, <3>3, FS_Surjection
    <3>5. Cardinality(InHand) \in Nat /\ Cardinality(Holders) \in Nat
      BY <3>3, <3>4, FS_CardinalityType
    <3> HIDE DEF Holders
    <3> QED
      BY <3>3, <3>4, <3>5
  <2>4. IsFiniteSet(Queued) /\ Cardinality(Queued) <= Capacity
    <3> DEFINE slot == [i \in Occupied |-> items[i]]
    <3>1. IsFiniteSet(Index) /\ Cardinality(Index) = Capacity
      BY FS_Interval DEF Index
    <3>2. Occupied \in SUBSET Index
      BY DEF Occupied
    <3>3. IsFiniteSet(Occupied) /\ Cardinality(Occupied) <= Capacity
      BY <3>1, <3>2, FS_Subset
    <3>4. slot \in Surjection(Occupied, Queued)
      BY DEF Surjection, Queued
    <3>5. IsFiniteSet(Queued) /\ Cardinality(Queued) <= Cardinality(Occupied)
      <4> HIDE DEF slot
      <4> QED
        BY <3>3, <3>4, FS_Surjection
    <3>6. Cardinality(Queued) \in Nat /\ Cardinality(Occupied) \in Nat
      BY <3>3, <3>5, FS_CardinalityType
    <3> QED
      BY <3>3, <3>5, <3>6
  <2>5. InFlight = InHand \cup Queued /\ InHand \cap Queued = {}
    BY <2>1 DEF EachFileInOnePlace
  <2>6. Cardinality(InHand) \in Nat /\ Cardinality(Queued) \in Nat
    BY <2>3, <2>4, FS_CardinalityType
  <2>7. Cardinality(InFlight) = Cardinality(InHand) + Cardinality(Queued)
    <3>1. Cardinality(InFlight) = Cardinality(InHand) + Cardinality(Queued) - Cardinality({})
      BY <2>3, <2>4, <2>5, FS_Union
    <3>2. Cardinality({}) = 0
      BY FS_EmptySet
    <3> QED
      BY <2>6, <3>1, <3>2
  <2> QED
    BY <2>3, <2>4, <2>6, <2>7
<1> QED
  BY <1>1, CopyInvariant, PTL

-----------------------------------------------------------------------------
(* The k-th file of the queue is in a slot that is taken.                  *)
LEMMA QueueSlots ==
  ASSUME BufferTypeOK, RingOK, Capacity > 0
  PROVE  /\ \A k \in 1..(count + 1) :
              (out + k - 1) % Capacity =
                IF out + k - 1 < Capacity THEN out + k - 1 ELSE out + k - 1 - Capacity
         /\ \A k \in 1..count : (out + k - 1) % Capacity \in Occupied
         /\ count < Capacity => (out + (count + 1) - 1) % Capacity = in
         /\ count > 0 => (out + 1 - 1) % Capacity = out
<1> USE BufferAssumption DEF BufferTypeOK
<1>1. /\ Capacity \in Nat \ {0} /\ out \in 0..(Capacity - 1) /\ count \in 0..Capacity
      /\ in = IF out + count < Capacity THEN out + count ELSE out + count - Capacity
  BY DEF RingOK, Index
<1>2. \A k \in 1..(count + 1) :
        (out + k - 1) % Capacity =
          IF out + k - 1 < Capacity THEN out + k - 1 ELSE out + k - 1 - Capacity
  BY <1>1
<1>3. \A k \in 1..count : (out + k - 1) % Capacity \in Occupied
  BY <1>1, <1>2 DEF Occupied, Index
<1>4. (out + (count + 1) - 1) % Capacity = in
  <2>1. count + 1 \in 1..(count + 1) /\ out + (count + 1) - 1 = out + count
    BY <1>1
  <2> QED
    BY <1>1, <1>2, <2>1
<1>5. (out + 1 - 1) % Capacity = out
  BY <1>1, <1>2
<1> QED
  BY <1>2, <1>3, <1>4, <1>5

(* A push is the Put of the file in the manager's hands.                   *)
LEMMA PushPuts ==
  ASSUME CopyInv, NEW t \in Threads, PushTest(t), count < Capacity, UNCHANGED dest
  PROVE  item[Manager] \in Items /\ Job!Put(item[Manager])
<1> USE BufferAssumption, ThreadsAssumption
<1>0. CopyTypeOK /\ BufferTypeOK /\ RingOK /\ HandsOK /\ RoutineOf /\ EachFileInOnePlace
  BY DEF CopyInv, CopyTypeOK
<1>1. at[t] = "push_test" /\ t = Manager
  BY <1>0 DEF PushTest, RoutineOf, PopPoints, Workers
<1>2. /\ items' = [items EXCEPT ![in] = item[Manager]] /\ in' = (in + 1) % Capacity
      /\ count' = count + 1 /\ item' = [item EXCEPT ![Manager] = NoItem]
      /\ UNCHANGED <<out, done, dest>>
  BY <1>0, <1>1 DEF PushTest, BufferTypeOK
<1>3. /\ in \in Index /\ in \notin Occupied /\ Capacity > 0
      /\ Occupied' = Occupied \cup {in} /\ Occupied \subseteq Index
  BY <1>0, <1>2, SlotPushed DEF BufferTypeOK, Occupied
<1>4. item[Manager] \in Items /\ dest[item[Manager]] = "empty"
  <2>1. item[Manager] \in Items
    BY <1>0, <1>1 DEF HandsOK, BufferTypeOK
  <2> QED
    BY <1>0, <2>1 DEF EachFileInOnePlace, InHand, InFlight
<1> DEFINE f == item[Manager]
<1>5. f \in NotQueued /\ NotQueued' = NotQueued \ {f}
  <2>1. item'[Manager] = NoItem
    BY <1>0, <1>2 DEF BufferTypeOK
  <2> QED
    BY <1>2, <1>4, <2>1 DEF NotQueued
<1>6. RingQueue' = Append(RingQueue, f) /\ Len(RingQueue) = count
  <2>0. count \in Nat /\ count + 1 \in Nat
    BY <1>0 DEF BufferTypeOK
  <2>1. /\ items'[in] = f
        /\ \A i \in Occupied : items'[i] = items[i]
    BY <1>0, <1>2, <1>3 DEF BufferTypeOK
  <2>2. /\ \A k \in 1..count : (out + k - 1) % Capacity \in Occupied
        /\ (out + (count + 1) - 1) % Capacity = in
    BY <1>0, <1>3, QueueSlots
  <2>3. RingQueue' = [k \in 1..(count + 1) |-> items'[(out + k - 1) % Capacity]]
    BY <1>2 DEF RingQueue
  <2>4. /\ \A k \in 1..count : RingQueue'[k] = RingQueue[k]
        /\ RingQueue'[count + 1] = f
    <3>1. \A k \in 1..count : RingQueue[k] = items[(out + k - 1) % Capacity] /\ k \in 1..(count + 1)
      BY <2>0 DEF RingQueue
    <3>2. count + 1 \in 1..(count + 1)
      BY <2>0
    <3> HIDE DEF f
    <3> QED
      BY <2>1, <2>2, <2>3, <3>1, <3>2
  <2> DEFINE S == Items \cup {NoItem}
  <2>5. RingQueue \in Seq(S) /\ Len(RingQueue) = count
    <3>1. RingQueue \in [1..count -> S]
      BY <1>0, <1>3, <2>2 DEF RingQueue, BufferTypeOK
    <3> QED
      BY <2>0, <3>1, SeqDef, LenProperties
  <2>6. RingQueue' \in Seq(S) /\ Len(RingQueue') = count + 1
    <3>1. \A k \in 1..(count + 1) : RingQueue'[k] \in S
      <4>1. \A k \in 1..(count + 1) : k \in 1..count \/ k = count + 1
        BY <2>0
      <4>2. \A k \in 1..count : RingQueue[k] \in S
        BY <2>5, ElementOfSeq
      <4> QED
        BY <1>4, <2>4, <4>1, <4>2
    <3>2. RingQueue' \in [1..(count + 1) -> S]
      BY <2>3, <3>1
    <3>3. DOMAIN RingQueue' = 1..(count + 1)
      BY <2>3
    <3>4. RingQueue' \in Seq(S)
      BY <2>0, <3>2, SeqDef
    <3> QED
      BY <2>0, <3>3, <3>4, LenProperties
  <2> HIDE DEF f, S
  <2>7. /\ Append(RingQueue, f) \in Seq(S) /\ Len(Append(RingQueue, f)) = count + 1
        /\ \A k \in 1..count : Append(RingQueue, f)[k] = RingQueue[k]
        /\ Append(RingQueue, f)[count + 1] = f
    BY <1>4, <2>5, AppendProperties DEF f, S
  <2>8. \A k \in 1..(count + 1) : RingQueue'[k] = Append(RingQueue, f)[k]
    <3>1. \A k \in 1..(count + 1) : k \in 1..count \/ k = count + 1
      BY <2>0
    <3> QED
      BY <2>4, <2>7, <3>1
  <2> QED
    BY <2>5, <2>6, <2>7, <2>8, SeqEqual
<1>7. [w \in Workers |-> item'[w]] = [w \in Workers |-> item[w]]
  BY <1>0, <1>2 DEF BufferTypeOK
<1>8. Copied' = Copied
  BY <1>2 DEF Copied
<1> QED
  BY <1>2, <1>4, <1>5, <1>6, <1>7, <1>8 DEF Job!Put

(* A pop is the Take of the worker.                                        *)
LEMMA PopTakes ==
  ASSUME CopyInv, NEW t \in Threads, PopTest(t), count > 0, UNCHANGED dest
  PROVE  t \in Workers /\ Job!Take(t)
<1> USE BufferAssumption, ThreadsAssumption
<1>0. CopyTypeOK /\ BufferTypeOK /\ RingOK /\ HandsOK /\ RoutineOf
  BY DEF CopyInv, CopyTypeOK
<1>1. at[t] = "pop_test" /\ t \in Workers /\ t # Manager
  BY <1>0 DEF PopTest, RoutineOf, PushPoints, DonePoints
<1>2. /\ item' = [item EXCEPT ![t] = items[out]] /\ out' = (out + 1) % Capacity
      /\ count' = count - 1 /\ UNCHANGED <<items, in, done, dest>>
  BY <1>0 DEF PopTest, BufferTypeOK
<1>3. /\ out \in Occupied /\ Occupied \subseteq Index /\ Capacity \in Nat \ {0}
      /\ count \in 1..Capacity /\ out \in 0..(Capacity - 1)
      /\ items[out] \in Items
  <2>1. out \in Occupied /\ out \in Index
    BY <1>0, <1>2, SlotPopped
  <2>2. count \in Nat /\ count <= Capacity
    BY <1>0 DEF RingOK, BufferTypeOK
  <2> QED
    BY <2>1, <2>2 DEF Index, Occupied, CopyInv
<1>4. \A k \in 1..(count - 1) : (out' + k - 1) % Capacity = (out + (k + 1) - 1) % Capacity
  <2> SUFFICES ASSUME NEW k \in 1..(count - 1)
               PROVE  (out' + k - 1) % Capacity = (out + (k + 1) - 1) % Capacity
    OBVIOUS
  <2>1. (out + (k + 1) - 1) % Capacity = IF out + k < Capacity THEN out + k ELSE out + k - Capacity
    <3>1. k + 1 \in 1..(count + 1) /\ out + (k + 1) - 1 = out + k
      BY <1>3
    <3> QED
      BY <1>0, <1>3, <3>1, QueueSlots
  <2>2. out' = IF out + 1 = Capacity THEN 0 ELSE out + 1
    BY <1>2, <1>3
  <2>3. CASE out + 1 = Capacity
    <3>1. out' + k - 1 = k - 1 /\ k - 1 \in 0..(Capacity - 1) /\ out + k - Capacity = k - 1
          /\ ~(out + k < Capacity)
      BY <1>3, <2>2, <2>3
    <3>2. (k - 1) % Capacity = k - 1
      BY <1>3, <3>1
    <3> QED
      BY <2>1, <3>1, <3>2
  <2>4. CASE out + 1 # Capacity
    BY <1>3, <2>2, <2>4
  <2> QED
    BY <2>3, <2>4
<1> DEFINE S == Items \cup {NoItem}
<1>5. RingQueue \in Seq(S) /\ Len(RingQueue) = count /\ RingQueue # << >>
  <2>1. \A k \in 1..count : (out + k - 1) % Capacity \in Index
    <3>1. Capacity > 0
      BY <1>3
    <3>2. \A k \in 1..count : (out + k - 1) % Capacity \in Occupied
      BY <1>0, <3>1, QueueSlots
    <3> QED
      BY <1>3, <3>2
  <2>2. RingQueue \in [1..count -> S]
    BY <1>0, <2>1 DEF RingQueue, BufferTypeOK
  <2>3. RingQueue \in Seq(S) /\ DOMAIN RingQueue = 1..count
    BY <1>3, <2>2, SeqDef
  <2>4. Len(RingQueue) = count
    BY <1>3, <2>3, LenProperties
  <2> QED
    BY <1>3, <2>3, <2>4, EmptySeq
<1>6. Head(RingQueue) = items[out]
  <2>1. 1 \in 1..count /\ (out + 1 - 1) % Capacity = out
    BY <1>0, <1>3, QueueSlots
  <2>2. RingQueue[1] = items[out]
    BY <2>1 DEF RingQueue
  <2> QED
    BY <1>5, <2>2
<1>7. RingQueue' = Tail(RingQueue)
  <2>1. RingQueue' = [k \in 1..(count - 1) |-> items[(out' + k - 1) % Capacity]]
    BY <1>2 DEF RingQueue
  <2>2. \A k \in 1..(count - 1) : RingQueue'[k] = RingQueue[k + 1]
    <3>1. \A k \in 1..(count - 1) : k + 1 \in 1..count
      BY <1>3
    <3> QED
      BY <1>4, <2>1, <3>1 DEF RingQueue
  <2>3. /\ Tail(RingQueue) \in Seq(S) /\ Len(Tail(RingQueue)) = count - 1
        /\ \A k \in 1..(count - 1) : Tail(RingQueue)[k] = RingQueue[k + 1]
    BY <1>5, HeadTailProperties
  <2>4. RingQueue' \in Seq(S) /\ Len(RingQueue') = count - 1
    <3>1. count - 1 \in Nat /\ DOMAIN RingQueue' = 1..(count - 1)
      BY <1>3, <2>1
    <3>2. \A k \in 1..(count - 1) : RingQueue'[k] \in S
      <4> HIDE DEF S
      <4> QED
        BY <2>2, <2>3, <3>1, ElementOfSeq
    <3>3. RingQueue' \in [1..(count - 1) -> S]
      BY <2>1, <3>2
    <3>4. RingQueue' \in Seq(S)
      BY <3>1, <3>3, SeqDef
    <3> QED
      BY <3>1, <3>4, LenProperties
  <2> HIDE DEF S
  <2> QED
    BY <2>2, <2>3, <2>4, SeqEqual
<1>8. [w \in Workers |-> item'[w]] = [[w \in Workers |-> item[w]] EXCEPT ![t] = items[out]]
  BY <1>0, <1>1, <1>2 DEF BufferTypeOK
<1>9. item[t] = NoItem
  BY <1>0, <1>1 DEF HandsOK, RoutineOf, Popped, PopPoints
<1>10. NotQueued' = NotQueued
  <2>1. item'[Manager] = item[Manager]
    BY <1>0, <1>1, <1>2 DEF BufferTypeOK
  <2> QED
    BY <1>2, <2>1 DEF NotQueued
<1>11. Copied' = Copied
  BY <1>2 DEF Copied
<1> QED
  BY <1>1, <1>2, <1>5, <1>6, <1>7, <1>8, <1>9, <1>10, <1>11 DEF Job!Take

(* Copying and closing a file is its Complete.                             *)
LEMMA CopyCompletes ==
  ASSUME CopyInv, NEW w \in Workers, CopyFile(w)
  PROVE  Job!Complete(w)
<1> USE BufferAssumption, ThreadsAssumption
<1>0. CopyTypeOK /\ BufferTypeOK /\ HandsOK /\ EachFileInOnePlace /\ w \in Threads /\ w # Manager
  BY DEF CopyInv, CopyTypeOK
<1>1. /\ wpc[w] = "copy" /\ dest' = [dest EXCEPT ![item[w]] = "copied"]
      /\ item' = [item EXCEPT ![w] = NoItem] /\ UNCHANGED <<items, out, count, done>>
  BY DEF CopyFile, dataVars
<1>2. item[w] \in Items /\ dest[item[w]] = "empty"
  <2>1. item[w] \in Items
    BY <1>0, <1>1 DEF HandsOK, BufferTypeOK
  <2> QED
    BY <1>0, <2>1 DEF EachFileInOnePlace, InHand, InFlight
<1>3. /\ dest'[item[w]] = "copied"
      /\ \A f \in Items : f # item[w] => dest'[f] = dest[f]
  BY <1>0, <1>1, <1>2 DEF CopyTypeOK
<1>4. Copied' = Copied \cup {item[w]}
  BY <1>2, <1>3 DEF Copied
<1>5. item'[Manager] = item[Manager] /\ item[Manager] # item[w]
  BY <1>0, <1>1, <1>2 DEF BufferTypeOK, EachFileInOnePlace
<1>6. NotQueued' = NotQueued
  BY <1>2, <1>3, <1>5 DEF NotQueued
<1>7. [v \in Workers |-> item'[v]] = [[v \in Workers |-> item[v]] EXCEPT ![w] = NoItem]
  BY <1>0, <1>1 DEF BufferTypeOK
<1>8. RingQueue' = RingQueue
  BY <1>1 DEF RingQueue
<1> QED
  BY <1>1, <1>2, <1>4, <1>6, <1>7, <1>8 DEF Job!Complete

(* The flag is set after the last push: there is nothing left to queue.    *)
LEMMA SetDoneCloses ==
  ASSUME CopyInv, NEW t \in Threads, SetDone(t), UNCHANGED dest
  PROVE  Job!Close
<1> USE BufferAssumption, ThreadsAssumption
<1>0. CopyTypeOK /\ HandsOK /\ RoutineOf /\ DoneOK
  BY DEF CopyInv
<1>1. t = Manager /\ mpc = "set_done_called" /\ at[Manager] = "done_set"
  BY <1>0 DEF SetDone, RoutineOf, PopPoints, DonePoints, Workers
<1>2. ~done /\ item[Manager] = NoItem
  BY <1>0, <1>1 DEF DoneOK, HandsOK
<1>3. \A f \in Items : dest[f] # "none"
  BY <1>1, WalkEnds
<1>4. done' = TRUE /\ UNCHANGED <<items, out, count, item, dest>>
  BY DEF SetDone, dataVars
<1>5. NotQueued = {}
  BY <1>2, <1>3 DEF NotQueued
<1>6. UNCHANGED <<NotQueued, RingQueue, [w \in Workers |-> item[w]], Copied>>
  BY <1>4 DEF NotQueued, RingQueue, Copied
<1> QED
  BY <1>2, <1>4, <1>5, <1>6 DEF Job!Close

(* Every step of the program is a step of the job, or none.                *)
LEMMA JobStep ==
  ASSUME CopyInv, [MWCpNext]_copyVars
  PROVE  [Job!JobNext]_(Job!jobVars)
<1> USE BufferAssumption, ThreadsAssumption
<1>0. CopyTypeOK /\ BufferTypeOK
  BY DEF CopyInv, CopyTypeOK
<1>1. ASSUME UNCHANGED <<items, out, count, done, item, dest>>
      PROVE  UNCHANGED Job!jobVars
  BY <1>1 DEF Job!jobVars, NotQueued, RingQueue, Copied
<1>2. CASE Running(MainStep) \/ Running(SignalHandler) \/ Exit
           \/ (\E t \in Threads : CrashInBuffer(t)) \/ UNCHANGED copyVars
  BY <1>1, <1>2 DEF Running, MainStep, CreateManager, CreateWorker, JoinManager, JoinWorker, Cleanup,
                    SignalHandler, Exit, CrashInBuffer, copyVars, bufferVars, dataVars
<1>3. CASE Running(ManagerStep)
  <2>1. CASE OpenFile /\ ~Fail
    <3>1. /\ mpc = "open" /\ dest' = [dest EXCEPT ![entry] = "empty"]
          /\ item' = [item EXCEPT ![Manager] = entry] /\ UNCHANGED <<items, out, count, done>>
      BY <2>1 DEF OpenFile, dataVars
    <3>2. entry \in Items /\ dest[entry] = "none" /\ item[Manager] = NoItem
      BY <3>1, ManagerWalks DEF CopyInv, WalkOK
    <3>3. /\ dest'[entry] = "empty" /\ item'[Manager] = entry
          /\ \A f \in Items : f # entry => dest'[f] = dest[f]
          /\ \A w \in Workers : item'[w] = item[w]
      BY <1>0, <3>1, <3>2 DEF CopyTypeOK, BufferTypeOK
    <3>4. NotQueued' = NotQueued
      BY <3>2, <3>3 DEF NotQueued
    <3>5. Copied' = Copied
      BY <3>2, <3>3 DEF Copied
    <3> QED
      BY <3>1, <3>3, <3>4, <3>5 DEF Job!jobVars, RingQueue
  <2>2. CASE ~(OpenFile /\ ~Fail)
    BY <1>1, <1>3, <2>2 DEF Running, ManagerStep, Walk, OpenDir, ReadDir, OpenFile, Fail,
       PushReturns, CallSetDone, ManagerEnds, bufferVars, dataVars
  <2> QED
    BY <2>1, <2>2
<1>4. ASSUME NEW w \in Workers, Running(WorkerStep(w))
      PROVE  [Job!JobNext]_(Job!jobVars)
  <2>1. CASE CopyFile(w)
    BY <2>1, CopyCompletes DEF Job!JobNext
  <2>2. CASE CallPop(w) \/ PopReturns(w, "returned")
    BY <1>1, <2>2 DEF CallPop, PopReturns, bufferVars, dataVars
  <2> QED
    BY <1>4, <2>1, <2>2 DEF Running, WorkerStep
<1>5. ASSUME NEW t \in Threads, Running(BufferStep(t))
      PROVE  [Job!JobNext]_(Job!jobVars)
  <2>1. UNCHANGED dest /\ (RoutineStep(t) \/ Wake(t))
    BY <1>5 DEF Running, BufferStep
  <2>2. CASE PushTest(t) /\ count < Capacity
    BY <2>1, <2>2, PushPuts DEF Job!JobNext
  <2>3. CASE PopTest(t) /\ count > 0
    BY <2>1, <2>3, PopTakes DEF Job!JobNext
  <2>4. CASE SetDone(t)
    BY <2>1, <2>4, SetDoneCloses DEF Job!JobNext
  <2>5. CASE ~(PushTest(t) /\ count < Capacity) /\ ~(PopTest(t) /\ count > 0) /\ ~SetDone(t)
    BY <1>1, <2>1, <2>5 DEF RoutineStep, buffer_push, buffer_pop, buffer_set_done, Wake,
       PushTest, PopTest, Lock, Unlock, CondWait, dataVars
  <2> QED
    BY <2>2, <2>3, <2>4, <2>5
<1> QED
  BY <1>2, <1>3, <1>4, <1>5 DEF MWCpNext

(***************************************************************************)
(* The copier implements CopyJob: every file is queued once, the ring of   *)
(* buffer.c is a queue first in first out that never holds more than       *)
(* Capacity files, each file is taken and copied by one worker, and the    *)
(* flag is set after the last one.                                         *)
(***************************************************************************)
THEOREM JobImplemented == MWCpSpec => ImplementsJob
<1>1. CopyInit => Job!JobInit
  <2> SUFFICES ASSUME CopyInit PROVE Job!JobInit
    OBVIOUS
  <2> USE BufferAssumption, ThreadsAssumption DEF CopyInit, init_buffer
  <2>1. NotQueued = Items /\ Copied = {}
    BY DEF NotQueued, Copied
  <2>2. RingQueue = << >>
    BY DEF RingQueue
  <2> QED
    BY <2>1, <2>2 DEF Job!JobInit
<1>2. CopyInv /\ [MWCpNext]_copyVars => [Job!JobNext]_(Job!jobVars)
  BY JobStep
<1> QED
  BY <1>1, <1>2, CopyInvariant, PTL DEF MWCpSpec, ImplementsJob, Job!JobSpec
=============================================================================
