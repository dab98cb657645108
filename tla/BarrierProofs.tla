---------------------------- MODULE BarrierProofs ----------------------------
(***************************************************************************)
(* Proofs about the copier of HW5 (module MWCpBarrier), for every tree and *)
(* every number of workers, slots and files.                               *)
(***************************************************************************)
EXTENDS MWCpBarrier, CopyThreadsProofs

(* A step that leaves the barrier alone: who is at it or past it stays.    *)
LEMMA InsideKeeps ==
  ASSUME BarrierInv, CopyInv', UNCHANGED barrierVars,
         \A t \in Threads : (AtBarrier(t) => AtBarrier(t)') /\ (Past(t) <=> Past(t)')
  PROVE  BarrierInv'
<1>1. BarrierTypeOK'
  BY DEF BarrierInv, BarrierTypeOK, CopyInv, barrierVars
<1>2. BarrierOK'
  <2>1. arrived' = arrived /\ released' = released /\ BarrierOK /\ arrived \subseteq Threads
    BY DEF BarrierInv, BarrierTypeOK, barrierVars
  <2> HIDE DEF AtBarrier, Past
  <2> QED
    BY <2>1 DEF BarrierOK
<1> QED
  BY <1>1, <1>2 DEF BarrierInv

(* A thread comes to the barrier; the last one of all lets everybody go.   *)
LEMMA ArriveKeeps ==
  ASSUME BarrierInv, NEW t \in Threads, BarrierArrive(t), proc' = proc
  PROVE  BarrierInv'
<1> USE BufferAssumption, ThreadsAssumption
<1>1. UNCHANGED copyVars
  BY DEF BarrierArrive, copyVars
<1>2. CopyInv'
  BY <1>1, StutterKeeps DEF BarrierInv
<1>3. /\ arrived \subseteq Threads /\ released \subseteq Threads /\ BarrierOK
      /\ AtBarrier(t) /\ t \notin arrived \cup released
  BY DEF BarrierInv, BarrierTypeOK, BarrierArrive
<1>4. \A u \in Threads : (AtBarrier(u)' <=> AtBarrier(u)) /\ (Past(u)' <=> Past(u))
  BY <1>1 DEF AtBarrier, Past, copyVars, walkVars
<1>5. released = {}
  BY <1>3 DEF BarrierOK
<1>6. CASE Cardinality(arrived \cup {t}) = WorkerCount + 1
  <2>1. arrived' = {} /\ released' = released \cup arrived \cup {t}
    BY <1>6 DEF BarrierArrive
  <2>2. IsFiniteSet(Threads) /\ Cardinality(Threads) = WorkerCount + 1
    BY ThreadsCounted
  <2>3. arrived \cup {t} = Threads
    BY <1>3, <1>6, <2>2, FS_Subset
  <2>4. released' = Threads
    BY <1>5, <2>1, <2>3
  <2>5. \A u \in Threads : AtBarrier(u)
    BY <1>3, <2>3 DEF BarrierOK
  <2>6. BarrierOK'
    BY <1>3, <1>4, <2>1, <2>4, <2>5 DEF BarrierOK
  <2> QED
    BY <1>2, <2>1, <2>4, <2>6 DEF BarrierInv, BarrierTypeOK, CopyInv
<1>7. CASE Cardinality(arrived \cup {t}) # WorkerCount + 1
  <2>1. arrived' = arrived \cup {t} /\ released' = released
    BY <1>7 DEF BarrierArrive
  <2>2. BarrierOK'
    BY <1>3, <1>4, <1>5, <2>1 DEF BarrierOK
  <2> QED
    BY <1>2, <1>3, <2>1, <2>2 DEF BarrierInv, BarrierTypeOK, CopyInv
<1> QED
  BY <1>6, <1>7

(* A thread that was let go returns.                                       *)
LEMMA ReturnKeeps ==
  ASSUME BarrierInv, NEW t \in Threads, BarrierReturn(t), proc' = proc
  PROVE  BarrierInv'
<1> USE BufferAssumption, ThreadsAssumption
<1>1. /\ UNCHANGED <<bufferVars, dest, main, started, joined, dir, entry, stack, left, made,
                     destroyed, proc, arrived, released>>
      /\ UNCHANGED <<at, item, ret, done, count>>
  BY DEF BarrierReturn, mainVars, barrierVars, bufferVars, dataVars
<1>2. /\ CopyInv /\ CopyTypeOK /\ BarrierOK /\ AtBarrier(t) /\ t \in released
      /\ arrived \subseteq Threads /\ released \subseteq Threads
  BY DEF BarrierInv, BarrierTypeOK, BarrierReturn
<1>3. mpc' = (IF t = Manager THEN "returned" ELSE mpc) /\ (t = Manager => mpc = "barrier")
  BY <1>2 DEF BarrierReturn, AtBarrier
<1>4. /\ wpc' \in [Workers -> WorkerPoints]
      /\ \A w \in Workers : /\ wpc'[w] = IF w = t THEN "returned" ELSE wpc[w]
                            /\ w = t => wpc[w] = "barrier"
  BY <1>2 DEF BarrierReturn, AtBarrier, CopyTypeOK, WorkerPoints
<1>5. CopyTypeOK'
  BY <1>1, <1>2, <1>3, <1>4, RestKeeps DEF CopyTypeOK, ManagerPoints
<1>6. RoutineOf'
  BY <1>1, <1>2, <1>3, <1>4 DEF CopyInv, RoutineOf
<1>7. HandsOK'
  BY <1>1, <1>2, <1>3, <1>4 DEF CopyInv, HandsOK, Popped
<1>8. DoneOK'
  BY <1>1, <1>2, <1>3, <1>4 DEF CopyInv, DoneOK, Popped, Ended
<1>9. MainOK'
  BY <1>1, <1>2, <1>3, <1>4 DEF CopyInv, MainOK
<1>10. WalkOK'
  BY <1>1, <1>2, <1>3 DEF CopyInv, WalkOK, Entries
<1>11. WalkComplete'
  BY <1>1, <1>2, <1>3 DEF CopyInv, WalkComplete, Ended
<1>12. CopyInv'
  BY <1>1, <1>2, <1>5, <1>6, <1>7, <1>8, <1>9, <1>10, <1>11, RestKeeps DEF CopyInv
<1>13. \A u \in Threads : /\ AtBarrier(u)' \/ Past(u)' <=> AtBarrier(u) \/ Past(u)
                          /\ u # t => (AtBarrier(u)' <=> AtBarrier(u)) /\ (Past(u)' <=> Past(u))
  BY <1>2, <1>3, <1>4 DEF AtBarrier, Past
<1>14. BarrierOK'
  BY <1>1, <1>2, <1>13 DEF BarrierOK
<1> QED
  BY <1>1, <1>2, <1>12, <1>14 DEF BarrierInv, BarrierTypeOK, CopyInv

(* No step breaks the invariant.                                           *)
LEMMA BarrierStep == BarrierInv /\ [BarrierNext]_allVars => BarrierInv'
<1> SUFFICES ASSUME BarrierInv, [BarrierNext]_allVars PROVE BarrierInv'
  OBVIOUS
<1> USE BufferAssumption, ThreadsAssumption
<1>0. CopyInv /\ CopyTypeOK
  BY DEF BarrierInv, CopyInv
<1>1. CASE RunningInside(MainStep)
  <2>1. CopyInv' /\ UNCHANGED barrierVars
    BY <1>0, <1>1, MainKeeps DEF RunningInside, Running
  <2>2. \A t \in Threads : (AtBarrier(t) => AtBarrier(t)') /\ (Past(t) <=> Past(t)')
    <3>1. CASE CreateManager
      BY <1>0, <3>1 DEF CreateManager, AtBarrier, Past, CopyInv, MainOK
    <3>2. CASE CreateWorker
      <4>1. /\ started + 1 \in Workers /\ wpc[started + 1] = "new" /\ mpc' = mpc
            /\ wpc' = [wpc EXCEPT ![started + 1] = "pop"]
        BY <1>0, <3>2 DEF CreateWorker, walkVars, CopyTypeOK, CopyInv, MainOK, Workers
      <4> QED
        BY <1>0, <4>1 DEF AtBarrier, Past, CopyTypeOK
    <3>3. CASE JoinManager \/ JoinWorker \/ Cleanup
      BY <3>3 DEF JoinManager, JoinWorker, Cleanup, AtBarrier, Past, walkVars
    <3> QED
      BY <1>1, <3>1, <3>2, <3>3 DEF RunningInside, Running, MainStep
  <2> QED
    BY <2>1, <2>2, InsideKeeps
<1>2. CASE RunningInside(ManagerStep)
  <2>1. CopyInv' /\ UNCHANGED barrierVars
    BY <1>0, <1>2, ManagerKeeps DEF RunningInside, Running, ManagerStep, Ended
  <2>2. mpc \notin Ended /\ mpc' # "returned" /\ wpc' = wpc
    BY <1>2 DEF RunningInside, Running, ManagerStep, Walk, OpenDir, Fail, ReadDir, OpenFile,
                PushReturns, CallSetDone, ManagerEnds, Ended
  <2> QED
    BY <2>1, <2>2, InsideKeeps DEF AtBarrier, Past, Ended
<1>3. ASSUME NEW w \in Workers, RunningInside(WorkerStep(w)) PROVE BarrierInv'
  <2>1. CopyInv' /\ UNCHANGED barrierVars
    BY <1>0, <1>3, WorkerKeeps DEF RunningInside, Running, WorkerStep, Ended
  <2>2. /\ wpc[w] \notin Ended /\ wpc'[w] # "returned" /\ mpc' = mpc
        /\ \A u \in Workers \ {w} : wpc'[u] = wpc[u]
    BY <1>0, <1>3 DEF RunningInside, Running, WorkerStep, CallPop, PopReturns, CopyFile, Ended,
                      walkVars, CopyTypeOK
  <2> QED
    BY <2>1, <2>2, InsideKeeps DEF AtBarrier, Past, Ended
<1>4. ASSUME NEW t \in Threads, RunningInside(BufferStep(t)) PROVE BarrierInv'
  <2>1. CopyInv' /\ UNCHANGED <<barrierVars, mpc, wpc>>
    BY <1>0, <1>4, BufferStepKeeps DEF RunningInside, Running, BufferStep, walkVars
  <2> QED
    BY <2>1, InsideKeeps DEF AtBarrier, Past
<1>5. ASSUME NEW t \in Threads, Running(BarrierArrive(t)) \/ Running(BarrierReturn(t))
      PROVE  BarrierInv'
  BY <1>5, ArriveKeeps, ReturnKeeps DEF Running
<1>6. CASE \/ RunningInside(SignalHandler)
           \/ (Exit \/ \E t \in Threads : CrashInBuffer(t)) /\ UNCHANGED barrierVars
  <2>1. CopyInv'
    BY <1>0, <1>6, StopKeeps DEF RunningInside, Running
  <2>2. UNCHANGED <<barrierVars, mpc, wpc>>
    BY <1>6 DEF RunningInside, Running, SignalHandler, Exit, CrashInBuffer, walkVars
  <2> QED
    BY <2>1, <2>2, InsideKeeps DEF AtBarrier, Past
<1>7. CASE UNCHANGED allVars
  <2>1. CopyInv' /\ UNCHANGED <<barrierVars, mpc, wpc>>
    BY <1>0, <1>7, StutterKeeps DEF allVars, copyVars, walkVars
  <2> QED
    BY <2>1, InsideKeeps DEF AtBarrier, Past
<1> QED
  BY <1>1, <1>2, <1>3, <1>4, <1>5, <1>6, <1>7 DEF BarrierNext

(* BarrierInv holds in every state: the copier's invariant, and that the   *)
(* barrier lets nobody go before all have come.                            *)
THEOREM BarrierInvariant == BarrierSpec => []BarrierInv
<1>1. BarrierInit => BarrierInv
  <2> SUFFICES ASSUME BarrierInit PROVE BarrierInv
    OBVIOUS
  <2>1. CopyInv
    BY CopyStarts DEF BarrierInit
  <2>2. arrived = {} /\ released = {} /\ \A t \in Threads : ~Past(t)
    BY ThreadsAssumption DEF BarrierInit, CopyInit, Past
  <2> QED
    BY <2>1, <2>2 DEF BarrierInv, BarrierTypeOK, BarrierOK, CopyInv
<1> QED
  BY <1>1, BarrierStep, PTL DEF BarrierSpec

(***************************************************************************)
(* "ensure all threads have completed a processing phase before moving to  *)
(* the next phase": who is past the barrier was let go, so all have come   *)
(* to it, so the walk and the workers are done and all files are copied.   *)
(***************************************************************************)
THEOREM PhasesComplete == BarrierSpec => []PhaseComplete
<1>1. BarrierInv => PhaseComplete
  <2> SUFFICES ASSUME BarrierInv, NEW t \in Threads, Past(t)
               PROVE  /\ made = Dirs /\ (WorkerCount > 0 => Copied = Items)
                      /\ \A u \in Threads : at[u] = "out" /\ (Past(u) \/ AtBarrier(u))
    BY DEF PhaseComplete
  <2> USE ThreadsAssumption
  <2>1. CopyInv /\ \A u \in Threads : AtBarrier(u) \/ Past(u)
    BY DEF BarrierInv, BarrierOK
  <2>2. mpc \in Ended /\ \A w \in Workers : wpc[w] \in Ended
    BY <2>1 DEF AtBarrier, Past, Ended
  <2>3. made = Dirs /\ (WorkerCount > 0 => Copied = Items)
    BY <2>1, <2>2, WalkEnds, AllCopied
  <2>4. \A u \in Threads : at[u] = "out"
    BY <2>1, <2>2 DEF CopyInv, RoutineOf, Ended
  <2> QED
    BY <2>1, <2>3, <2>4
<1> QED
  BY <1>1, BarrierInvariant, PTL
=============================================================================
