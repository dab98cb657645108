---------------------------- MODULE MWCpBarrier ----------------------------
(***************************************************************************)
(* The directory copier of HW5: before it returns, a thread waits at a     *)
(* barrier for the manager and all the workers.                            *)
(***************************************************************************)
EXTENDS CopyThreads

VARIABLES
  arrived,   \* threads waiting at the barrier
  released   \* threads the barrier has let go

barrierVars == <<arrived, released>>
allVars == <<copyVars, barrierVars>>

BarrierInit == CopyInit /\ arrived = {} /\ released = {}

ManagerStep == Walk \/ ManagerEnds("barrier")
WorkerStep(w) == CallPop(w) \/ PopReturns(w, "barrier") \/ CopyFile(w)

AtBarrier(t) == IF t = Manager THEN mpc = "barrier" ELSE wpc[t] = "barrier"

(* Mutant: the barrier is made for the workers, without the manager.       *)
BarrierArriveOneLess(t) ==
  /\ AtBarrier(t) /\ t \notin arrived \cup released
  /\ IF Cardinality(arrived \cup {t}) = WorkerCount
     THEN arrived' = {} /\ released' = released \cup arrived \cup {t}
     ELSE arrived' = arrived \cup {t} /\ UNCHANGED released
  /\ UNCHANGED <<bufferVars, mainVars, walkVars, dest, wpc, destroyed>>

(* Mutant: the barrier is made for main as well.                           *)
BarrierArriveOneMore(t) ==
  /\ AtBarrier(t) /\ t \notin arrived \cup released
  /\ IF Cardinality(arrived \cup {t}) = WorkerCount + 2
     THEN arrived' = {} /\ released' = released \cup arrived \cup {t}
     ELSE arrived' = arrived \cup {t} /\ UNCHANGED released
  /\ UNCHANGED <<bufferVars, mainVars, walkVars, dest, wpc, destroyed>>

(* pthread_barrier_wait: the last of worker_amount + 1 threads lets all go. *)
BarrierArrive(t) ==
  /\ AtBarrier(t) /\ t \notin arrived \cup released
  /\ IF Cardinality(arrived \cup {t}) = WorkerCount + 1
     THEN arrived' = {} /\ released' = released \cup arrived \cup {t}
     ELSE arrived' = arrived \cup {t} /\ UNCHANGED released
  /\ UNCHANGED <<bufferVars, mainVars, walkVars, dest, wpc, destroyed>>

BarrierReturn(t) ==
  /\ AtBarrier(t) /\ t \in released
  /\ IF t = Manager
     THEN mpc' = "returned" /\ UNCHANGED wpc
     ELSE wpc' = [wpc EXCEPT ![t] = "returned"] /\ UNCHANGED mpc
  /\ UNCHANGED <<bufferVars, mainVars, dir, entry, stack, left, made, dest, destroyed, barrierVars>>

Running(A) == proc = "running" /\ A /\ UNCHANGED proc
RunningInside(A) == Running(A) /\ UNCHANGED barrierVars

BarrierNext ==
  \/ RunningInside(MainStep)
  \/ RunningInside(ManagerStep)
  \/ \E w \in Workers : RunningInside(WorkerStep(w))
  \/ \E t \in Threads : RunningInside(BufferStep(t))
  \/ \E t \in Threads : Running(BarrierArrive(t)) \/ Running(BarrierReturn(t))
  \/ RunningInside(SignalHandler)
  \/ proc = "running" /\ (Exit \/ \E t \in Threads : CrashInBuffer(t)) /\ UNCHANGED barrierVars
  \/ proc = "exited" /\ UNCHANGED allVars

BarrierSpec == BarrierInit /\ [][BarrierNext]_allVars

(* The handler destroys the barrier after the buffer, and to destroy it    *)
(* while threads wait there is undefined as well.                          *)
NobodyWaits == Waiting = {} /\ arrived = {}

(* Every thread keeps running; that a call returns which destroys what     *)
(* threads wait on is not promised.                                        *)
BarrierFair ==
  /\ BarrierSpec
  /\ WF_allVars(RunningInside(MainStep))
  /\ WF_allVars(proc = "running" /\ NobodyWaits /\ Exit /\ UNCHANGED barrierVars)
  /\ WF_allVars(RunningInside(ManagerStep))
  /\ \A w \in Workers : WF_allVars(RunningInside(WorkerStep(w)))
  /\ \A t \in Threads :
       /\ WF_allVars(RunningInside(RoutineStep(t) /\ UNCHANGED <<mainVars, walkVars, dest, wpc, destroyed>>))
       /\ WF_allVars(Running(BarrierArrive(t)) \/ Running(BarrierReturn(t)))

-----------------------------------------------------------------------------
Past(t) == IF t = Manager THEN mpc = "returned" ELSE wpc[t] = "returned"

BarrierTypeOK == CopyTypeOK /\ arrived \subseteq Threads /\ released \subseteq Threads

(***************************************************************************)
(* The inductive invariant: that of the copier, and the barrier's: who     *)
(* waits is there, nobody is let go before all have come (the reason for   *)
(* worker_amount + 1 in main), and nobody gets past without being let go.  *)
(***************************************************************************)
BarrierOK ==
  /\ \A t \in arrived : AtBarrier(t) /\ t \notin released
  /\ released # {} => released = Threads /\ \A t \in Threads : AtBarrier(t) \/ Past(t)
  /\ \A t \in Threads : Past(t) => t \in released

BarrierInv == BarrierTypeOK /\ CopyInv /\ BarrierOK

(***************************************************************************)
(* The HW5 report on the barrier: "ensure all threads have completed a     *)
(* processing phase before moving to the next phase".  When a thread has   *)
(* come past the barrier every file is copied (if there was a worker) and  *)
(* every thread has come to it, so none will touch the buffer again.       *)
(***************************************************************************)
PhaseComplete ==
  \A t \in Threads : Past(t) =>
    /\ made = Dirs /\ (WorkerCount > 0 => Copied = Items)
    /\ \A u \in Threads : at[u] = "out" /\ (Past(u) \/ AtBarrier(u))

(***************************************************************************)
(* The program ends: nobody is left waiting at the barrier or for the      *)
(* buffer.  The exception: an error of the manager or a signal, when a     *)
(* thread waits for the buffer or at the barrier, may stay for ever in the *)
(* call that destroys it.                                                  *)
(***************************************************************************)
Terminates ==
  <>(proc = "exited") \/ <>[](destroyed /\ main # "end" /\ ~NobodyWaits)
=============================================================================
