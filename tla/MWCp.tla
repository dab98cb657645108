-------------------------------- MODULE MWCp --------------------------------
(***************************************************************************)
(* The directory copier of HW4: a thread that has finished returns.        *)
(***************************************************************************)
EXTENDS CopyThreads

ManagerStep == Walk \/ ManagerEnds("returned")
WorkerStep(w) == CallPop(w) \/ PopReturns(w, "returned") \/ CopyFile(w)

Running(A) == proc = "running" /\ A /\ UNCHANGED proc

MWCpNext ==
  \/ Running(MainStep)
  \/ Running(ManagerStep)
  \/ \E w \in Workers : Running(WorkerStep(w))
  \/ \E t \in Threads : Running(BufferStep(t))
  \/ Running(SignalHandler)
  \/ proc = "running" /\ (Exit \/ \E t \in Threads : CrashInBuffer(t))
  \/ proc = "exited" /\ UNCHANGED copyVars

MWCpSpec == CopyInit /\ [][MWCpNext]_copyVars

(* Every thread keeps running; a wake-up for no reason is not promised, nor *)
(* that a call returns that destroys a condition threads wait on.          *)
MWCpFair ==
  /\ MWCpSpec
  /\ WF_copyVars(Running(MainStep)) /\ WF_copyVars(proc = "running" /\ Waiting = {} /\ Exit)
  /\ WF_copyVars(Running(ManagerStep))
  /\ \A w \in Workers : WF_copyVars(Running(WorkerStep(w)))
  /\ \A t \in Threads : WF_copyVars(Running(RoutineStep(t) /\ UNCHANGED <<mainVars, walkVars, dest, wpc, destroyed>>))

-----------------------------------------------------------------------------
(***************************************************************************)
(* A worker leaves only when nothing is left for it: the manager has       *)
(* queued its last file and the ring is empty (report: "Worker threads     *)
(* keep processing items until the buffer's done flag is set and the       *)
(* buffer is empty").  In particular the usleep of worker_function, after  *)
(* a pop that found the buffer empty but not done, is never reached.       *)
(***************************************************************************)
WorkersLeaveLast ==
  \A w \in Workers :
    wpc[w] = "returned" \/ (wpc[w] = "pop_called" /\ at[w] = "out" /\ ret[w] = 0)
      => done /\ count = 0 /\ mpc \in {"set_done_called", "returned"}

-----------------------------------------------------------------------------
(***************************************************************************)
(* When main has joined its threads the whole tree is there, and, if there *)
(* was a worker, every file is copied and every descriptor closed.         *)
(* Nothing in main refuses a worker_amount of 0 ("Copying completed.").    *)
(***************************************************************************)
CompleteAtEnd ==
  main = "end" =>
    /\ made = Dirs /\ stack = << >>
    /\ WorkerCount > 0 => Copied = Items

(***************************************************************************)
(* main destroys the buffer when no thread is in it any more; a signal or  *)
(* an error of the manager may destroy it under the workers.               *)
(***************************************************************************)
NoUseAfterDestroy ==
  main = "end" => destroyed /\ \A t \in Threads : at[t] = "out"

(***************************************************************************)
(* The descriptors the manager opens ahead are bounded by the buffer and   *)
(* the workers, whatever the size of the tree: two for each file in the    *)
(* ring, with a worker, or in the manager's hands.                         *)
(***************************************************************************)
DescriptorsBounded ==
  Cardinality(InFlight) <= Capacity + WorkerCount + 1

(***************************************************************************)
(* The program ends, whatever the number of files, workers and slots, if   *)
(* the wake-ups for no reason come to an end.  The exception: an error of  *)
(* the manager or a signal, when a thread waits for the buffer, may stay   *)
(* in destroy_buffer for ever, and the program with it.  main itself never *)
(* does (NoUseAfterDestroy).                                               *)
(***************************************************************************)
Terminates ==
  <>[][\A t \in Threads : ~Wake(t)]_copyVars
    => \/ <>(proc = "exited")
       \/ <>[](destroyed /\ main # "end" /\ Waiting # {})

(***************************************************************************)
(* MWCp does the job that CopyJob states: its ring is the queue.           *)
(***************************************************************************)
NotQueued == {f \in Items : dest[f] = "none" \/ item[Manager] = f}
RingQueue == [k \in 1..count |-> items[(out + k - 1) % Capacity]]

Job == INSTANCE CopyJob WITH
  todo <- NotQueued,
  queue <- RingQueue,
  busy <- [w \in Workers |-> item[w]],
  copied <- Copied,
  closed <- done

ImplementsJob == Job!JobSpec
=============================================================================
