---------------------------- MODULE ReaderWriter ----------------------------
(***************************************************************************)
(* The reader/writer lock of the Midterm file server: reader_enter,        *)
(* reader_exit, writer_enter and writer_exit of Midterm/src/sync.c, run by *)
(* the server's child processes on the File records of the shared memory.  *)
(*                                                                         *)
(* A routine is a short chain of program points (pc); one action is the    *)
(* code from one semaphore call up to the next.  reader_count is only      *)
(* touched between sem_wait and sem_post of reader_mutex, so it moves in   *)
(* the step of the call before it.                                         *)
(*                                                                         *)
(* LockSpec is the discipline the routines were written for: a process     *)
(* pairs every enter with one exit of the same kind.  FileCommands, which  *)
(* EXTENDS this module, has the calls the server really makes.             *)
(***************************************************************************)
EXTENDS Integers, FiniteSets

CONSTANTS
  Procs,   \* child processes of the server, one for each connected client
  Slots    \* indices of sdir->files[]

ASSUME ProcsFinite == IsFiniteSet(Procs)

VARIABLES
  reader_count,   \* File.reader_count of each slot
  reader_mutex,   \* value of the semaphore File.reader_mutex
  writer_mutex,   \* value of the semaphore File.writer_mutex
  pc,             \* program point of each process inside the lock routines
  sfile           \* the File* a process uses: a slot

lockVars == <<reader_count, reader_mutex, writer_mutex>>
vars == <<lockVars, pc, sfile>>

(***************************************************************************)
(* Program points.  "re_", "rx_", "we_" and "wx_" are inside reader_enter, *)
(* reader_exit, writer_enter and writer_exit; a process is "reading" or    *)
(* "writing" once the enter routine has returned.                          *)
(***************************************************************************)
ReaderPoints == {"re_wait", "re_block", "re_post", "reading", "rx_wait", "rx_post"}
WriterPoints == {"we_writer", "we_reader", "writing", "wx_reader", "wx_writer"}
Points == {"idle"} \cup ReaderPoints \cup WriterPoints

LockInit ==
  /\ reader_count = [s \in Slots |-> 0]
  /\ reader_mutex = [s \in Slots |-> 1]
  /\ writer_mutex = [s \in Slots |-> 1]
  /\ pc = [p \in Procs |-> "idle"]
  /\ sfile \in [Procs -> Slots]

Goto(p, point) == pc' = [pc EXCEPT ![p] = point]

-----------------------------------------------------------------------------
(* Mutant: the first reader does not block writers.                        *)
ReaderEnterWaitNoBlock(p) ==
  LET s == sfile[p] IN
  /\ pc[p] = "re_wait"
  /\ reader_mutex[s] > 0
  /\ reader_mutex' = [reader_mutex EXCEPT ![s] = @ - 1]
  /\ reader_count' = [reader_count EXCEPT ![s] = @ + 1]
  /\ Goto(p, "re_post")
  /\ UNCHANGED <<writer_mutex, sfile>>

(* sem_wait(&reader_mutex); reader_count++; is this the first reader?      *)
ReaderEnterWait(p) ==
  LET s == sfile[p] IN
  /\ pc[p] = "re_wait"
  /\ reader_mutex[s] > 0
  /\ reader_mutex' = [reader_mutex EXCEPT ![s] = @ - 1]
  /\ reader_count' = [reader_count EXCEPT ![s] = @ + 1]
  /\ Goto(p, IF reader_count[s] + 1 = 1 THEN "re_block" ELSE "re_post")
  /\ UNCHANGED <<writer_mutex, sfile>>

(* The first reader: sem_wait(&writer_mutex), still owning reader_mutex.   *)
ReaderEnterBlock(p) ==
  LET s == sfile[p] IN
  /\ pc[p] = "re_block"
  /\ writer_mutex[s] > 0
  /\ writer_mutex' = [writer_mutex EXCEPT ![s] = @ - 1]
  /\ Goto(p, "re_post")
  /\ UNCHANGED <<reader_count, reader_mutex, sfile>>

(* sem_post(&reader_mutex) and return.                                     *)
ReaderEnterPost(p) ==
  /\ pc[p] = "re_post"
  /\ reader_mutex' = [reader_mutex EXCEPT ![sfile[p]] = @ + 1]
  /\ Goto(p, "reading")
  /\ UNCHANGED <<reader_count, writer_mutex, sfile>>

(* Mutant: the last reader is told by the count before the decrement.      *)
ReaderExitWaitOldCount(p) ==
  LET s == sfile[p] IN
  /\ pc[p] = "rx_wait"
  /\ reader_mutex[s] > 0
  /\ reader_mutex' = [reader_mutex EXCEPT ![s] = @ - 1]
  /\ reader_count' = [reader_count EXCEPT ![s] = @ - 1]
  /\ writer_mutex' = IF reader_count[s] = 0
                     THEN [writer_mutex EXCEPT ![s] = @ + 1]
                     ELSE writer_mutex
  /\ Goto(p, "rx_post")
  /\ UNCHANGED sfile

(* Mutant: every reader that leaves allows writers, not only the last.     *)
ReaderExitWaitAnyReader(p) ==
  LET s == sfile[p] IN
  /\ pc[p] = "rx_wait"
  /\ reader_mutex[s] > 0
  /\ reader_mutex' = [reader_mutex EXCEPT ![s] = @ - 1]
  /\ reader_count' = [reader_count EXCEPT ![s] = @ - 1]
  /\ writer_mutex' = [writer_mutex EXCEPT ![s] = @ + 1]
  /\ Goto(p, "rx_post")
  /\ UNCHANGED sfile

(* sem_wait(&reader_mutex); reader_count--; the last reader also posts     *)
(* writer_mutex.                                                           *)
ReaderExitWait(p) ==
  LET s == sfile[p] IN
  /\ pc[p] = "rx_wait"
  /\ reader_mutex[s] > 0
  /\ reader_mutex' = [reader_mutex EXCEPT ![s] = @ - 1]
  /\ reader_count' = [reader_count EXCEPT ![s] = @ - 1]
  /\ writer_mutex' = IF reader_count[s] - 1 = 0
                     THEN [writer_mutex EXCEPT ![s] = @ + 1]
                     ELSE writer_mutex
  /\ Goto(p, "rx_post")
  /\ UNCHANGED sfile

ReaderExitPost(p) ==
  /\ pc[p] = "rx_post"
  /\ reader_mutex' = [reader_mutex EXCEPT ![sfile[p]] = @ + 1]
  /\ Goto(p, "idle")
  /\ UNCHANGED <<reader_count, writer_mutex, sfile>>

(* writer_enter takes writer_mutex first, then reader_mutex.               *)
WriterEnterWriter(p) ==
  LET s == sfile[p] IN
  /\ pc[p] = "we_writer"
  /\ writer_mutex[s] > 0
  /\ writer_mutex' = [writer_mutex EXCEPT ![s] = @ - 1]
  /\ Goto(p, "we_reader")
  /\ UNCHANGED <<reader_count, reader_mutex, sfile>>

WriterEnterReader(p) ==
  LET s == sfile[p] IN
  /\ pc[p] = "we_reader"
  /\ reader_mutex[s] > 0
  /\ reader_mutex' = [reader_mutex EXCEPT ![s] = @ - 1]
  /\ Goto(p, "writing")
  /\ UNCHANGED <<reader_count, writer_mutex, sfile>>

(* writer_exit posts reader_mutex, then writer_mutex.                      *)
WriterExitReader(p) ==
  /\ pc[p] = "wx_reader"
  /\ reader_mutex' = [reader_mutex EXCEPT ![sfile[p]] = @ + 1]
  /\ Goto(p, "wx_writer")
  /\ UNCHANGED <<reader_count, writer_mutex, sfile>>

WriterExitWriter(p) ==
  /\ pc[p] = "wx_writer"
  /\ writer_mutex' = [writer_mutex EXCEPT ![sfile[p]] = @ + 1]
  /\ Goto(p, "idle")
  /\ UNCHANGED <<reader_count, reader_mutex, sfile>>

(* One step of whichever routine p is in.                                  *)
RoutineStep(p) ==
  \/ ReaderEnterWait(p) \/ ReaderEnterBlock(p) \/ ReaderEnterPost(p)
  \/ ReaderExitWait(p) \/ ReaderExitPost(p)
  \/ WriterEnterWriter(p) \/ WriterEnterReader(p)
  \/ WriterExitReader(p) \/ WriterExitWriter(p)

-----------------------------------------------------------------------------
(***************************************************************************)
(* Disciplined use.  The calls only move the program point; get_file gives *)
(* a process another File while it is in no routine and no section.        *)
(***************************************************************************)
CallReaderEnter(p) == pc[p] = "idle"    /\ Goto(p, "re_wait")   /\ UNCHANGED <<lockVars, sfile>>
CallReaderExit(p)  == pc[p] = "reading" /\ Goto(p, "rx_wait")   /\ UNCHANGED <<lockVars, sfile>>
CallWriterEnter(p) == pc[p] = "idle"    /\ Goto(p, "we_writer") /\ UNCHANGED <<lockVars, sfile>>
CallWriterExit(p)  == pc[p] = "writing" /\ Goto(p, "wx_reader") /\ UNCHANGED <<lockVars, sfile>>

ChooseFile(p) ==
  /\ pc[p] = "idle"
  /\ \E s \in Slots : sfile' = [sfile EXCEPT ![p] = s]
  /\ UNCHANGED <<lockVars, pc>>

LockNext ==
  \E p \in Procs :
    \/ RoutineStep(p)
    \/ CallReaderEnter(p) \/ CallReaderExit(p)
    \/ CallWriterEnter(p) \/ CallWriterExit(p)
    \/ ChooseFile(p)

LockSpec == LockInit /\ [][LockNext]_vars

-----------------------------------------------------------------------------
LockTypeOK ==
  /\ reader_count \in [Slots -> Int]
  /\ reader_mutex \in [Slots -> Int]
  /\ writer_mutex \in [Slots -> Int]
  /\ pc \in [Procs -> Points]
  /\ sfile \in [Procs -> Slots]

(***************************************************************************)
(* What sync.c promises ("Ensure no readers while writing"): while a       *)
(* process is between writer_enter and writer_exit on a File, no other     *)
(* process is in a read or a write section of the same File.               *)
(***************************************************************************)
WriterExcludes ==
  \A p, q \in Procs :
    p # q /\ sfile[p] = sfile[q] /\ pc[p] = "writing"
      => pc[q] \notin {"reading", "writing"}

(***************************************************************************)
(* No permit is lost or made up: when no process is inside a routine or a  *)
(* section of a File, its lock is back in the state init_file gave it.     *)
(***************************************************************************)
RestoredWhenFree ==
  \A s \in Slots :
    (\A p \in Procs : sfile[p] = s => pc[p] = "idle")
      => /\ reader_count[s] = 0
         /\ reader_mutex[s] = 1
         /\ writer_mutex[s] = 1

(***************************************************************************)
(* Why it holds: who owns which permit.                                    *)
(***************************************************************************)
At(s, points) == {p \in Procs : sfile[p] = s /\ pc[p] \in points}

ReaderMutexPoints == {"re_block", "re_post", "rx_post", "writing", "wx_reader"}
WriterMutexPoints == {"we_reader", "writing", "wx_reader", "wx_writer"}
CountedPoints     == {"re_block", "re_post", "reading", "rx_wait"}
GroupPoints       == {"re_post", "reading", "rx_wait"}

OwnsReaderMutex(s) == At(s, ReaderMutexPoints)
OwnsWriterMutex(s) == At(s, WriterMutexPoints)
Counted(s)         == At(s, CountedPoints)
ReaderGroup(s)     == At(s, GroupPoints)
FirstReader(s)     == At(s, {"re_block"})

ReaderMutexOK(s) ==
  \/ reader_mutex[s] = 1 /\ OwnsReaderMutex(s) = {}
  \/ reader_mutex[s] = 0 /\ \E p \in Procs : OwnsReaderMutex(s) = {p}

(* reader_count is the number of readers between ++ and --; the one that   *)
(* waits for the writers is the only one.                                  *)
CountOK(s) ==
  /\ reader_count[s] = Cardinality(Counted(s))
  /\ \A p \in FirstReader(s) : Counted(s) = {p}

(* writer_mutex belongs to nobody, to one writer, or to the readers.       *)
WriterMutexOK(s) ==
  \/ writer_mutex[s] = 1 /\ OwnsWriterMutex(s) = {} /\ ReaderGroup(s) = {}
  \/ writer_mutex[s] = 0 /\ ReaderGroup(s) = {} /\ \E p \in Procs : OwnsWriterMutex(s) = {p}
  \/ writer_mutex[s] = 0 /\ OwnsWriterMutex(s) = {} /\ ReaderGroup(s) # {}

SlotOK(s) == ReaderMutexOK(s) /\ CountOK(s) /\ WriterMutexOK(s)

(***************************************************************************)
(* The inductive invariant of the lock: at every File, reader_mutex has at *)
(* most one owner, reader_count counts the readers, and writer_mutex is    *)
(* free, owned by one writer, or owned by the readers together.            *)
(***************************************************************************)
LockInv ==
  /\ LockTypeOK
  /\ \A s \in Slots : SlotOK(s)

-----------------------------------------------------------------------------
(***************************************************************************)
(* Progress.  A process inside a routine or a section goes on when it can; *)
(* a process need not ask again.                                           *)
(***************************************************************************)
Busy(p) == RoutineStep(p) \/ CallReaderExit(p) \/ CallWriterExit(p)
FairLockSpec == LockSpec /\ \A p \in Procs : WF_vars(Busy(p))

(***************************************************************************)
(* Document.pdf 3.1: "after reading is done, writeT stops waiting and      *)
(* executes successfully".  A writer waits for ever only if other          *)
(* processes keep coming into sections of the same File.                   *)
(***************************************************************************)
WriterProceeds ==
  \A p \in Procs :
    <>[](pc[p] \in {"we_writer", "we_reader"})
      => []<>(\E q \in Procs \ {p} : sfile[q] = sfile[p] /\ pc[q] \in {"reading", "writing"})
=============================================================================
