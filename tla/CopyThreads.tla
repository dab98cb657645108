---------------------------- MODULE CopyThreads ----------------------------
(***************************************************************************)
(* The threads of the directory copier MWCp: main, the manager that walks  *)
(* the source directory and the workers that copy, on the shared Buffer.   *)
(* The programs of HW4 and HW5 differ in how a thread ends (module MWCp:   *)
(* it returns; module MWCpBarrier: it first waits at a barrier), so the    *)
(* actions that end a thread take the point it goes to as a parameter.     *)
(*                                                                         *)
(* Items are the regular files; a BufferElement (two descriptors and a     *)
(* name) is the file it stands for.                                        *)
(***************************************************************************)
EXTENDS Buffer, Sequences

CONSTANTS
  WorkerCount,  \* worker_amount
  Manager,      \* the manager's thread
  Dirs, Root,   \* the directories of the source tree
  Parent,       \* the directory an entry is in
  Earlier,      \* pairs of files: readdir gives the first one first
  OpenFails,    \* may opendir, mkdir or open fail?
  Signals       \* may SIGINT or SIGTSTP come?

Workers == 1..WorkerCount

ASSUME ThreadsAssumption ==
  /\ WorkerCount \in Nat
  /\ Manager \notin Workers
  /\ Threads = Workers \cup {Manager}
  /\ Root \in Dirs /\ Dirs \cap Items = {}
  /\ Parent \in [(Dirs \ {Root}) \cup Items -> Dirs]

(* The directories are a tree: all of them are below the root.             *)
ASSUME TreeAssumption ==
  \A below \in SUBSET Dirs :
    Root \in below /\ (\A d \in Dirs \ {Root} : Parent[d] \in below => d \in below)
      => below = Dirs

VARIABLES
  main,       \* main(): "start", "create", "join", "end"
  started,    \* workers created
  joined,     \* workers joined
  mpc,        \* where the manager is
  dir,        \* the argument of copy_directory
  entry,      \* the file readdir gave
  stack,      \* the directories open in the recursion, innermost last
  left,       \* entries of a directory readdir has not given yet
  made,       \* directories made at the destination
  dest,       \* a destination file: "none", "empty" (just opened), "copied"
  wpc,        \* where a worker is
  destroyed,  \* destroy_buffer was called
  proc        \* the process: "running" or "exited"

mainVars == <<main, started, joined>>
walkVars == <<mpc, dir, entry, stack, left, made>>
copyVars == <<bufferVars, mainVars, walkVars, dest, wpc, destroyed, proc>>

Entries(d) == {e \in DOMAIN Parent : Parent[e] = d}
Readable(entries) == {e \in entries : \A f \in entries : <<f, e>> \notin Earlier}

CopyInit ==
  /\ init_buffer
  /\ main = "start" /\ started = 0 /\ joined = 0
  /\ mpc = "new" /\ dir = Root /\ entry = NoItem
  /\ stack = << >> /\ left = [d \in Dirs |-> {}] /\ made = {}
  /\ dest = [f \in Items |-> "none"]
  /\ wpc = [w \in Workers |-> "new"]
  /\ destroyed = FALSE
  /\ proc = "running"

-----------------------------------------------------------------------------
(* main: the manager and the workers are created, then joined in order.    *)
CreateManager ==
  /\ main = "start"
  /\ mpc' = "opendir" /\ main' = "create"
  /\ UNCHANGED <<bufferVars, started, joined, dir, entry, stack, left, made, dest, wpc, destroyed>>

(* Mutant: <= in the loop that creates the workers.                        *)
CreateWorkerOneMore ==
  /\ main = "create" /\ started <= WorkerCount
  /\ started' = started + 1
  /\ wpc' = [w \in Workers |-> IF w = started + 1 THEN "pop" ELSE wpc[w]]
  /\ UNCHANGED <<bufferVars, main, joined, walkVars, dest, destroyed>>

CreateWorker ==
  /\ main = "create" /\ started < WorkerCount
  /\ started' = started + 1
  /\ wpc' = [wpc EXCEPT ![started + 1] = "pop"]
  /\ UNCHANGED <<bufferVars, main, joined, walkVars, dest, destroyed>>

JoinManager ==
  /\ main = "create" /\ started = WorkerCount /\ mpc = "returned"
  /\ main' = "join"
  /\ UNCHANGED <<bufferVars, started, joined, walkVars, dest, wpc, destroyed>>

JoinWorker ==
  /\ main = "join" /\ joined < WorkerCount /\ wpc[joined + 1] = "returned"
  /\ joined' = joined + 1
  /\ UNCHANGED <<bufferVars, main, started, walkVars, dest, wpc, destroyed>>

(* Mutant: the last worker is not joined.                                  *)
CleanupEarly ==
  /\ main = "join" /\ joined >= WorkerCount - 1
  /\ destroyed' = TRUE /\ main' = "end"
  /\ UNCHANGED <<bufferVars, started, joined, walkVars, dest, wpc>>

Cleanup ==
  /\ main = "join" /\ joined = WorkerCount
  /\ destroyed' = TRUE /\ main' = "end"
  /\ UNCHANGED <<bufferVars, started, joined, walkVars, dest, wpc>>

-----------------------------------------------------------------------------
(* An error of the manager: destroy_buffer is called, and exit after it,   *)
(* should that call return (Exit).                                         *)
Fail ==
  /\ OpenFails
  /\ destroyed' = TRUE /\ mpc' = "exit"
  /\ UNCHANGED <<bufferVars, mainVars, dir, entry, stack, left, made, dest, wpc>>

(* copy_directory(dir): open it and make it at the destination.            *)
OpenDir ==
  /\ mpc = "opendir"
  /\ \/ /\ stack' = Append(stack, dir)
        /\ left' = [left EXCEPT ![dir] = Entries(dir)]
        /\ made' = made \cup {dir}
        /\ mpc' = "readdir"
        /\ UNCHANGED <<bufferVars, mainVars, dir, entry, dest, wpc, destroyed>>
     \/ Fail

(* Mutant: the walk ends at the end of any directory.                      *)
ReadDirStops ==
  LET d == stack[Len(stack)] IN
  /\ mpc = "readdir"
  /\ \/ \E e \in Readable(left[d]) :
          /\ left' = [left EXCEPT ![d] = @ \ {e}]
          /\ \/ e \in Dirs /\ dir' = e /\ mpc' = "opendir" /\ UNCHANGED entry
             \/ e \in Items /\ entry' = e /\ mpc' = "open" /\ UNCHANGED dir
          /\ UNCHANGED stack
     \/ /\ left[d] = {}
        /\ stack' = SubSeq(stack, 1, Len(stack) - 1)
        /\ mpc' = "set_done"
        /\ UNCHANGED <<left, dir, entry>>
  /\ UNCHANGED <<bufferVars, mainVars, made, dest, wpc, destroyed>>

(* The next entry: a directory is copied at once, a file is opened; after  *)
(* the last entry the caller goes on with its own directory.               *)
ReadDir ==
  LET d == stack[Len(stack)] IN
  /\ mpc = "readdir"
  /\ \/ \E e \in Readable(left[d]) :
          /\ left' = [left EXCEPT ![d] = @ \ {e}]
          /\ \/ e \in Dirs /\ dir' = e /\ mpc' = "opendir" /\ UNCHANGED entry
             \/ e \in Items /\ entry' = e /\ mpc' = "open" /\ UNCHANGED dir
          /\ UNCHANGED stack
     \/ /\ left[d] = {}
        /\ stack' = SubSeq(stack, 1, Len(stack) - 1)
        /\ mpc' = IF Len(stack) = 1 THEN "set_done" ELSE "readdir"
        /\ UNCHANGED <<left, dir, entry>>
  /\ UNCHANGED <<bufferVars, mainVars, made, dest, wpc, destroyed>>

(* Both files are opened, the destination emptied, and buffer_push called. *)
OpenFile ==
  /\ mpc = "open"
  /\ \/ /\ dest' = [dest EXCEPT ![entry] = "empty"]
        /\ item' = [item EXCEPT ![Manager] = entry]
        /\ Goto(Manager, "push_lock")
        /\ mpc' = "push"
        /\ UNCHANGED <<dataVars, done, mutex, ret, mainVars, dir, entry, stack, left, made, wpc, destroyed>>
     \/ Fail

PushReturns ==
  /\ mpc = "push" /\ at[Manager] = "out"
  /\ mpc' = "readdir"
  /\ UNCHANGED <<bufferVars, mainVars, dir, entry, stack, left, made, dest, wpc, destroyed>>

CallSetDone ==
  /\ mpc = "set_done"
  /\ Goto(Manager, "done_lock")
  /\ mpc' = "set_done_called"
  /\ UNCHANGED <<dataVars, done, mutex, item, ret, mainVars, dir, entry, stack, left, made, dest, wpc, destroyed>>

ManagerEnds(point) ==
  /\ mpc = "set_done_called" /\ at[Manager] = "out"
  /\ mpc' = point
  /\ UNCHANGED <<bufferVars, mainVars, dir, entry, stack, left, made, dest, wpc, destroyed>>

-----------------------------------------------------------------------------
(* A worker calls buffer_pop until it gets a file or the buffer is done.   *)
CallPop(w) ==
  /\ wpc[w] = "pop"
  /\ Goto(w, "pop_lock")
  /\ wpc' = [wpc EXCEPT ![w] = "pop_called"]
  /\ UNCHANGED <<dataVars, done, mutex, item, ret, mainVars, walkVars, dest, destroyed>>

PopReturns(w, point) ==
  /\ wpc[w] = "pop_called" /\ at[w] = "out"
  /\ wpc' = [wpc EXCEPT ![w] = IF ret[w] = 1 THEN "copy"
                               ELSE IF buffer_is_done THEN point ELSE "pop"]
  /\ UNCHANGED <<bufferVars, mainVars, walkVars, dest, destroyed>>

(* The contents are copied and both descriptors closed.                    *)
CopyFile(w) ==
  /\ wpc[w] = "copy"
  /\ dest' = [dest EXCEPT ![item[w]] = "copied"]
  /\ item' = [item EXCEPT ![w] = NoItem]
  /\ wpc' = [wpc EXCEPT ![w] = "pop"]
  /\ UNCHANGED <<dataVars, done, mutex, at, ret, mainVars, walkVars, destroyed>>

-----------------------------------------------------------------------------
(* The handler of SIGINT and SIGTSTP calls destroy_buffer and then exit,   *)
(* on one of the threads; the others go on until the process is gone.      *)
SignalHandler ==
  /\ Signals
  /\ destroyed' = TRUE
  /\ UNCHANGED <<bufferVars, mainVars, walkVars, dest, wpc>>

(* Threads that wait on a condition of the buffer; one that is to take the *)
(* mutex again has been woken and is no longer among them.                 *)
Waiting == {t \in Threads : at[t] \in {"push_wait", "pop_wait"}}

(* exit follows destroy_buffer.  To destroy a condition that threads wait  *)
(* on is undefined: the call may return, or wait until they have left, and *)
(* then the process goes on without an exit.  So this step may come        *)
(* whenever the buffer is destroyed, and has to come only if nobody waits  *)
(* (the fairness of MWCpFair and BarrierFair).                             *)
Exit ==
  /\ destroyed
  /\ proc' = "exited"
  /\ UNCHANGED <<bufferVars, mainVars, walkVars, dest, wpc, destroyed>>

(* A step of a buffer routine.  Once the buffer is destroyed its memory    *)
(* may still be there, or using it ends the process.                       *)
BufferStep(t) ==
  /\ RoutineStep(t) \/ Wake(t)
  /\ UNCHANGED <<mainVars, walkVars, dest, wpc, destroyed>>

CrashInBuffer(t) ==
  /\ destroyed /\ at[t] # "out"
  /\ proc' = "exited"
  /\ UNCHANGED <<bufferVars, mainVars, walkVars, dest, wpc, destroyed>>

MainStep == CreateManager \/ CreateWorker \/ JoinManager \/ JoinWorker \/ Cleanup
Walk == OpenDir \/ ReadDir \/ OpenFile \/ PushReturns \/ CallSetDone

-----------------------------------------------------------------------------
InHand == {f \in Items : \E t \in Threads : item[t] = f}
Queued == {items[i] : i \in Occupied}
Copied == {f \in Items : dest[f] = "copied"}
InFlight == {f \in Items : dest[f] = "empty"}
-----------------------------------------------------------------------------
(* A thread whose part is over waits at the barrier (HW5) or has returned. *)
Ended == {"barrier", "returned"}

ManagerPoints ==
  {"new", "opendir", "readdir", "open", "push", "set_done", "set_done_called", "barrier",
   "returned", "exit"}
WorkerPoints == {"new", "pop", "pop_called", "copy", "barrier", "returned"}

CopyTypeOK ==
  /\ BufferTypeOK
  /\ main \in {"start", "create", "join", "end"}
  /\ started \in 0..WorkerCount /\ joined \in 0..WorkerCount
  /\ mpc \in ManagerPoints
  /\ dir \in Dirs /\ entry \in Items \cup {NoItem}
  /\ stack \in Seq(Dirs)
  /\ left \in [Dirs -> SUBSET DOMAIN Parent]
  /\ made \subseteq Dirs
  /\ dest \in [Items -> {"none", "empty", "copied"}]
  /\ wpc \in [Workers -> WorkerPoints]
  /\ destroyed \in BOOLEAN
  /\ proc \in {"running", "exited"}

(***************************************************************************)
(* No file is lost or handed out twice: an opened file is in exactly one   *)
(* place, the hands of one thread or one slot of the ring, until it is     *)
(* copied (buffer_push, buffer_pop and the loop of worker_function).       *)
(***************************************************************************)
EachFileInOnePlace ==
  /\ \A t, u \in Threads : item[t] = item[u] /\ item[t] # NoItem => t = u
  /\ \A i, j \in Occupied : items[i] = items[j] => i = j
  /\ InHand \cap Queued = {}
  /\ InFlight = InHand \cup Queued

-----------------------------------------------------------------------------
(* What makes that inductive.                                              *)

(* A thread is in a routine of the buffer only while it waits for it.      *)
RoutineOf ==
  /\ at[Manager] \in {"out"} \cup PushPoints \cup DonePoints
  /\ at[Manager] \in PushPoints => mpc = "push"
  /\ at[Manager] \in DonePoints => mpc = "set_done_called"
  /\ \A w \in Workers :
       /\ at[w] \in {"out"} \cup PopPoints
       /\ at[w] \in PopPoints => wpc[w] = "pop_called"

(* A thread holds a file from the open to the push, from the pop to the    *)
(* close.                                                                  *)
Popped(w) == wpc[w] = "pop_called" /\ at[w] \in {"pop_unlock", "out"}

HandsOK ==
  /\ item[Manager] # NoItem
       <=> at[Manager] \in {"push_lock", "push_test", "push_wait", "push_relock"}
  /\ \A w \in Workers :
       item[w] # NoItem <=> wpc[w] = "copy" \/ (Popped(w) /\ ret[w] = 1)

(* The walk comes to every directory and every entry once at most.         *)
WalkOK ==
  /\ mpc \in {"readdir", "open", "push"} => Len(stack) > 0
  /\ \A k \in 1..Len(stack) : stack[k] \in made
  /\ mpc = "new" => made = {} /\ dir = Root
  /\ mpc = "opendir" => /\ dir \notin made
                        /\ dir # Root => Parent[dir] \in made
                        /\ \A d \in Dirs : dir \notin left[d]
  /\ mpc = "open" => /\ entry \in Items /\ dest[entry] = "none"
                     /\ Parent[entry] \in made
                     /\ \A d \in Dirs : entry \notin left[d]
  /\ \A d \in Dirs : left[d] \subseteq Entries(d) /\ (d \notin made => left[d] = {})
  /\ \A d \in Dirs : \A e \in left[d] : IF e \in Dirs THEN e \notin made ELSE dest[e] = "none"
  /\ \A e \in made \ {Root} : Parent[e] \in made
  /\ \A f \in Items : Parent[f] \notin made => dest[f] = "none"

(* And it passes over none, unless an error ends it: an entry of a         *)
(* directory that was opened is still to be read, at hand, or dealt with.  *)
WalkComplete ==
  mpc # "exit" =>
    /\ Root \in made \/ mpc = "new" \/ (mpc = "opendir" /\ dir = Root)
    /\ \A e \in DOMAIN Parent : Parent[e] \in made =>
         \/ e \in left[Parent[e]]
         \/ e \in made \/ (mpc = "opendir" /\ dir = e)
         \/ e \in Items /\ (dest[e] # "none" \/ (mpc = "open" /\ entry = e))
    /\ \A d \in made : left[d] # {} => \E k \in 1..Len(stack) : stack[k] = d
    /\ mpc \in {"set_done", "set_done_called"} \cup Ended => stack = << >>

(* The flag is set after the last push; a pop that failed saw it set and   *)
(* the ring empty.                                                         *)
DoneOK ==
  /\ done => mpc \in {"set_done_called"} \cup Ended /\ at[Manager] \in {"done_unlock", "out"}
  /\ \/ at[Manager] = "done_unlock" \/ mpc \in Ended
     \/ mpc = "set_done_called" /\ at[Manager] = "out"
     => done
  /\ \A w \in Workers :
       wpc[w] \in Ended \/ (Popped(w) /\ ret[w] = 0) => done /\ count = 0

(* main has joined who has returned, and destroys the buffer after that.   *)
MainOK ==
  /\ main = "start" => mpc = "new"
  /\ \A w \in Workers : w > started => wpc[w] = "new"
  /\ main \in {"join", "end"} => mpc = "returned"
  /\ \A w \in Workers : w <= joined => wpc[w] = "returned"
  /\ main = "end" => joined = WorkerCount /\ destroyed

(***************************************************************************)
(* The inductive invariant of the copier: the mutex, the ring, the files   *)
(* in the threads' hands, the walk over the tree, the done flag and main.  *)
(***************************************************************************)
CopyInv ==
  /\ CopyTypeOK /\ MutexOwned /\ RingOK
  /\ \A i \in Occupied : items[i] \in Items
  /\ EachFileInOnePlace
  /\ RoutineOf /\ HandsOK /\ WalkOK /\ WalkComplete /\ DoneOK /\ MainOK
=============================================================================
