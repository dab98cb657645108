------------------------------ MODULE FifoSum ------------------------------
(***************************************************************************)
(* HW2: the parent sends an array over FIFO1 to child 1, which adds, and   *)
(* over FIFO2 with the command "multiply" to child 2, which multiplies;    *)
(* child 1 sends its sum to child 2 over FIFO2 as well.  The parent counts *)
(* its children's deaths in its SIGCHLD handler and gives up after four    *)
(* sleeps.  A descriptor has the name of the process that holds it.        *)
(***************************************************************************)
EXTENDS Fifo, FiniteSets, Functions

CONSTANTS
  Array,      \* the numbers drawn by the parent
  Faults,     \* what may fail: "fork", "malloc"
  Garbage     \* the value of a variable nothing was assigned to

ASSUME FifoSumAssumption == Array \in Seq(Nat) /\ Array # << >> /\ Garbage \notin Nat

VARIABLES
  fifo,          \* the two FIFOs
  linked,        \* the names in the directory
  pc,            \* where each process is
  got,           \* the numbers each child has read
  sum,           \* the sum as child 2 read it
  printed,       \* what child 2 printed
  how,           \* how each process ended
  zombies,       \* children that ended and are not yet reaped
  child_counter, timeout,
  ctrl_c         \* processes with a SIGINT to handle

sumVars == <<fifo, linked, pc, got, sum, printed, how, zombies, child_counter, timeout, ctrl_c>>
parentVars == <<child_counter, timeout, zombies>>
childVars == <<got, sum, printed>>

P == "parent"
C1 == "child1"
C2 == "child2"
Procs == {P, C1, C2}
Size == Len(Array)
(* Both are ints in the program: what overflows is outside this model.     *)
Total(s) == FoldFunction(+, 0, s)
Product(s) == FoldFunction(LAMBDA x, y : x * y, 1, s)

(* Both FIFOs exist.                                                       *)
Init ==
  /\ fifo = [n \in {"fifo1", "fifo2"} |-> EmptyFifo]
  /\ linked = {"fifo1", "fifo2"}
  /\ pc = [p \in Procs |-> IF p = P THEN "draw" ELSE "unborn"]
  /\ got = [p \in {C1, C2} |-> << >>]
  /\ sum = Garbage /\ printed = << >>
  /\ how = [p \in Procs |-> "none"]
  /\ zombies = {} /\ child_counter = 0 /\ timeout = 0 /\ ctrl_c = {}

Goto(p, l) == pc' = [pc EXCEPT ![p] = l]
At(p, l) == pc[p] = l /\ p \notin ctrl_c

(* p ends: its descriptors are closed, the parent gets a SIGCHLD.          *)
Exits(p, reason) ==
  /\ Goto(p, "gone")
  /\ how' = [how EXCEPT ![p] = reason]
  /\ fifo' = [n \in DOMAIN fifo |-> Closed(fifo[n], {p})]
  /\ zombies' = zombies \cup ({p} \ {P})
  /\ ctrl_c' = ctrl_c \ {p}

(* An open: the call, and its return once the other side is there.         *)
CallOpen(p, l, n, Open(_, _), then) ==
  /\ At(p, l)
  /\ IF n \in linked
     THEN Goto(p, then) /\ fifo' = [fifo EXCEPT ![n] = Open(@, p)] /\ UNCHANGED <<how, zombies, ctrl_c>>
     ELSE Exits(p, "failed")
Opened(p, l, n) == At(p, l) /\ ~Blocked(fifo[n], p)
CloseOf(p, n) == fifo' = [fifo EXCEPT ![n] = Closed(@, {p})]

-----------------------------------------------------------------------------
(* The parent.                                                             *)

(* The array is allocated and drawn; main returns if it gets no memory.    *)
DrawArray == /\ At(P, "draw")
             /\ Goto(P, "fork2")
             /\ UNCHANGED <<fifo, linked, childVars, how, parentVars, ctrl_c>>

ArrayFails == /\ "malloc" \in Faults
              /\ At(P, "draw")
              /\ Exits(P, "malloc_failed")
              /\ UNCHANGED <<linked, childVars, child_counter, timeout>>

Fork2 == /\ At(P, "fork2")
         /\ pc' = [pc EXCEPT ![P] = "fork1", ![C2] = "open"]
         /\ UNCHANGED <<fifo, linked, childVars, how, parentVars, ctrl_c>>

Fork1 == /\ At(P, "fork1")
         /\ pc' = [pc EXCEPT ![P] = "open2", ![C1] = "open"]
         /\ UNCHANGED <<fifo, linked, childVars, how, parentVars, ctrl_c>>

ForkFails == /\ "fork" \in Faults
             /\ At(P, "fork2") \/ At(P, "fork1")
             /\ Exits(P, "fork_failed")
             /\ UNCHANGED <<linked, childVars, child_counter, timeout>>

OpenFifo2 == CallOpen(P, "open2", "fifo2", OpenWrite, "write2") /\ UNCHANGED <<linked, childVars, child_counter, timeout>>
OpenFifo1 == CallOpen(P, "open1", "fifo1", OpenWrite, "write1") /\ UNCHANGED <<linked, childVars, child_counter, timeout>>

(* The whole array, and for FIFO2 the command; one message a write, sent   *)
(* together: the reader sees no more than their order.                     *)
Sends(l, n, messages, then) ==
  /\ Opened(P, l, n)
  /\ IF Broken(fifo[n])
     THEN Exits(P, "sigpipe")
     ELSE /\ Goto(P, then)
          /\ fifo' = [fifo EXCEPT ![n].data = @ \o messages]
          /\ UNCHANGED <<how, zombies, ctrl_c>>
  /\ UNCHANGED <<linked, childVars, child_counter, timeout>>
WriteFifo2 == Sends("write2", "fifo2", Append(Array, "multiply"), "close2")
WriteFifo1 == Sends("write1", "fifo1", Array, "close1")

CloseFifo(l, n, then) ==
  /\ At(P, l) /\ CloseOf(P, n) /\ Goto(P, then)
  /\ UNCHANGED <<linked, childVars, how, parentVars, ctrl_c>>
CloseFifo2 == CloseFifo("close2", "fifo2", "open1")
CloseFifo1 == CloseFifo("close1", "fifo1", "test")

(* Mutant: one of the two names is forgotten.                              *)
UnlinkOne == linked' = linked \ {"fifo1"}
Unlink == linked' = {}

TestCounter ==
  /\ At(P, "test")
  /\ IF child_counter < 2
     THEN Goto(P, "sleep") /\ UNCHANGED <<fifo, linked, how, zombies, ctrl_c>>
     ELSE Unlink /\ Exits(P, "finished")
  /\ UNCHANGED <<childVars, child_counter, timeout>>

(* Mutant: the sleeps are not counted.                                     *)
SleepUncounted ==
  /\ At(P, "sleep") /\ Goto(P, "test")
  /\ UNCHANGED <<fifo, linked, childVars, how, parentVars, ctrl_c>>

(* Two seconds, or less when a SIGCHLD comes; then the test of timeout.    *)
Sleep ==
  /\ At(P, "sleep")
  /\ timeout' = timeout + 1
  /\ Goto(P, IF timeout' > 3 THEN "timeout" ELSE "test")
  /\ UNCHANGED <<fifo, linked, childVars, how, zombies, child_counter, ctrl_c>>

(* sigkill_handler is called for child 1, and exits: child 2 is not killed.*)
Timeout ==
  /\ At(P, "timeout")
  /\ Unlink
  /\ pc' = [pc EXCEPT ![P] = "gone", ![C1] = "gone"]
  /\ how' = [how EXCEPT ![P] = "timeout", ![C1] = IF @ = "none" THEN "killed" ELSE @]
  /\ fifo' = [n \in DOMAIN fifo |-> Closed(fifo[n], {P, C1})]
  /\ ctrl_c' = ctrl_c \ {P, C1}
  /\ UNCHANGED <<childVars, parentVars>>

(* sigchld_handler: every child that has ended is reaped.  Without         *)
(* SA_RESTART an open that waits fails, and the parent cleans up and ends. *)
SigChld ==
  /\ pc[P] # "gone" /\ P \notin ctrl_c /\ zombies # {}
  /\ child_counter' = child_counter + Cardinality(zombies)
  /\ IF \E n \in linked : Blocked(fifo[n], P)
     THEN /\ Unlink
          /\ Goto(P, "gone") /\ how' = [how EXCEPT ![P] = "interrupted"]
          /\ fifo' = [n \in DOMAIN fifo |-> Closed(fifo[n], {P})]
     ELSE UNCHANGED <<linked, pc, how, fifo>>
  /\ zombies' = {}
  /\ UNCHANGED <<childVars, timeout, ctrl_c>>

ParentStep ==
  \/ DrawArray \/ Fork2 \/ Fork1 \/ OpenFifo2 \/ OpenFifo1 \/ WriteFifo2 \/ WriteFifo1
  \/ CloseFifo2 \/ CloseFifo1 \/ TestCounter \/ Sleep \/ Timeout

-----------------------------------------------------------------------------
(* The children.                                                           *)

UnchangedParent == UNCHANGED <<linked, child_counter, timeout>>

OpenArray(c) ==
  /\ CallOpen(c, "open", IF c = C1 THEN "fifo1" ELSE "fifo2", OpenRead, "array")
  /\ UnchangedParent /\ UNCHANGED childVars

(* malloc of array2, once FIFO2 is open.                                   *)
MallocFails ==
  /\ "malloc" \in Faults
  /\ Opened(C2, "array", "fifo2") /\ got[C2] = << >>
  /\ Exits(C2, "failed")
  /\ UnchangedParent /\ UNCHANGED childVars

(* Size ints; they come in order and nobody else reads this FIFO.          *)
NumbersOneLess(f) == SubSeq(f.data, 1, Size - 1) \* Mutant: i < size - 1
Numbers(f) == SubSeq(f.data, 1, Size)
ReadArray(c, n, then) ==
  /\ Opened(c, "array", n) /\ Len(fifo[n].data) >= Size
  /\ got' = [got EXCEPT ![c] = Numbers(fifo[n])]
  /\ fifo' = [fifo EXCEPT ![n].data = SubSeq(@, Size + 1, Len(@))]
  /\ Goto(c, then)
  /\ UnchangedParent /\ UNCHANGED <<sum, printed, how, zombies, ctrl_c>>

CloseArray ==
  /\ At(C1, "close") /\ CloseOf(C1, "fifo1") /\ Goto(C1, "open_sum")
  /\ UnchangedParent /\ UNCHANGED <<childVars, how, zombies, ctrl_c>>

OpenSumToWrite == CallOpen(C1, "open_sum", "fifo2", OpenWrite, "write_sum") /\ UnchangedParent /\ UNCHANGED childVars

WriteSum ==
  /\ Opened(C1, "write_sum", "fifo2")
  /\ IF Broken(fifo["fifo2"])
     THEN Exits(C1, "sigpipe")
     ELSE /\ Goto(C1, "exit")
          /\ fifo' = [fifo EXCEPT !["fifo2"] = Written(@, Total(got[C1]))]
          /\ UNCHANGED <<how, zombies, ctrl_c>>
  /\ UnchangedParent /\ UNCHANGED childVars

Child1Exits == At(C1, "exit") /\ Exits(C1, "success") /\ UnchangedParent /\ UNCHANGED childVars

(* read takes up to 20 bytes: the 9 of the command, and a sum behind it.   *)
ReadCommand ==
  /\ Opened(C2, "command", "fifo2") /\ Readable(fifo["fifo2"])
  /\ LET data == fifo["fifo2"].data
     IN  IF data # << >> /\ data[1] = "multiply"
         THEN /\ Goto(C2, "close") /\ fifo' = [fifo EXCEPT !["fifo2"] = Drained(@)]
              /\ UNCHANGED <<how, zombies, ctrl_c>>
         ELSE Exits(C2, "failed")
  /\ UnchangedParent /\ UNCHANGED childVars

CloseCommand ==
  /\ At(C2, "close") /\ CloseOf(C2, "fifo2") /\ Goto(C2, "open_sum")
  /\ UnchangedParent /\ UNCHANGED <<childVars, how, zombies, ctrl_c>>

OpenSumToRead == CallOpen(C2, "open_sum", "fifo2", OpenRead, "read_sum") /\ UnchangedParent /\ UNCHANGED childVars

(* Nothing is read when the last writer has gone: sum keeps what it has.   *)
ReadSum ==
  /\ Opened(C2, "read_sum", "fifo2") /\ Readable(fifo["fifo2"])
  /\ sum' = IF fifo["fifo2"].data = << >> THEN sum ELSE fifo["fifo2"].data[1]
  /\ fifo' = [fifo EXCEPT !["fifo2"].data = SubSeq(@, 2, Len(@))]
  /\ Goto(C2, "print")
  /\ UnchangedParent /\ UNCHANGED <<got, printed, how, zombies, ctrl_c>>

PrintResults ==
  /\ At(C2, "print")
  /\ printed' = <<sum, Product(got[C2])>>
  /\ Exits(C2, "success")
  /\ UnchangedParent /\ UNCHANGED <<got, sum>>

ChildStep(c) ==
  \/ OpenArray(c)
  \/ c = C1 /\ (ReadArray(C1, "fifo1", "close") \/ CloseArray \/ OpenSumToWrite \/ WriteSum \/ Child1Exits)
  \/ c = C2 /\ (ReadArray(C2, "fifo2", "command") \/ ReadCommand \/ CloseCommand \/ OpenSumToRead \/ ReadSum \/ PrintResults)

-----------------------------------------------------------------------------
(* Ctrl+C and Ctrl+Z reach every process of the group; each runs its       *)
(* handler before anything else.                                           *)
CtrlC ==
  /\ pc[P] # "gone" /\ ctrl_c = {}
  /\ ctrl_c' = {p \in Procs : pc[p] \notin {"unborn", "gone"}}
  /\ UNCHANGED <<fifo, linked, pc, childVars, how, parentVars>>

SigInt(p) ==
  /\ p \in ctrl_c
  /\ Unlink
  /\ Exits(p, "ctrl_c")
  /\ UNCHANGED <<childVars, child_counter, timeout>>

Next ==
  \/ ParentStep \/ ArrayFails \/ ForkFails \/ SigChld
  \/ \E c \in {C1, C2} : ChildStep(c)
  \/ MallocFails \/ CtrlC
  \/ \E p \in Procs : SigInt(p)

(* Every process runs, and every signal is handled.                        *)
SumSpec ==
  /\ Init /\ [][Next]_sumVars
  /\ WF_sumVars(ParentStep) /\ WF_sumVars(SigChld)
  /\ \A c \in {C1, C2} : WF_sumVars(ChildStep(c))
  /\ \A p \in Procs : WF_sumVars(SigInt(p))

-----------------------------------------------------------------------------
(***************************************************************************)
(* FIFO2 carries the array, the command and the sum, and child 2 takes     *)
(* them apart by their order alone: what it prints as the sum is the sum,  *)
(* or nothing it has read, and the product is that of the whole array.     *)
(***************************************************************************)
NothingElseIsTheSum ==
  printed # << >>
    => printed[1] \in {Total(Array), Garbage} /\ printed[2] = Product(Array)

(***************************************************************************)
(* What the report's step 10 says of child 2: "After reading the sum,      *)
(* prints sum and multiplication result".                                  *)
(***************************************************************************)
SumIsReadBeforePrint == printed # << >> => printed[1] = Total(Array)

(***************************************************************************)
(* The parent ends with both FIFOs removed, whether its children ended,    *)
(* hung or died, or Ctrl+C came.  The exits that leave the FIFOs are the   *)
(* failed malloc of the array, a failed fork, and a SIGPIPE, when child 2  *)
(* has died before the array is sent.                                      *)
(***************************************************************************)
FifosRemoved ==
  pc[P] = "gone" /\ how[P] \notin {"malloc_failed", "fork_failed", "sigpipe"} => linked = {}

(***************************************************************************)
(* The parent always ends, and never leaves child 1 behind it but at a     *)
(* failed fork, a SIGPIPE, and when a dead child interrupts its open:      *)
(* child 1 has ended by itself, or is killed at the timeout.               *)
(***************************************************************************)
ParentEnds ==
  <>(pc[P] = "gone" /\ (pc[C1] \in {"unborn", "gone"} \/ how[P] \in {"fork_failed", "sigpipe", "interrupted"}))
=============================================================================
