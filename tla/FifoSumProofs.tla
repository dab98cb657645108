-------------------------- MODULE FifoSumProofs --------------------------
(***************************************************************************)
(* Proofs about the two children of HW2 (module FifoSum), for any array:   *)
(* whoever dies, and whenever, child 2 takes nothing else for the sum, and *)
(* the FIFOs are removed.                                                  *)
(***************************************************************************)
EXTENDS FifoSum, SequenceTheorems, TLAPS

Sum == Total(Array)
Command == <<"multiply">>
CommandAndSum == <<"multiply", Sum>>

(* A FIFO is a FIFO.                                                       *)
Pipe(f) ==
  f = [readers |-> f.readers, writers |-> f.writers, blocked |-> f.blocked, data |-> f.data]
Data(n) == fifo[n].data

(* The parent before it has written the array to FIFO2, and to FIFO1; the  *)
(* children before they have read it.                                      *)
Before2 == {"draw", "fork2", "fork1", "open2", "write2"}
Before1 == Before2 \cup {"close2", "open1", "write1"}
Behind1 == {"close1", "test", "sleep", "timeout"}
Young == {"unborn", "open", "array", "gone"}
Added == {"close", "open_sum", "write_sum", "exit"}
Multiplied == {"command", "close", "open_sum", "read_sum", "print"}

SumTypeOK ==
  /\ fifo = [n \in {"fifo1", "fifo2"} |-> fifo[n]]
  /\ Pipe(fifo["fifo1"]) /\ Pipe(fifo["fifo2"])
  /\ pc = [p \in Procs |-> pc[p]]
  /\ pc[P] \in Before1 \cup Behind1 \cup {"gone"}
  /\ pc[C1] \in Young \cup Added
  /\ pc[C2] \in Young \cup Multiplied
  /\ got = [c \in {C1, C2} |-> got[c]]

(* Child 2 alone reads FIFO2; while it has it open what is in it stays.    *)
ReadersOK ==
  /\ fifo["fifo2"].readers \subseteq {C2}
  /\ pc[C2] \in {"array", "command", "close"} => fifo["fifo2"].readers = {C2}
  /\ fifo["fifo2"].readers # {} => pc[C2] \in {"array", "command", "close", "read_sum", "print"}

(* The array and the command are in FIFO2, or child 2 has taken them.      *)
Served ==
  \/ pc[C2] = "array" /\ Data("fifo2") # << >>
  \/ pc[C2] \in Multiplied \cup {"gone"}

(* Nothing is sent out of turn: the array is in FIFO2 before it is in      *)
(* FIFO1, hence before there is a sum.                                     *)
OrderOK ==
  /\ pc[P] \in Before2 => Data("fifo2") = << >> /\ pc[C2] \in Young
  /\ pc[P] \in Before1 => Data("fifo1") = << >> /\ pc[C1] \in Young
  /\ pc[P] \in (Before1 \cup Behind1) \ Before2 => Served
  /\ Data("fifo1") # << >> \/ pc[C1] \in Added => Served
  /\ Data("fifo1") \in {<< >>, Array}
  /\ pc[C1] \in Added => got[C1] = Array
  /\ pc[C2] \in Multiplied => got[C2] = Array

(* What child 2 will find in FIFO2.  The sum is there only when child 1 is *)
(* done.                                                                   *)
ContentOK ==
  /\ pc[C2] \in {"unborn", "open"} => Data("fifo2") = << >>
  /\ pc[C2] = "array" => Data("fifo2") \in {<< >>, Array \o Command, Array \o CommandAndSum}
  /\ pc[C2] = "command" => Data("fifo2") \in {Command, CommandAndSum}
  /\ pc[C2] \in {"close", "open_sum", "read_sum"} => Data("fifo2") \in {<< >>, <<Sum>>}
  /\ pc[C1] \notin {"exit", "gone"} =>
       /\ pc[C2] = "array" => Data("fifo2") # Array \o CommandAndSum
       /\ pc[C2] = "command" => Data("fifo2") = Command
       /\ pc[C2] \in {"close", "open_sum", "read_sum"} => Data("fifo2") = << >>

PlacesOK == SumTypeOK /\ ReadersOK /\ OrderOK /\ ContentOK

(* Nobody does anything before he is forked.                               *)
BirthOK ==
  /\ pc[P] \in {"draw", "fork2"} => pc[C2] = "unborn"
  /\ pc[P] \in {"draw", "fork2", "fork1"} => pc[C1] = "unborn"
  /\ \A p \in ctrl_c : p \in Procs /\ pc[p] # "unborn"

(***************************************************************************)
(* Where the three processes are tells what is in the FIFOs, and hence     *)
(* what child 2 has.                                                       *)
(***************************************************************************)
SumInv == PlacesOK /\ BirthOK /\ sum \in {Sum, Garbage} /\ NothingElseIsTheSum

-----------------------------------------------------------------------------
(* The array, and what follows it in FIFO2.                                *)

LEMMA ArrayFirst ==
  ASSUME NEW rest, rest \in Seq({"multiply", Sum}), NEW data, data = Array \o rest
  PROVE  /\ Len(data) = Size + Len(rest)
         /\ SubSeq(data, 1, Size) = Array
         /\ SubSeq(data, Size + 1, Len(data)) = rest
<1> DEFINE S == Nat \cup {"multiply", Sum}
<1>1. Array \in Seq(S) /\ rest \in Seq(S) /\ Size \in Nat
  <2>1. Array \in Seq(Nat)
    BY FifoSumAssumption DEF FifoSumAssumption
  <2>2. Size \in Nat
    BY <2>1, LenProperties DEF Size
  <2>3. Seq(Nat) \subseteq Seq(S) /\ Seq({"multiply", Sum}) \subseteq Seq(S)
    BY SeqMonotonic
  <2> QED
    BY <2>1, <2>2, <2>3
<1> HIDE DEF S
<1>2. Len(data) = Size + Len(rest)
  BY <1>1, ConcatProperties DEF Size
<1>3. SubSeq(data, 1, Size) = Array
  BY <1>1, SubSeqOfConcat1, SubSeqFull DEF Size
<1>4. SubSeq(data, Size + 1, Len(data)) = rest
  BY <1>1, <1>2, SubSeqOfConcat2, SubSeqFull DEF Size
<1> QED
  BY <1>2, <1>3, <1>4

LEMMA ArraySized ==
  /\ Array \in Seq(Nat) /\ Array # << >> /\ Size \in Nat \ {0}
  /\ SubSeq(Array, 1, Size) = Array /\ SubSeq(Array, Size + 1, Len(Array)) = << >>
<1>1. Array \in Seq(Nat) /\ Array # << >>
  BY FifoSumAssumption DEF FifoSumAssumption
<1>2. Size \in Nat \ {0}
  BY <1>1, LenProperties, EmptySeq DEF Size
<1>3. SubSeq(Array, 1, Size) = Array /\ SubSeq(Array, Size + 1, Len(Array)) = << >>
  BY <1>1, <1>2, SubSeqFull, SubSeqEmpty DEF Size
<1> QED
  BY <1>1, <1>2, <1>3

(* What child 2 finds, read off the front of the array.                    *)
LEMMA ArrayRead ==
  ASSUME NEW data, data \in {<< >>, Array \o Command, Array \o CommandAndSum}, Len(data) >= Size
  PROVE  /\ SubSeq(data, 1, Size) = Array
         /\ data = Array \o Command => SubSeq(data, Size + 1, Len(data)) = Command
         /\ data = Array \o CommandAndSum => SubSeq(data, Size + 1, Len(data)) = CommandAndSum
         /\ data # << >>
<1>1. Command \in Seq({"multiply", Sum}) /\ CommandAndSum \in Seq({"multiply", Sum})
  BY DEF Command, CommandAndSum
<1>2. data # << >>
  BY ArraySized
<1> QED
  BY <1>1, <1>2, ArrayFirst

LEMMA ArrayServed == Array \o Command # << >> /\ Array \o CommandAndSum # << >>
<1>1. Command \in Seq({"multiply", Sum}) /\ CommandAndSum \in Seq({"multiply", Sum})
  BY DEF Command, CommandAndSum
<1>2. Len(Command) \in Nat /\ Len(CommandAndSum) \in Nat
  BY <1>1, LenProperties
<1>3. Len(Array \o Command) = Size + Len(Command) /\ Len(Array \o CommandAndSum) = Size + Len(CommandAndSum)
  BY <1>1, ArrayFirst
<1>4. Len(Array \o Command) # 0 /\ Len(Array \o CommandAndSum) # 0
  BY <1>2, <1>3, ArraySized
<1> QED
  BY <1>4

(* A pair is its second behind its first.                                  *)
LEMMA PairAppended ==
  ASSUME NEW m, NEW s
  PROVE  Append(<<m>>, s) = <<m, s>>
<1> DEFINE S == {m, s}
           a == Append(<<m>>, s)
           b == <<m, s>>
<1>1. <<m>> \in Seq(S) /\ b \in Seq(S) /\ s \in S
  OBVIOUS
<1>2. a \in Seq(S) /\ Len(a) = 2 /\ a[1] = m /\ a[2] = s
  BY <1>1, AppendProperties
<1>3. Len(b) = 2 /\ b[1] = m /\ b[2] = s
  OBVIOUS
<1>4. \A t \in Seq(S), u \in Seq(S) : Len(t) = Len(u) /\ (\A i \in 1..Len(t) : t[i] = u[i]) => t = u
  BY SeqEqual
<1>5. \A i \in 1..2 : i = 1 \/ i = 2
  OBVIOUS
<1> HIDE DEF S, a, b
<1>6. a = b
  BY <1>1, <1>2, <1>3, <1>4, <1>5
<1> QED
  BY <1>6 DEF a, b

(* The sum comes behind what is there.                                     *)
LEMMA SumBehind ==
  /\ Append(Array \o Command, Sum) = Array \o CommandAndSum
  /\ Append(Command, Sum) = CommandAndSum /\ Append(<< >>, Sum) = <<Sum>>
<1> DEFINE S == Nat \cup {"multiply", Sum}
<1>1. Array \in Seq(S) /\ Command \in Seq(S) /\ Sum \in S
  <2>1. Seq(Nat) \subseteq Seq(S)
    BY SeqMonotonic
  <2> QED
    BY <2>1, ArraySized DEF Command
<1>2. Append(Command, Sum) = CommandAndSum
  BY PairAppended DEF Command, CommandAndSum
<1>3. Append(<< >>, Sum) = <<Sum>>
  OBVIOUS
<1> HIDE DEF S
<1>4. Append(Array \o Command, Sum) = (Array \o Command) \o <<Sum>>
  BY <1>1, ConcatProperties, AppendIsConcat
<1>5. <<Sum>> \in Seq(S)
  BY <1>1
<1>6. (Array \o Command) \o <<Sum>> = Array \o (Command \o <<Sum>>)
  BY <1>1, <1>5, ConcatAssociative
<1>7. Command \o <<Sum>> = CommandAndSum
  BY <1>1, <1>2, AppendIsConcat
<1> QED
  BY <1>2, <1>3, <1>4, <1>6, <1>7

LEMMA ArrayAndCommand == << >> \o Append(Array, "multiply") = Array \o Command /\ << >> \o Array = Array
<1>1. Array \in Seq(Nat \cup {"multiply"})
  <2>1. Seq(Nat) \subseteq Seq(Nat \cup {"multiply"})
    BY SeqMonotonic
  <2> QED
    BY <2>1, ArraySized
<1>2. Append(Array, "multiply") = Array \o Command
  BY <1>1, AppendIsConcat DEF Command
<1>3. Array \o Command \in Seq(Nat \cup {"multiply"})
  BY <1>1, ConcatProperties DEF Command
<1> QED
  BY <1>1, <1>2, <1>3, ConcatEmptySeq

-----------------------------------------------------------------------------
(* A close drops what nobody else holds; an open sends nothing.            *)

LEMMA Reopened ==
  ASSUME NEW R, NEW W, NEW B, NEW d, NEW R2, NEW W2, NEW B2, NEW f, NEW g,
         f = [readers |-> R, writers |-> W, blocked |-> B, data |-> d],
         g = [f EXCEPT !.readers = R2, !.writers = W2, !.blocked = B2]
  PROVE  g = [readers |-> R2, writers |-> W2, blocked |-> B2, data |-> d]
OBVIOUS

LEMMA CloseDrops ==
  ASSUME NEW f, Pipe(f), NEW D, NEW g, g = Closed(f, D)
  PROVE  /\ Pipe(g) /\ g.readers = f.readers \ D
         /\ g.data \in {f.data, << >>} /\ (g.readers # {} => g.data = f.data)
<1>1. PICK h : h = [f EXCEPT !.readers = @ \ D, !.writers = @ \ D, !.blocked = @ \ D]
  OBVIOUS
<1>2. h = [f EXCEPT !.readers = f.readers \ D, !.writers = f.writers \ D, !.blocked = f.blocked \ D]
  BY <1>1 DEF Pipe
<1>3. h = [readers |-> f.readers \ D, writers |-> f.writers \ D, blocked |-> f.blocked \ D, data |-> f.data]
  BY <1>2, Reopened DEF Pipe
<1>4. g = IF h.readers \cup h.writers = {} THEN EmptyFifo ELSE h
  BY <1>1 DEF Closed
<1>5. /\ h.readers = f.readers \ D /\ h.data = f.data /\ Pipe(h)
      /\ EmptyFifo.readers = {} /\ EmptyFifo.data = << >> /\ Pipe(EmptyFifo)
  BY <1>3 DEF Pipe, EmptyFifo
<1> QED
  BY <1>4, <1>5

LEMMA ReaderComes ==
  ASSUME NEW f, Pipe(f), NEW d, NEW g, g = OpenRead(f, d)
  PROVE  Pipe(g) /\ g.data = f.data /\ g.readers = f.readers \cup {d}
BY DEF Pipe, OpenRead

LEMMA WriterComes ==
  ASSUME NEW f, Pipe(f), NEW d, NEW g, g = OpenWrite(f, d)
  PROVE  Pipe(g) /\ g.data = f.data /\ g.readers = f.readers
BY DEF Pipe, OpenWrite

LEMMA Refilled ==
  ASSUME NEW f, Pipe(f), NEW x, NEW g, g = [f EXCEPT !.data = x]
  PROVE  Pipe(g) /\ g.data = x /\ g.readers = f.readers
BY DEF Pipe

(* The names of processes and FIFOs.                                       *)
LEMMA Named == Procs = {P, C1, C2} /\ P # C1 /\ P # C2 /\ C1 # C2
BY DEF Procs, P, C1, C2

(***************************************************************************)
(* Some processes end: what child 2 has open to read stays as it is.       *)
(***************************************************************************)
LEMMA EndsPlaces ==
  ASSUME PlacesOK, UNCHANGED got, NEW D \in SUBSET Procs,
         fifo' = [n \in {"fifo1", "fifo2"} |-> fifo'[n]],
         \A n \in {"fifo1", "fifo2"} : fifo'[n] = Closed(fifo[n], D),
         pc' = [q \in Procs |-> pc'[q]],
         \A q \in Procs : pc'[q] = IF q \in D THEN "gone" ELSE pc[q]
  PROVE  PlacesOK'
<1>1. \A n \in {"fifo1", "fifo2"} :
         /\ Pipe(fifo'[n]) /\ fifo'[n].readers = fifo[n].readers \ D
         /\ fifo'[n].data \in {fifo[n].data, << >>}
         /\ (fifo'[n].readers # {} => fifo'[n].data = fifo[n].data)
  BY CloseDrops DEF PlacesOK, SumTypeOK
<1>2. SumTypeOK'
  BY <1>1, Named DEF PlacesOK, SumTypeOK, Young
<1>3. ReadersOK'
  BY <1>1, Named DEF PlacesOK, ReadersOK
<1>4. OrderOK'
  BY <1>1, Named DEF PlacesOK, ReadersOK, OrderOK, Served, Data, Before1, Before2, Behind1, Young, Added, Multiplied
<1>5. ContentOK'
  BY <1>1, Named DEF PlacesOK, ReadersOK, ContentOK, Data
<1> QED
  BY <1>2, <1>3, <1>4, <1>5 DEF PlacesOK

LEMMA ExitPlaces ==
  ASSUME PlacesOK, NEW p \in Procs, NEW reason, Exits(p, reason), UNCHANGED got
  PROVE  PlacesOK'
<1>1. /\ fifo' = [n \in {"fifo1", "fifo2"} |-> fifo'[n]]
      /\ \A n \in {"fifo1", "fifo2"} : fifo'[n] = Closed(fifo[n], {p})
      /\ pc' = [q \in Procs |-> pc'[q]]
      /\ \A q \in Procs : pc'[q] = IF q \in {p} THEN "gone" ELSE pc[q]
  BY DEF Exits, Goto, PlacesOK, SumTypeOK
<1> QED
  BY <1>1, EndsPlaces

LEMMA Moves ==
  ASSUME SumTypeOK, NEW p \in Procs, NEW l, Goto(p, l)
  PROVE  pc' = [q \in Procs |-> pc'[q]] /\ pc'[p] = l /\ \A q \in Procs \ {p} : pc'[q] = pc[q]
BY DEF SumTypeOK, Goto

(* FIFO n becomes g, and the other is as it was.                           *)
LEMMA Changes ==
  ASSUME SumTypeOK, NEW n \in {"fifo1", "fifo2"}, NEW g, Pipe(g), fifo' = [fifo EXCEPT ![n] = g]
  PROVE  /\ fifo' = [m \in {"fifo1", "fifo2"} |-> fifo'[m]]
         /\ fifo'[n] = g /\ \A m \in {"fifo1", "fifo2"} \ {n} : fifo'[m] = fifo[m]
         /\ Pipe(fifo["fifo1"])' /\ Pipe(fifo["fifo2"])'
<1>1. /\ fifo' = [m \in {"fifo1", "fifo2"} |-> fifo'[m]]
      /\ fifo'[n] = g /\ \A m \in {"fifo1", "fifo2"} \ {n} : fifo'[m] = fifo[m]
  BY DEF SumTypeOK
<1>2. Pipe(fifo'["fifo1"]) /\ Pipe(fifo'["fifo2"])
  BY <1>1 DEF SumTypeOK
<1> QED
  BY <1>1, <1>2

(***************************************************************************)
(* An open to write sends nothing.                                         *)
(***************************************************************************)
LEMMA OpenToWrite ==
  ASSUME PlacesOK, NEW p \in {P, C1}, NEW l, NEW n \in {"fifo1", "fifo2"}, NEW then, UNCHANGED got,
         CallOpen(p, l, n, OpenWrite, then),
         \/ p = P /\ l = "open2" /\ then = "write2"
         \/ p = P /\ l = "open1" /\ then = "write1"
         \/ p = C1 /\ l = "open_sum" /\ then = "write_sum"
  PROVE  PlacesOK'
<1>1. CASE \E reason : Exits(p, reason)
  BY <1>1, ExitPlaces, Named
<1>2. CASE Goto(p, then) /\ fifo' = [fifo EXCEPT ![n] = OpenWrite(@, p)]
  <2> DEFINE g == OpenWrite(fifo[n], p)
  <2>1. Pipe(g) /\ g.data = fifo[n].data /\ g.readers = fifo[n].readers
    <3>1. Pipe(fifo[n])
      BY DEF PlacesOK, SumTypeOK
    <3> QED
      BY <3>1, WriterComes
  <2>2. fifo' = [fifo EXCEPT ![n] = g]
    BY <1>2
  <2> HIDE DEF g
  <2>3. /\ fifo' = [m \in {"fifo1", "fifo2"} |-> fifo'[m]]
        /\ \A m \in {"fifo1", "fifo2"} : fifo'[m].data = fifo[m].data /\ fifo'[m].readers = fifo[m].readers
        /\ Pipe(fifo["fifo1"])' /\ Pipe(fifo["fifo2"])'
    BY <2>1, <2>2, Changes DEF PlacesOK
  <2>4. /\ pc' = [q \in Procs |-> pc'[q]] /\ pc'[p] = then /\ \A q \in Procs \ {p} : pc'[q] = pc[q]
        /\ pc[p] = l
    BY <1>2, Moves, Named DEF PlacesOK, CallOpen, At
  <2>5. SumTypeOK'
    BY <2>3, <2>4, Named DEF PlacesOK, SumTypeOK, Young, Added, Before1, Before2
  <2>6. ReadersOK'
    BY <2>3, <2>4, Named DEF PlacesOK, ReadersOK
  <2>7. OrderOK'
    BY <2>3, <2>4, Named
    DEF PlacesOK, OrderOK, Served, Data, Before1, Before2, Behind1, Young, Added, Multiplied
  <2>8. ContentOK'
    BY <2>3, <2>4, Named DEF PlacesOK, ContentOK, Data
  <2> QED
    BY <2>5, <2>6, <2>7, <2>8 DEF PlacesOK
<1> QED
  BY <1>1, <1>2 DEF CallOpen

(***************************************************************************)
(* Steps that touch no FIFO.                                               *)
(***************************************************************************)
Forward(p, l, then) ==
  \/ p = P /\ \/ l \in Before2 /\ then \in Before2
              \/ l \in Behind1 /\ then \in Behind1
  \/ p = C1 /\ l \in {"unborn", "open"} /\ then = "open"
  \/ p = C2 /\ l \in {"unborn", "open"} /\ then = "open"

LEMMA StepPlaces ==
  ASSUME PlacesOK, UNCHANGED <<fifo, got>>,
         pc' = [q \in Procs |-> pc'[q]],
         \A p \in Procs : pc'[p] = pc[p] \/ Forward(p, pc[p], pc'[p])
  PROVE  PlacesOK'
<1>1. SumTypeOK'
  BY Named DEF PlacesOK, SumTypeOK, Pipe, Forward, Young, Before1
<1>2. ReadersOK'
  BY Named DEF PlacesOK, ReadersOK, Forward
<1>3. OrderOK'
  BY Named DEF PlacesOK, OrderOK, Served, Data, Forward, Before1, Before2, Behind1, Young, Added, Multiplied
<1>4. ContentOK'
  BY Named DEF PlacesOK, ContentOK, Data, Forward
<1> QED
  BY <1>1, <1>2, <1>3, <1>4 DEF PlacesOK

-----------------------------------------------------------------------------
(* The parent.                                                             *)

LEMMA WriteFifo2Places ==
  ASSUME PlacesOK, WriteFifo2
  PROVE  PlacesOK'
<1>1. CASE \E reason : Exits(P, reason)
  BY <1>1, ExitPlaces, Named DEF WriteFifo2, Sends, childVars
<1>2. CASE ~Broken(fifo["fifo2"]) /\ Goto(P, "close2")
           /\ fifo' = [fifo EXCEPT !["fifo2"].data = @ \o Append(Array, "multiply")]
  <2>1. pc[P] = "write2" /\ UNCHANGED got /\ pc[C2] = "array"
        /\ fifo["fifo2"].data = << >> /\ fifo["fifo2"].readers = {C2}
    BY <1>2 DEF WriteFifo2, Sends, Opened, At, childVars, PlacesOK, OrderOK, ReadersOK, Data,
                Before2, Young, Broken
  <2> DEFINE g == [fifo["fifo2"] EXCEPT !.data = Array \o Command]
  <2>2. Pipe(g) /\ g.data = Array \o Command /\ g.readers = fifo["fifo2"].readers
    <3>1. Pipe(fifo["fifo2"])
      BY DEF PlacesOK, SumTypeOK
    <3>2. \A x : LET h == [fifo["fifo2"] EXCEPT !.data = x]
                 IN  Pipe(h) /\ h.data = x /\ h.readers = fifo["fifo2"].readers
      BY <3>1, Refilled
    <3> QED
      BY <3>2
  <2>3. fifo' = [fifo EXCEPT !["fifo2"] = g]
    BY <1>2, <2>1, ArrayAndCommand
  <2> HIDE DEF g
  <2>4. /\ fifo' = [m \in {"fifo1", "fifo2"} |-> fifo'[m]]
        /\ fifo'["fifo2"] = g /\ fifo'["fifo1"] = fifo["fifo1"]
        /\ Pipe(fifo["fifo1"])' /\ Pipe(fifo["fifo2"])'
    BY <2>2, <2>3, Changes DEF PlacesOK
  <2>5. /\ pc' = [q \in Procs |-> pc'[q]] /\ pc'[P] = "close2" /\ pc'[C1] = pc[C1] /\ pc'[C2] = "array"
    BY <1>2, <2>1, Moves, Named DEF PlacesOK
  <2>6. SumTypeOK'
    BY <2>1, <2>4, <2>5 DEF PlacesOK, SumTypeOK, Before1
  <2>7. ReadersOK'
    BY <2>1, <2>2, <2>4, <2>5 DEF ReadersOK
  <2>8. OrderOK'
    BY <2>1, <2>2, <2>4, <2>5, ArrayServed
    DEF PlacesOK, OrderOK, Served, Data, Before1, Before2, Behind1, Young, Multiplied
  <2>9. ContentOK'
    <3>1. pc[C1] \notin {"exit"} /\ Command # CommandAndSum
      BY <2>1 DEF PlacesOK, OrderOK, Before1, Before2, Young, Command, CommandAndSum
    <3>2. Array \o Command # Array \o CommandAndSum
      BY ArrayFirst, <3>1 DEF Command, CommandAndSum
    <3> QED
      BY <2>2, <2>4, <2>5, <3>1, <3>2 DEF ContentOK, Data
  <2> QED
    BY <2>6, <2>7, <2>8, <2>9 DEF PlacesOK
<1> QED
  BY <1>1, <1>2 DEF WriteFifo2, Sends

LEMMA WriteFifo1Places ==
  ASSUME PlacesOK, WriteFifo1
  PROVE  PlacesOK'
<1>1. CASE \E reason : Exits(P, reason)
  BY <1>1, ExitPlaces, Named DEF WriteFifo1, Sends, childVars
<1>2. CASE Goto(P, "close1") /\ fifo' = [fifo EXCEPT !["fifo1"].data = @ \o Array]
  <2>1. pc[P] = "write1" /\ UNCHANGED got /\ fifo["fifo1"].data = << >>
    BY <1>2 DEF WriteFifo1, Sends, Opened, At, childVars, PlacesOK, OrderOK, Data, Before1
  <2> DEFINE g == [fifo["fifo1"] EXCEPT !.data = Array]
  <2>2. Pipe(g) /\ g.data = Array
    BY Refilled DEF PlacesOK, SumTypeOK
  <2>3. fifo' = [fifo EXCEPT !["fifo1"] = g]
    BY <1>2, <2>1, ArrayAndCommand
  <2> HIDE DEF g
  <2>4. /\ fifo' = [m \in {"fifo1", "fifo2"} |-> fifo'[m]]
        /\ fifo'["fifo1"] = g /\ fifo'["fifo2"] = fifo["fifo2"]
        /\ Pipe(fifo["fifo1"])' /\ Pipe(fifo["fifo2"])'
    BY <2>2, <2>3, Changes DEF PlacesOK
  <2>5. /\ pc' = [q \in Procs |-> pc'[q]] /\ pc'[P] = "close1" /\ pc'[C1] = pc[C1] /\ pc'[C2] = pc[C2]
    BY <1>2, <2>1, Moves, Named DEF PlacesOK
  <2>6. SumTypeOK'
    BY <2>1, <2>4, <2>5 DEF PlacesOK, SumTypeOK, Behind1
  <2>7. ReadersOK'
    BY <2>4, <2>5 DEF PlacesOK, ReadersOK
  <2>8. OrderOK'
    BY <2>1, <2>2, <2>4, <2>5
    DEF PlacesOK, OrderOK, Served, Data, Before1, Before2, Behind1, Young, Added, Multiplied
  <2>9. ContentOK'
    BY <2>4, <2>5 DEF PlacesOK, ContentOK, Data
  <2> QED
    BY <2>6, <2>7, <2>8, <2>9 DEF PlacesOK
<1> QED
  BY <1>1, <1>2 DEF WriteFifo1, Sends

(* A close of the parent leaves what child 2 reads.                        *)
LEMMA CloseFifoPlaces ==
  ASSUME PlacesOK, NEW l, NEW n \in {"fifo1", "fifo2"}, NEW then, CloseFifo(l, n, then),
         <<l, n, then>> \in {<<"close2", "fifo2", "open1">>, <<"close1", "fifo1", "test">>}
  PROVE  PlacesOK'
<1> DEFINE g == Closed(fifo[n], {P})
<1>1. fifo' = [fifo EXCEPT ![n] = g] /\ UNCHANGED got /\ pc[P] = l /\ Goto(P, then)
  BY DEF CloseFifo, CloseOf, At, childVars
<1>2. /\ Pipe(g) /\ g.readers = fifo[n].readers \ {P}
      /\ g.data \in {fifo[n].data, << >>} /\ (g.readers # {} => g.data = fifo[n].data)
  BY CloseDrops DEF PlacesOK, SumTypeOK
<1> HIDE DEF g
<1>3. /\ fifo' = [m \in {"fifo1", "fifo2"} |-> fifo'[m]]
      /\ fifo'[n] = g /\ \A m \in {"fifo1", "fifo2"} \ {n} : fifo'[m] = fifo[m]
      /\ Pipe(fifo["fifo1"])' /\ Pipe(fifo["fifo2"])'
  BY <1>1, <1>2, Changes DEF PlacesOK
<1>4. /\ pc' = [q \in Procs |-> pc'[q]] /\ pc'[P] = then /\ pc'[C1] = pc[C1] /\ pc'[C2] = pc[C2]
  BY <1>1, Moves, Named DEF PlacesOK
<1>5. SumTypeOK'
  BY <1>1, <1>3, <1>4 DEF PlacesOK, SumTypeOK, Before1, Before2, Behind1
<1>6. ReadersOK'
  BY <1>1, <1>2, <1>3, <1>4, Named DEF PlacesOK, ReadersOK
<1>7. OrderOK'
  BY <1>1, <1>2, <1>3, <1>4, Named
  DEF PlacesOK, ReadersOK, OrderOK, Served, Data, Before1, Before2, Behind1, Young, Added, Multiplied
<1>8. ContentOK'
  BY <1>1, <1>2, <1>3, <1>4, Named DEF PlacesOK, ReadersOK, ContentOK, Data
<1> QED
  BY <1>5, <1>6, <1>7, <1>8 DEF PlacesOK

LEMMA ParentPlaces ==
  ASSUME PlacesOK, BirthOK, ParentStep \/ ArrayFails \/ ForkFails \/ SigChld
  PROVE  PlacesOK'
<1>1. CASE DrawArray \/ Fork2 \/ Fork1
  <2>1. /\ UNCHANGED <<fifo, got>> /\ pc' = [q \in Procs |-> pc'[q]]
        /\ \/ pc[P] = "fork2" /\ pc[C2] = "unborn" /\ pc'[P] = "fork1" /\ pc'[C2] = "open" /\ pc'[C1] = pc[C1]
           \/ pc[P] = "fork1" /\ pc[C1] = "unborn" /\ pc'[P] = "open2" /\ pc'[C1] = "open" /\ pc'[C2] = pc[C2]
           \/ pc[P] = "draw" /\ pc'[P] = "fork2" /\ pc'[C1] = pc[C1] /\ pc'[C2] = pc[C2]
    BY <1>1, Named DEF DrawArray, Goto, Fork2, Fork1, At, childVars, PlacesOK, SumTypeOK, BirthOK
  <2>2. \A p \in Procs : pc'[p] = pc[p] \/ Forward(p, pc[p], pc'[p])
    BY <2>1, Named DEF Forward, Before2
  <2> QED
    BY <2>1, <2>2, StepPlaces
<1>2. CASE Sleep
  <2>1. UNCHANGED <<fifo, got>> /\ pc[P] = "sleep" /\ \E l \in {"timeout", "test"} : Goto(P, l)
    BY <1>2 DEF Sleep, At, childVars
  <2>2. PICK l \in {"timeout", "test"} : Goto(P, l)
    BY <2>1
  <2>3. pc' = [q \in Procs |-> pc'[q]] /\ pc'[P] = l /\ pc'[C1] = pc[C1] /\ pc'[C2] = pc[C2]
    BY <2>2, Moves, Named DEF PlacesOK
  <2>4. \A p \in Procs : pc'[p] = pc[p] \/ Forward(p, pc[p], pc'[p])
    BY <2>1, <2>3, Named DEF Forward, Behind1
  <2> QED
    BY <2>1, <2>3, <2>4, StepPlaces
<1>3. CASE TestCounter
  <2>1. CASE Exits(P, "finished")
    BY <1>3, <2>1, ExitPlaces, Named DEF TestCounter, childVars
  <2>2. CASE Goto(P, "sleep") /\ UNCHANGED fifo
    <3>1. /\ UNCHANGED <<fifo, got>> /\ pc[P] = "test" /\ pc' = [q \in Procs |-> pc'[q]]
          /\ pc'[P] = "sleep" /\ pc'[C1] = pc[C1] /\ pc'[C2] = pc[C2]
      BY <1>3, <2>2, Moves, Named DEF TestCounter, At, childVars, PlacesOK
    <3>2. \A p \in Procs : pc'[p] = pc[p] \/ Forward(p, pc[p], pc'[p])
      BY <3>1, Named DEF Forward, Behind1
    <3> QED
      BY <3>1, <3>2, StepPlaces
  <2> QED
    BY <1>3, <2>1, <2>2 DEF TestCounter
<1>4. CASE ArrayFails \/ ForkFails
  BY <1>4, ExitPlaces, Named DEF ArrayFails, ForkFails, childVars
<1>5. CASE OpenFifo2 \/ OpenFifo1
  BY <1>5, OpenToWrite DEF OpenFifo2, OpenFifo1, childVars
<1>6. CASE WriteFifo2
  BY <1>6, WriteFifo2Places
<1>7. CASE WriteFifo1
  BY <1>7, WriteFifo1Places
<1>8. CASE CloseFifo2 \/ CloseFifo1
  BY <1>8, CloseFifoPlaces DEF CloseFifo2, CloseFifo1
<1>9. CASE Timeout
  <2>1. /\ fifo' = [n \in {"fifo1", "fifo2"} |-> fifo'[n]]
        /\ \A n \in {"fifo1", "fifo2"} : fifo'[n] = Closed(fifo[n], {P, C1})
        /\ pc' = [q \in Procs |-> pc'[q]] /\ pc'[P] = "gone" /\ pc'[C1] = "gone" /\ pc'[C2] = pc[C2]
        /\ UNCHANGED got
    BY <1>9, Named DEF Timeout, childVars, PlacesOK, SumTypeOK
  <2>2. {P, C1} \in SUBSET Procs /\ \A q \in Procs : pc'[q] = IF q \in {P, C1} THEN "gone" ELSE pc[q]
    BY <2>1, Named
  <2> QED
    BY <2>1, <2>2, EndsPlaces
<1>10. CASE SigChld
  <2>1. CASE UNCHANGED <<pc, fifo>>
    <3>1. pc' = [q \in Procs |-> pc'[q]] /\ UNCHANGED got
      BY <1>10, <2>1 DEF PlacesOK, SumTypeOK, SigChld, childVars
    <3> QED
      BY <2>1, <3>1, StepPlaces
  <2>2. CASE Goto(P, "gone") /\ fifo' = [n \in DOMAIN fifo |-> Closed(fifo[n], {P})]
    <3>1. /\ fifo' = [n \in {"fifo1", "fifo2"} |-> fifo'[n]]
          /\ \A n \in {"fifo1", "fifo2"} : fifo'[n] = Closed(fifo[n], {P})
          /\ pc' = [q \in Procs |-> pc'[q]] /\ pc'[P] = "gone" /\ pc'[C1] = pc[C1] /\ pc'[C2] = pc[C2]
          /\ UNCHANGED got
      BY <1>10, <2>2, Moves, Named DEF SigChld, childVars, PlacesOK, SumTypeOK
    <3>2. {P} \in SUBSET Procs /\ \A q \in Procs : pc'[q] = IF q \in {P} THEN "gone" ELSE pc[q]
      BY <3>1, Named
    <3> QED
      BY <3>1, <3>2, EndsPlaces
  <2> QED
    BY <1>10, <2>1, <2>2 DEF SigChld
<1> QED
  BY <1>1, <1>2, <1>3, <1>4, <1>5, <1>6, <1>7, <1>8, <1>9, <1>10 DEF ParentStep

-----------------------------------------------------------------------------
(* The children.                                                           *)

LEMMA OpenArrayPlaces ==
  ASSUME PlacesOK, NEW c \in {C1, C2}, OpenArray(c)
  PROVE  PlacesOK'
<1> DEFINE n == IF c = C1 THEN "fifo1" ELSE "fifo2"
           g == OpenRead(fifo[n], c)
<1>1. CASE \E reason : Exits(c, reason)
  BY <1>1, ExitPlaces, Named DEF OpenArray, childVars
<1>2. CASE Goto(c, "array") /\ fifo' = [fifo EXCEPT ![n] = OpenRead(@, c)]
  <2>1. n \in {"fifo1", "fifo2"} /\ Pipe(fifo[n]) /\ UNCHANGED got /\ pc[c] = "open"
    BY DEF OpenArray, CallOpen, At, childVars, PlacesOK, SumTypeOK
  <2>2. Pipe(g) /\ g.data = fifo[n].data /\ g.readers = fifo[n].readers \cup {c}
    BY <2>1, ReaderComes
  <2>3. fifo' = [fifo EXCEPT ![n] = g]
    BY <1>2
  <2>4. n = "fifo2" <=> c = C2
    BY Named
  <2> HIDE DEF g, n
  <2>5. /\ fifo' = [m \in {"fifo1", "fifo2"} |-> fifo'[m]]
        /\ fifo'[n] = g /\ \A m \in {"fifo1", "fifo2"} \ {n} : fifo'[m] = fifo[m]
        /\ Pipe(fifo["fifo1"])' /\ Pipe(fifo["fifo2"])'
    BY <2>1, <2>2, <2>3, Changes DEF PlacesOK
  <2>6. /\ fifo'["fifo1"].data = fifo["fifo1"].data /\ fifo'["fifo2"].data = fifo["fifo2"].data
        /\ fifo'["fifo2"].readers = IF c = C2 THEN fifo["fifo2"].readers \cup {C2} ELSE fifo["fifo2"].readers
    BY <2>1, <2>2, <2>4, <2>5
  <2>7. /\ pc' = [q \in Procs |-> pc'[q]] /\ pc'[c] = "array" /\ \A q \in Procs \ {c} : pc'[q] = pc[q]
    BY <1>2, Moves, Named DEF PlacesOK
  <2>8. SumTypeOK'
    BY <2>1, <2>5, <2>7, Named DEF PlacesOK, SumTypeOK, Young
  <2>9. ReadersOK'
    BY <2>1, <2>6, <2>7, Named DEF PlacesOK, ReadersOK
  <2>10. OrderOK'
    BY <2>1, <2>6, <2>7, Named
    DEF PlacesOK, OrderOK, Served, Data, Before1, Before2, Behind1, Young, Added, Multiplied
  <2>11. ContentOK'
    BY <2>1, <2>6, <2>7, ArrayServed, Named DEF PlacesOK, ContentOK, Data
  <2> QED
    BY <2>8, <2>9, <2>10, <2>11 DEF PlacesOK
<1> QED
  BY <1>1, <1>2 DEF OpenArray, CallOpen

LEMMA Child1Reads ==
  ASSUME PlacesOK, ReadArray(C1, "fifo1", "close")
  PROVE  PlacesOK'
<1>1. /\ pc[C1] = "array" /\ Goto(C1, "close") /\ Len(fifo["fifo1"].data) >= Size
      /\ got' = [got EXCEPT ![C1] = SubSeq(fifo["fifo1"].data, 1, Size)]
      /\ fifo' = [fifo EXCEPT !["fifo1"].data = SubSeq(@, Size + 1, Len(@))]
  BY DEF ReadArray, Opened, At, Numbers
<1>2. fifo["fifo1"].data = Array /\ Served
  <2>1. Len(<< >>) = 0 /\ ~(0 >= Size)
    BY ArraySized
  <2>2. fifo["fifo1"].data # << >>
    BY <1>1, <2>1
  <2> QED
    BY <2>2 DEF PlacesOK, OrderOK, Data
<1>3. got' = [got EXCEPT ![C1] = Array] /\ fifo' = [fifo EXCEPT !["fifo1"].data = << >>]
  BY <1>1, <1>2, ArraySized
<1> DEFINE g == [fifo["fifo1"] EXCEPT !.data = << >>]
<1>4. Pipe(g) /\ g.data = << >>
  BY Refilled DEF PlacesOK, SumTypeOK
<1>5. fifo' = [fifo EXCEPT !["fifo1"] = g]
  BY <1>3
<1> HIDE DEF g
<1>6. /\ fifo' = [m \in {"fifo1", "fifo2"} |-> fifo'[m]]
      /\ fifo'["fifo1"] = g /\ fifo'["fifo2"] = fifo["fifo2"]
      /\ Pipe(fifo["fifo1"])' /\ Pipe(fifo["fifo2"])'
  BY <1>4, <1>5, Changes DEF PlacesOK
<1>7. /\ pc' = [q \in Procs |-> pc'[q]] /\ pc'[C1] = "close" /\ pc'[P] = pc[P] /\ pc'[C2] = pc[C2]
  BY <1>1, Moves, Named DEF PlacesOK
<1>8. got' = [c \in {C1, C2} |-> got'[c]] /\ got'[C1] = Array /\ got'[C2] = got[C2]
  BY <1>3, Named DEF PlacesOK, SumTypeOK
<1>9. SumTypeOK'
  BY <1>6, <1>7, <1>8 DEF PlacesOK, SumTypeOK, Added
<1>10. ReadersOK'
  BY <1>6, <1>7 DEF PlacesOK, ReadersOK
<1>11. OrderOK'
  <2>1. pc[P] \notin Before1
    BY <1>2, ArraySized DEF PlacesOK, OrderOK, Data
  <2> QED
    BY <1>2, <1>4, <1>6, <1>7, <1>8, <2>1
    DEF PlacesOK, OrderOK, Served, Data, Before1, Before2
<1>12. ContentOK'
  BY <1>1, <1>6, <1>7 DEF PlacesOK, ContentOK, Data
<1> QED
  BY <1>9, <1>10, <1>11, <1>12 DEF PlacesOK

LEMMA CloseArrayPlaces ==
  ASSUME PlacesOK, CloseArray
  PROVE  PlacesOK'
<1> DEFINE g == Closed(fifo["fifo1"], {C1})
<1>1. fifo' = [fifo EXCEPT !["fifo1"] = g] /\ UNCHANGED got /\ pc[C1] = "close" /\ Goto(C1, "open_sum")
  BY DEF CloseArray, CloseOf, At, childVars
<1>2. Pipe(g) /\ g.data \in {fifo["fifo1"].data, << >>}
  BY CloseDrops DEF PlacesOK, SumTypeOK
<1> HIDE DEF g
<1>3. /\ fifo' = [m \in {"fifo1", "fifo2"} |-> fifo'[m]]
      /\ fifo'["fifo1"] = g /\ fifo'["fifo2"] = fifo["fifo2"]
      /\ Pipe(fifo["fifo1"])' /\ Pipe(fifo["fifo2"])'
  BY <1>1, <1>2, Changes DEF PlacesOK
<1>4. /\ pc' = [q \in Procs |-> pc'[q]] /\ pc'[C1] = "open_sum" /\ pc'[P] = pc[P] /\ pc'[C2] = pc[C2]
  BY <1>1, Moves, Named DEF PlacesOK
<1>5. SumTypeOK'
  BY <1>1, <1>3, <1>4 DEF PlacesOK, SumTypeOK, Added
<1>6. ReadersOK'
  BY <1>3, <1>4 DEF PlacesOK, ReadersOK
<1>7. OrderOK'
  BY <1>1, <1>2, <1>3, <1>4
  DEF PlacesOK, OrderOK, Served, Data, Before1, Before2, Behind1, Young, Added, Multiplied
<1>8. ContentOK'
  BY <1>1, <1>3, <1>4 DEF PlacesOK, ContentOK, Data
<1> QED
  BY <1>5, <1>6, <1>7, <1>8 DEF PlacesOK

(* The sum comes behind what child 2 has not yet taken.                    *)
LEMMA WriteSumPlaces ==
  ASSUME PlacesOK, WriteSum
  PROVE  PlacesOK'
<1>1. CASE Exits(C1, "sigpipe")
  BY <1>1, ExitPlaces, Named DEF WriteSum, childVars
<1>2. CASE ~Broken(fifo["fifo2"]) /\ Goto(C1, "exit")
           /\ fifo' = [fifo EXCEPT !["fifo2"] = Written(@, Total(got[C1]))]
  <2>1. pc[C1] = "write_sum" /\ UNCHANGED got /\ got[C1] = Array /\ Served
    BY DEF WriteSum, Opened, At, childVars, PlacesOK, OrderOK, Added
  <2>2. pc[C2] \in {"array", "command", "close", "read_sum", "print"}
    BY <1>2 DEF Broken, PlacesOK, ReadersOK
  <2>3. pc[C2] = "array" => Data("fifo2") = Array \o Command
    BY <2>1 DEF Served, Multiplied, PlacesOK, ContentOK
  <2>4. /\ pc[C2] = "command" => Data("fifo2") = Command
        /\ pc[C2] \in {"close", "read_sum"} => Data("fifo2") = << >>
    BY <2>1 DEF PlacesOK, ContentOK
  <2> DEFINE x == Append(fifo["fifo2"].data, Sum)
             g == [fifo["fifo2"] EXCEPT !.data = x]
  <2>5. fifo' = [fifo EXCEPT !["fifo2"] = g]
    BY <1>2, <2>1 DEF Written, Sum
  <2>6. /\ pc[C2] = "array" => x = Array \o CommandAndSum
        /\ pc[C2] = "command" => x = CommandAndSum
        /\ pc[C2] \in {"close", "read_sum"} => x = <<Sum>>
    BY <2>3, <2>4, SumBehind DEF Data
  <2> HIDE DEF x
  <2>7. Pipe(g) /\ g.data = x /\ g.readers = fifo["fifo2"].readers
    <3>1. Pipe(fifo["fifo2"])
      BY DEF PlacesOK, SumTypeOK
    <3> QED
      BY <3>1, Refilled
  <2> HIDE DEF g
  <2>8. /\ fifo' = [m \in {"fifo1", "fifo2"} |-> fifo'[m]]
        /\ fifo'["fifo2"] = g /\ fifo'["fifo1"] = fifo["fifo1"]
        /\ Pipe(fifo["fifo1"])' /\ Pipe(fifo["fifo2"])'
    BY <2>5, <2>7, Changes DEF PlacesOK
  <2>9. /\ pc' = [q \in Procs |-> pc'[q]] /\ pc'[C1] = "exit" /\ pc'[P] = pc[P] /\ pc'[C2] = pc[C2]
    BY <1>2, Moves, Named DEF PlacesOK
  <2>10. SumTypeOK'
    BY <2>1, <2>8, <2>9 DEF PlacesOK, SumTypeOK, Added
  <2>11. ReadersOK'
    BY <2>7, <2>8, <2>9 DEF PlacesOK, ReadersOK
  <2>12. x # << >> \/ pc[C2] # "array"
    BY <2>6, ArrayServed
  <2>13. pc[P] \notin Before2 /\ pc[P] \notin Before1
    BY <2>1 DEF PlacesOK, OrderOK, Before1, Before2, Young
  <2>14. OrderOK'
    BY <2>1, <2>2, <2>7, <2>8, <2>9, <2>12, <2>13
    DEF PlacesOK, OrderOK, Served, Data, Added, Multiplied
  <2>15. ContentOK'
    BY <2>2, <2>6, <2>7, <2>8, <2>9 DEF ContentOK, Data
  <2> QED
    BY <2>10, <2>11, <2>14, <2>15 DEF PlacesOK
<1> QED
  BY <1>1, <1>2 DEF WriteSum

LEMMA Child1Places ==
  ASSUME PlacesOK, ChildStep(C1)
  PROVE  PlacesOK'
<1>1. CASE OpenArray(C1)
  BY <1>1, OpenArrayPlaces
<1>2. CASE ReadArray(C1, "fifo1", "close")
  BY <1>2, Child1Reads
<1>3. CASE CloseArray
  BY <1>3, CloseArrayPlaces
<1>4. CASE OpenSumToWrite
  BY <1>4, OpenToWrite DEF OpenSumToWrite, childVars
<1>5. CASE WriteSum
  BY <1>5, WriteSumPlaces
<1>6. CASE Child1Exits
  BY <1>6, ExitPlaces, Named DEF Child1Exits, childVars
<1> QED
  BY <1>1, <1>2, <1>3, <1>4, <1>5, <1>6, Named DEF ChildStep

(* Child 2 takes the array, and leaves the command, or the command and the *)
(* sum.                                                                    *)
LEMMA Child2Reads ==
  ASSUME PlacesOK, ReadArray(C2, "fifo2", "command")
  PROVE  PlacesOK'
<1> DEFINE data == fifo["fifo2"].data
           x == SubSeq(data, Size + 1, Len(data))
           g == [fifo["fifo2"] EXCEPT !.data = x]
<1>1. /\ pc[C2] = "array" /\ Goto(C2, "command") /\ Len(data) >= Size
      /\ got' = [got EXCEPT ![C2] = SubSeq(data, 1, Size)]
      /\ fifo' = [fifo EXCEPT !["fifo2"] = g]
  BY DEF ReadArray, Opened, At, Numbers
<1>2. data \in {<< >>, Array \o Command, Array \o CommandAndSum}
  BY <1>1 DEF PlacesOK, ContentOK, Data
<1>3. /\ SubSeq(data, 1, Size) = Array /\ data # << >>
      /\ data = Array \o Command => x = Command
      /\ data = Array \o CommandAndSum => x = CommandAndSum
  BY <1>1, <1>2, ArrayRead
<1>4. Pipe(g) /\ g.data = x /\ g.readers = fifo["fifo2"].readers
  <2>1. Pipe(fifo["fifo2"])
    BY DEF PlacesOK, SumTypeOK
  <2>2. \A y : LET h == [fifo["fifo2"] EXCEPT !.data = y]
               IN  Pipe(h) /\ h.data = y /\ h.readers = fifo["fifo2"].readers
    BY <2>1, Refilled
  <2> QED
    BY <2>2
<1>5. pc[C1] \notin {"exit", "gone"} => x = Command
  BY <1>1, <1>2, <1>3 DEF PlacesOK, ContentOK, Data
<1>6. x \in {Command, CommandAndSum} /\ pc[P] \notin Before2
  BY <1>2, <1>3 DEF PlacesOK, OrderOK, Data
<1> HIDE DEF g, x
<1>7. /\ fifo' = [m \in {"fifo1", "fifo2"} |-> fifo'[m]]
      /\ fifo'["fifo2"] = g /\ fifo'["fifo1"] = fifo["fifo1"]
      /\ Pipe(fifo["fifo1"])' /\ Pipe(fifo["fifo2"])'
  BY <1>1, <1>4, Changes DEF PlacesOK
<1>8. /\ pc' = [q \in Procs |-> pc'[q]] /\ pc'[C2] = "command" /\ pc'[P] = pc[P] /\ pc'[C1] = pc[C1]
  BY <1>1, Moves, Named DEF PlacesOK
<1>9. got' = [c \in {C1, C2} |-> got'[c]] /\ got'[C2] = Array /\ got'[C1] = got[C1]
  BY <1>1, <1>3, Named DEF PlacesOK, SumTypeOK
<1>10. SumTypeOK'
  BY <1>7, <1>8, <1>9 DEF PlacesOK, SumTypeOK, Multiplied
<1>11. ReadersOK'
  BY <1>1, <1>4, <1>7, <1>8 DEF PlacesOK, ReadersOK
<1>12. OrderOK'
  BY <1>6, <1>7, <1>8, <1>9 DEF PlacesOK, OrderOK, Served, Data, Multiplied
<1>13. ContentOK'
  BY <1>4, <1>5, <1>6, <1>7, <1>8 DEF ContentOK, Data
<1> QED
  BY <1>10, <1>11, <1>12, <1>13 DEF PlacesOK

(* Child 2 goes on with FIFO2, and leaves or empties it.                   *)
LEMMA Child2Goes ==
  ASSUME PlacesOK, NEW g, Pipe(g), fifo' = [fifo EXCEPT !["fifo2"] = g], UNCHANGED got,
         NEW l, Goto(C2, l),
         \/ /\ pc[C2] = "command" /\ l = "close"
            /\ g.data = << >> /\ g.readers = fifo["fifo2"].readers
         \/ /\ pc[C2] = "close" /\ l = "open_sum"
            /\ g.data \in {fifo["fifo2"].data, << >>} /\ g.readers = fifo["fifo2"].readers \ {C2}
         \/ /\ pc[C2] = "open_sum" /\ l = "read_sum"
            /\ g.data = fifo["fifo2"].data /\ g.readers = fifo["fifo2"].readers \cup {C2}
         \/ /\ pc[C2] = "read_sum" /\ l = "print" /\ g.readers = fifo["fifo2"].readers
  PROVE  PlacesOK'
<1>1. /\ fifo' = [m \in {"fifo1", "fifo2"} |-> fifo'[m]]
      /\ fifo'["fifo2"] = g /\ fifo'["fifo1"] = fifo["fifo1"]
      /\ Pipe(fifo["fifo1"])' /\ Pipe(fifo["fifo2"])'
  BY Changes DEF PlacesOK
<1>2. /\ pc' = [q \in Procs |-> pc'[q]] /\ pc'[C2] = l /\ pc'[P] = pc[P] /\ pc'[C1] = pc[C1]
  BY Moves, Named DEF PlacesOK
<1>3. SumTypeOK'
  BY <1>1, <1>2 DEF PlacesOK, SumTypeOK, Multiplied
<1>4. ReadersOK'
  BY <1>1, <1>2 DEF PlacesOK, ReadersOK
<1>5. OrderOK'
  BY <1>1, <1>2 DEF PlacesOK, OrderOK, Served, Data, Young, Multiplied
<1>6. ContentOK'
  BY <1>1, <1>2 DEF PlacesOK, ContentOK, Data
<1> QED
  BY <1>3, <1>4, <1>5, <1>6 DEF PlacesOK

LEMMA Child2Places ==
  ASSUME PlacesOK, ChildStep(C2) \/ MallocFails
  PROVE  PlacesOK'
<1> DEFINE f == fifo["fifo2"]
<1>1. Pipe(f)
  BY DEF PlacesOK, SumTypeOK
<1>2. CASE OpenArray(C2)
  BY <1>2, OpenArrayPlaces
<1>3. CASE ReadArray(C2, "fifo2", "command")
  BY <1>3, Child2Reads
<1>4. CASE MallocFails
  BY <1>4, ExitPlaces, Named DEF MallocFails, childVars
<1>5. CASE ReadCommand
  <2>1. CASE Exits(C2, "failed")
    BY <1>5, <2>1, ExitPlaces, Named DEF ReadCommand, childVars
  <2>2. CASE Goto(C2, "close") /\ fifo' = [fifo EXCEPT !["fifo2"] = Drained(@)]
    <3>1. Pipe(Drained(f)) /\ Drained(f).data = << >> /\ Drained(f).readers = f.readers
      BY <1>1, Refilled DEF Drained
    <3>2. fifo' = [fifo EXCEPT !["fifo2"] = Drained(f)] /\ UNCHANGED got /\ pc[C2] = "command"
      BY <1>5, <2>2 DEF ReadCommand, Opened, At, childVars
    <3> QED
      BY <2>2, <3>1, <3>2, Child2Goes
  <2> QED
    BY <1>5, <2>1, <2>2 DEF ReadCommand
<1>6. CASE CloseCommand
  <2>1. Pipe(Closed(f, {C2})) /\ Closed(f, {C2}).readers = f.readers \ {C2} /\ Closed(f, {C2}).data \in {f.data, << >>}
    BY <1>1, CloseDrops
  <2>2. fifo' = [fifo EXCEPT !["fifo2"] = Closed(f, {C2})] /\ UNCHANGED got /\ pc[C2] = "close" /\ Goto(C2, "open_sum")
    BY <1>6 DEF CloseCommand, CloseOf, At, childVars
  <2> QED
    BY <2>1, <2>2, Child2Goes
<1>7. CASE OpenSumToRead
  <2>1. CASE Exits(C2, "failed")
    BY <1>7, <2>1, ExitPlaces, Named DEF OpenSumToRead, childVars
  <2>2. CASE Goto(C2, "read_sum") /\ fifo' = [fifo EXCEPT !["fifo2"] = OpenRead(@, C2)]
    <3>1. Pipe(OpenRead(f, C2)) /\ OpenRead(f, C2).data = f.data /\ OpenRead(f, C2).readers = f.readers \cup {C2}
      BY <1>1, ReaderComes
    <3>2. fifo' = [fifo EXCEPT !["fifo2"] = OpenRead(f, C2)] /\ UNCHANGED got /\ pc[C2] = "open_sum"
      BY <1>7, <2>2 DEF OpenSumToRead, CallOpen, At, childVars
    <3> QED
      BY <2>2, <3>1, <3>2, Child2Goes
  <2> QED
    BY <1>7, <2>1, <2>2 DEF OpenSumToRead, CallOpen
<1>8. CASE ReadSum
  <2> DEFINE g == [f EXCEPT !.data = SubSeq(f.data, 2, Len(f.data))]
  <2>1. Pipe(g) /\ g.readers = f.readers
    <3>1. \A y : LET h == [f EXCEPT !.data = y] IN  Pipe(h) /\ h.data = y /\ h.readers = f.readers
      BY <1>1, Refilled
    <3> QED
      BY <3>1
  <2>2. fifo' = [fifo EXCEPT !["fifo2"] = g] /\ UNCHANGED got /\ pc[C2] = "read_sum" /\ Goto(C2, "print")
    BY <1>8 DEF ReadSum, Opened, At
  <2> HIDE DEF g
  <2> QED
    BY <2>1, <2>2, Child2Goes
<1>9. CASE PrintResults
  BY <1>9, ExitPlaces, Named DEF PrintResults
<1> QED
  BY <1>2, <1>3, <1>4, <1>5, <1>6, <1>7, <1>8, <1>9, Named DEF ChildStep

-----------------------------------------------------------------------------
(* Births.  Who moves or ends has been forked, and is not forked again.    *)

LEMMA MoveBirth ==
  ASSUME SumTypeOK, BirthOK, NEW p \in Procs, NEW l, Goto(p, l), ctrl_c' \subseteq ctrl_c,
         pc[p] # "unborn", l \notin {"unborn", "draw", "fork2", "fork1"}
  PROVE  BirthOK'
<1>1. pc' = [q \in Procs |-> pc'[q]] /\ pc'[p] = l /\ \A q \in Procs \ {p} : pc'[q] = pc[q]
  BY Moves
<1> QED
  BY <1>1, Named DEF BirthOK

LEMMA ExitBirth ==
  ASSUME SumTypeOK, BirthOK, NEW p \in Procs, NEW reason, Exits(p, reason), pc[p] # "unborn"
  PROVE  BirthOK'
<1>1. Goto(p, "gone") /\ ctrl_c' \subseteq ctrl_c
  BY DEF Exits
<1> QED
  BY <1>1, MoveBirth

LEMMA ParentBirth ==
  ASSUME SumTypeOK, BirthOK, ParentStep \/ ArrayFails \/ ForkFails \/ SigChld
  PROVE  BirthOK'
<1>1. P \in Procs
  BY Named
<1>2. CASE DrawArray \/ Fork2 \/ Fork1
  <2>1. /\ UNCHANGED ctrl_c /\ pc' = [q \in Procs |-> pc'[q]]
        /\ \/ pc[P] = "fork2" /\ pc'[P] = "fork1" /\ pc'[C2] = "open" /\ pc'[C1] = pc[C1]
           \/ pc'[P] = "open2" /\ pc'[C1] = "open" /\ pc'[C2] = pc[C2]
           \/ pc[P] = "draw" /\ pc'[P] = "fork2" /\ pc'[C1] = pc[C1] /\ pc'[C2] = pc[C2]
    BY <1>2, Named DEF DrawArray, Goto, Fork2, Fork1, At, SumTypeOK
  <2> QED
    BY <2>1, Named DEF BirthOK
<1>3. CASE ArrayFails \/ ForkFails \/ TestCounter \/ Sleep
  BY <1>1, <1>3, MoveBirth, ExitBirth DEF ArrayFails, ForkFails, TestCounter, Sleep, At
<1>4. CASE OpenFifo2 \/ OpenFifo1
  BY <1>1, <1>4, MoveBirth, ExitBirth DEF OpenFifo2, OpenFifo1, CallOpen, At
<1>5. CASE WriteFifo2 \/ WriteFifo1
  BY <1>1, <1>5, MoveBirth, ExitBirth DEF WriteFifo2, WriteFifo1, Sends, Opened, At
<1>6. CASE CloseFifo2 \/ CloseFifo1
  BY <1>1, <1>6, MoveBirth DEF CloseFifo2, CloseFifo1, CloseFifo, At
<1>7. CASE Timeout
  <2>1. /\ pc' = [q \in Procs |-> pc'[q]] /\ pc'[P] = "gone" /\ pc'[C1] = "gone" /\ pc'[C2] = pc[C2]
        /\ ctrl_c' \subseteq ctrl_c
    BY <1>7, Named DEF Timeout, SumTypeOK
  <2> QED
    BY <2>1, Named DEF BirthOK
<1>8. CASE SigChld
  <2>1. UNCHANGED ctrl_c /\ (UNCHANGED pc \/ Goto(P, "gone"))
    BY <1>8 DEF SigChld
  <2>2. CASE UNCHANGED pc
    BY <2>1, <2>2 DEF BirthOK
  <2>3. CASE Goto(P, "gone")
    <3>1. pc[P] # "unborn"
      BY DEF SumTypeOK, Before1, Before2, Behind1
    <3> QED
      BY <1>1, <2>1, <2>3, <3>1, MoveBirth
  <2> QED
    BY <2>1, <2>2, <2>3
<1> QED
  BY <1>2, <1>3, <1>4, <1>5, <1>6, <1>7, <1>8 DEF ParentStep

LEMMA ChildBirth ==
  ASSUME SumTypeOK, BirthOK, NEW c \in {C1, C2}, ChildStep(c) \/ MallocFails
  PROVE  BirthOK'
<1>1. C1 \in Procs /\ C2 \in Procs /\ c \in Procs
  BY Named
<1>2. CASE OpenArray(c) \/ OpenSumToWrite \/ OpenSumToRead
  BY <1>1, <1>2, MoveBirth, ExitBirth DEF OpenArray, OpenSumToWrite, OpenSumToRead, CallOpen, At
<1>3. CASE ReadArray(C1, "fifo1", "close") \/ ReadArray(C2, "fifo2", "command")
  BY <1>1, <1>3, MoveBirth DEF ReadArray, Opened, At
<1>4. CASE CloseArray \/ CloseCommand \/ ReadSum
  BY <1>1, <1>4, MoveBirth DEF CloseArray, CloseCommand, ReadSum, Opened, At
<1>5. CASE WriteSum \/ ReadCommand
  BY <1>1, <1>5, MoveBirth, ExitBirth DEF WriteSum, ReadCommand, Opened, At
<1>6. CASE Child1Exits \/ PrintResults \/ MallocFails
  BY <1>1, <1>6, ExitBirth DEF Child1Exits, PrintResults, MallocFails, Opened, At
<1> QED
  BY <1>2, <1>3, <1>4, <1>5, <1>6 DEF ChildStep

-----------------------------------------------------------------------------
(* What child 2 reads as the sum, and what it prints.                      *)

LEMMA SumRead ==
  ASSUME SumInv, Next
  PROVE  sum' \in {Sum, Garbage} /\ NothingElseIsTheSum'
<1>1. CASE ReadSum
  <2>1. pc[C2] = "read_sum" /\ UNCHANGED printed
        /\ sum' = IF Data("fifo2") = << >> THEN sum ELSE Data("fifo2")[1]
    BY <1>1 DEF ReadSum, Opened, At, Data
  <2>2. Data("fifo2") \in {<< >>, <<Sum>>}
    BY <2>1 DEF SumInv, PlacesOK, ContentOK
  <2>3. sum' \in {Sum, Garbage}
    BY <2>1, <2>2 DEF SumInv
  <2> QED
    BY <2>1, <2>3 DEF SumInv, NothingElseIsTheSum
<1>2. CASE PrintResults
  <2>1. UNCHANGED sum /\ printed' = <<sum, Product(got[C2])>> /\ pc[C2] = "print"
    BY <1>2 DEF PrintResults, At
  <2>2. got[C2] = Array
    BY <2>1 DEF SumInv, PlacesOK, OrderOK, Multiplied
  <2>3. printed'[1] = sum /\ printed'[2] = Product(Array)
    BY <2>1, <2>2
  <2> QED
    BY <2>1, <2>3 DEF SumInv, NothingElseIsTheSum, Sum
<1>3. CASE UNCHANGED <<sum, printed>>
  BY <1>3 DEF SumInv, NothingElseIsTheSum
<1>4. (ParentStep \/ ArrayFails \/ ForkFails \/ SigChld) => UNCHANGED <<sum, printed>>
  BY DEF ParentStep, DrawArray, Fork2, Fork1, OpenFifo2, OpenFifo1, WriteFifo2, WriteFifo1, Sends,
         CloseFifo2, CloseFifo1, CloseFifo, TestCounter, Sleep, Timeout, ArrayFails, ForkFails, SigChld,
         childVars
<1>5. ASSUME NEW c \in {C1, C2}, ChildStep(c)
      PROVE  UNCHANGED <<sum, printed>> \/ ReadSum \/ PrintResults
  BY <1>5 DEF ChildStep, OpenArray, ReadArray, CloseArray, OpenSumToWrite, WriteSum, Child1Exits,
              ReadCommand, CloseCommand, OpenSumToRead, childVars
<1>6. MallocFails \/ CtrlC \/ (\E p \in Procs : SigInt(p)) => UNCHANGED <<sum, printed>>
  BY DEF MallocFails, CtrlC, SigInt, childVars
<1> QED
  BY <1>1, <1>2, <1>3, <1>4, <1>5, <1>6 DEF Next

LEMMA InitSum == Init => SumInv
<1> SUFFICES ASSUME Init PROVE SumInv
  OBVIOUS
<1>1. /\ pc = [p \in Procs |-> pc[p]] /\ pc[P] = "draw" /\ pc[C1] = "unborn" /\ pc[C2] = "unborn"
      /\ got = [c \in {C1, C2} |-> got[c]]
  BY Named DEF Init
<1>2. /\ fifo = [n \in {"fifo1", "fifo2"} |-> fifo[n]]
      /\ fifo["fifo1"] = EmptyFifo /\ fifo["fifo2"] = EmptyFifo
  BY DEF Init
<1>3. Pipe(EmptyFifo) /\ EmptyFifo.readers = {} /\ EmptyFifo.data = << >>
  BY DEF Pipe, EmptyFifo
<1>4. SumTypeOK
  BY <1>1, <1>2, <1>3 DEF SumTypeOK, Before1, Before2, Young
<1>5. ReadersOK
  BY <1>1, <1>2, <1>3 DEF ReadersOK
<1>6. OrderOK
  BY <1>1, <1>2, <1>3 DEF OrderOK, Data, Before1, Before2, Young, Added, Multiplied
<1>7. ContentOK
  BY <1>1, <1>2, <1>3 DEF ContentOK, Data
<1>8. BirthOK /\ sum = Garbage /\ NothingElseIsTheSum
  BY <1>1 DEF Init, BirthOK, NothingElseIsTheSum
<1> QED
  BY <1>4, <1>5, <1>6, <1>7, <1>8 DEF SumInv, PlacesOK

LEMMA SumStep == SumInv /\ [Next]_sumVars => SumInv'
<1> SUFFICES ASSUME SumInv, [Next]_sumVars PROVE SumInv'
  OBVIOUS
<1>1. PlacesOK /\ BirthOK /\ SumTypeOK
  BY DEF SumInv, PlacesOK
<1>2. CASE ParentStep \/ ArrayFails \/ ForkFails \/ SigChld
  BY <1>1, <1>2, ParentPlaces, ParentBirth, SumRead DEF SumInv, Next
<1>3. ASSUME NEW c \in {C1, C2}, ChildStep(c)
      PROVE  SumInv'
  <2>1. PlacesOK'
    BY <1>1, <1>3, Child1Places, Child2Places
  <2>2. BirthOK'
    BY <1>1, <1>3, ChildBirth
  <2>3. Next
    BY <1>3 DEF Next
  <2> QED
    BY <2>1, <2>2, <2>3, SumRead DEF SumInv
<1>4. CASE MallocFails
  BY <1>1, <1>4, Child2Places, ChildBirth, SumRead DEF SumInv, Next
<1>5. CASE CtrlC
  <2>1. /\ UNCHANGED <<fifo, got, pc>> /\ pc' = [q \in Procs |-> pc'[q]]
        /\ ctrl_c' = {p \in Procs : pc[p] \notin {"unborn", "gone"}}
    BY <1>1, <1>5 DEF CtrlC, childVars, SumTypeOK
  <2>2. PlacesOK' /\ BirthOK'
    BY <1>1, <2>1, StepPlaces DEF BirthOK
  <2> QED
    BY <1>5, <2>2, SumRead DEF SumInv, Next
<1>6. ASSUME NEW p \in Procs, SigInt(p)
      PROVE  SumInv'
  <2>1. Exits(p, "ctrl_c") /\ UNCHANGED got /\ pc[p] # "unborn"
    BY <1>1, <1>6 DEF SigInt, childVars, BirthOK
  <2>2. PlacesOK' /\ BirthOK'
    BY <1>1, <2>1, ExitPlaces, ExitBirth
  <2>3. Next
    BY <1>6 DEF Next
  <2> QED
    BY <2>2, <2>3, SumRead DEF SumInv
<1>7. CASE UNCHANGED sumVars
  BY <1>7 DEF sumVars, SumInv, PlacesOK, SumTypeOK, Pipe, ReadersOK, OrderOK, Served, ContentOK,
              Data, BirthOK, NothingElseIsTheSum
<1> QED
  BY <1>2, <1>3, <1>4, <1>5, <1>6, <1>7 DEF Next

(***************************************************************************)
(* Whatever the array, whoever dies and whenever: what child 2 prints as   *)
(* the sum is the sum or nothing it has read, and its product is that of   *)
(* the whole array.                                                        *)
(***************************************************************************)
THEOREM NothingElseIsEverTheSum == SumSpec => []NothingElseIsTheSum
<1>1. SumInv => NothingElseIsTheSum
  BY DEF SumInv
<1> QED
  BY <1>1, InitSum, SumStep, PTL DEF SumSpec

-----------------------------------------------------------------------------
(***************************************************************************)
(* The two names are removed together, and an open of the parent fails     *)
(* only when they are removed already.                                     *)
(***************************************************************************)
RemovedInv ==
  /\ pc = [p \in Procs |-> pc[p]]
  /\ how = [p \in Procs |-> how[p]]
  /\ linked \in {{}, {"fifo1", "fifo2"}}
  /\ FifosRemoved

LEMMA ExitRemoves ==
  ASSUME RemovedInv, NEW p \in Procs, NEW reason, Exits(p, reason), linked' \in {linked, {}},
         p = P => reason \in {"malloc_failed", "fork_failed", "sigpipe"} \/ linked' = {}
  PROVE  RemovedInv'
BY Named DEF RemovedInv, FifosRemoved, Exits, Goto

LEMMA MoveRemoves ==
  ASSUME RemovedInv, NEW p \in Procs, NEW l, Goto(p, l), l # "gone", UNCHANGED <<linked, how>>
  PROVE  RemovedInv'
BY Named DEF RemovedInv, FifosRemoved, Goto

LEMMA RemovedStep == RemovedInv /\ [Next]_sumVars => RemovedInv'
<1> SUFFICES ASSUME RemovedInv, [Next]_sumVars PROVE RemovedInv'
  OBVIOUS
<1>1. P \in Procs /\ C1 \in Procs /\ C2 \in Procs /\ P # C1 /\ P # C2
  BY Named
<1>2. CASE Fork2 \/ Fork1 \/ CtrlC
  BY <1>1, <1>2 DEF Fork2, Fork1, CtrlC, RemovedInv, FifosRemoved
<1>3. CASE DrawArray \/ ArrayFails \/ ForkFails \/ Sleep \/ WriteFifo2 \/ WriteFifo1 \/ CloseFifo2 \/ CloseFifo1
  BY <1>1, <1>3, MoveRemoves, ExitRemoves
  DEF DrawArray, ArrayFails, ForkFails, Sleep, WriteFifo2, WriteFifo1, Sends, CloseFifo2, CloseFifo1, CloseFifo
<1>4. CASE OpenFifo2 \/ OpenFifo1
  <2>1. CASE \E l \in {"write2", "write1"} : Goto(P, l) /\ UNCHANGED <<linked, how>>
    BY <1>1, <2>1, MoveRemoves
  <2>2. CASE Exits(P, "failed") /\ UNCHANGED linked /\ \E n \in {"fifo1", "fifo2"} : n \notin linked
    <3>1. linked = {}
      BY <2>2 DEF RemovedInv
    <3> QED
      BY <1>1, <2>2, <3>1, ExitRemoves
  <2> QED
    BY <1>4, <2>1, <2>2 DEF OpenFifo2, OpenFifo1, CallOpen
<1>5. CASE TestCounter
  <2>1. CASE Goto(P, "sleep") /\ UNCHANGED <<linked, how>>
    BY <1>1, <2>1, MoveRemoves
  <2>2. CASE linked' = {} /\ Exits(P, "finished")
    BY <1>1, <2>2, ExitRemoves
  <2> QED
    BY <1>5, <2>1, <2>2 DEF TestCounter, Unlink
<1>6. CASE Timeout
  BY <1>1, <1>6 DEF Timeout, Unlink, RemovedInv, FifosRemoved
<1>7. CASE SigChld
  BY <1>1, <1>7 DEF SigChld, Unlink, Goto, RemovedInv, FifosRemoved
<1>8. ASSUME NEW c \in {C1, C2}, OpenArray(c) \/ OpenSumToWrite \/ OpenSumToRead
      PROVE  RemovedInv'
  BY <1>1, <1>8, MoveRemoves, ExitRemoves
  DEF OpenArray, OpenSumToWrite, OpenSumToRead, CallOpen, UnchangedParent
<1>9. CASE ReadArray(C1, "fifo1", "close") \/ ReadArray(C2, "fifo2", "command")
  BY <1>1, <1>9, MoveRemoves DEF ReadArray, UnchangedParent
<1>10. CASE CloseArray \/ CloseCommand \/ ReadSum
  BY <1>1, <1>10, MoveRemoves DEF CloseArray, CloseCommand, ReadSum, UnchangedParent
<1>11. CASE WriteSum \/ ReadCommand
  BY <1>1, <1>11, MoveRemoves, ExitRemoves DEF WriteSum, ReadCommand, UnchangedParent
<1>12. CASE Child1Exits \/ PrintResults \/ MallocFails
  BY <1>1, <1>12, ExitRemoves DEF Child1Exits, PrintResults, MallocFails, UnchangedParent
<1>13. CASE \E p \in Procs : SigInt(p)
  BY <1>13, ExitRemoves DEF SigInt, Unlink
<1>14. CASE UNCHANGED sumVars
  BY <1>14 DEF sumVars, RemovedInv, FifosRemoved
<1> QED
  BY <1>2, <1>3, <1>4, <1>5, <1>6, <1>7, <1>8, <1>9, <1>10, <1>11, <1>12, <1>13, <1>14
  DEF Next, ParentStep, ChildStep

(***************************************************************************)
(* Whatever dies, hangs or is interrupted, the parent that ends has        *)
(* removed the FIFOs, unless the malloc of the array or a fork failed, or  *)
(* it died of a SIGPIPE.                                                   *)
(***************************************************************************)
THEOREM FifosAlwaysRemoved == SumSpec => []FifosRemoved
<1>1. Init => RemovedInv
  BY Named DEF Init, RemovedInv, FifosRemoved
<1>2. RemovedInv => FifosRemoved
  BY DEF RemovedInv
<1> QED
  BY <1>1, <1>2, RemovedStep, PTL DEF SumSpec
=============================================================================
