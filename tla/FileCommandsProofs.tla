------------------------ MODULE FileCommandsProofs ------------------------
(***************************************************************************)
(* Proofs about the reader/writer lock of Midterm/src/sync.c (module       *)
(* ReaderWriter), for every finite set of processes and every set of       *)
(* files, and about the file commands of the Midterm server that use it    *)
(* (module FileCommands), for any number of clients, files, commands and   *)
(* lines.                                                                  *)
(***************************************************************************)
EXTENDS FileCommands, FiniteSetTheorems, SequenceTheorems, TLAPS

-----------------------------------------------------------------------------
(* The lock.                                                               *)

(* What one process's move does to the set of processes at given points.   *)
LEMMA AtMove ==
  ASSUME LockTypeOK, NEW p \in Procs, NEW t \in Slots, NEW P, NEW point,
         Goto(p, point), sfile' = sfile
  PROVE  /\ sfile[p] # t \/ (pc[p] \in P <=> point \in P) => At(t, P)' = At(t, P)
         /\ sfile[p] = t /\ pc[p] \notin P /\ point \in P
              => p \notin At(t, P) /\ At(t, P)' = At(t, P) \cup {p}
         /\ sfile[p] = t /\ pc[p] \in P /\ point \notin P
              => p \in At(t, P) /\ At(t, P)' = At(t, P) \ {p}
BY DEF LockTypeOK, Goto, At

(* The same for the sets that own something.                               *)
LEMMA Regroup ==
  ASSUME LockTypeOK, NEW p \in Procs, NEW s \in Slots, s = sfile[p], NEW point,
         Goto(p, point), sfile' = sfile
  PROVE
    /\ (pc[p] \in ReaderMutexPoints <=> point \in ReaderMutexPoints) => OwnsReaderMutex(s)' = OwnsReaderMutex(s)
    /\ pc[p] \notin ReaderMutexPoints /\ point \in ReaderMutexPoints
         => p \notin OwnsReaderMutex(s) /\ OwnsReaderMutex(s)' = OwnsReaderMutex(s) \cup {p}
    /\ pc[p] \in ReaderMutexPoints /\ point \notin ReaderMutexPoints
         => p \in OwnsReaderMutex(s) /\ OwnsReaderMutex(s)' = OwnsReaderMutex(s) \ {p}
    /\ (pc[p] \in WriterMutexPoints <=> point \in WriterMutexPoints) => OwnsWriterMutex(s)' = OwnsWriterMutex(s)
    /\ pc[p] \notin WriterMutexPoints /\ point \in WriterMutexPoints
         => p \notin OwnsWriterMutex(s) /\ OwnsWriterMutex(s)' = OwnsWriterMutex(s) \cup {p}
    /\ pc[p] \in WriterMutexPoints /\ point \notin WriterMutexPoints
         => p \in OwnsWriterMutex(s) /\ OwnsWriterMutex(s)' = OwnsWriterMutex(s) \ {p}
    /\ (pc[p] \in CountedPoints <=> point \in CountedPoints) => Counted(s)' = Counted(s)
    /\ pc[p] \notin CountedPoints /\ point \in CountedPoints
         => p \notin Counted(s) /\ Counted(s)' = Counted(s) \cup {p}
    /\ pc[p] \in CountedPoints /\ point \notin CountedPoints
         => p \in Counted(s) /\ Counted(s)' = Counted(s) \ {p}
    /\ (pc[p] \in GroupPoints <=> point \in GroupPoints) => ReaderGroup(s)' = ReaderGroup(s)
    /\ pc[p] \notin GroupPoints /\ point \in GroupPoints
         => p \notin ReaderGroup(s) /\ ReaderGroup(s)' = ReaderGroup(s) \cup {p}
    /\ pc[p] \in GroupPoints /\ point \notin GroupPoints
         => p \in ReaderGroup(s) /\ ReaderGroup(s)' = ReaderGroup(s) \ {p}
    /\ (pc[p] \in {"re_block"} <=> point \in {"re_block"}) => FirstReader(s)' = FirstReader(s)
    /\ pc[p] \notin {"re_block"} /\ point \in {"re_block"}
         => p \notin FirstReader(s) /\ FirstReader(s)' = FirstReader(s) \cup {p}
    /\ pc[p] \in {"re_block"} /\ point \notin {"re_block"}
         => p \in FirstReader(s) /\ FirstReader(s)' = FirstReader(s) \ {p}
<1>a. \A P : /\ (pc[p] \in P <=> point \in P) => At(s, P)' = At(s, P)
             /\ pc[p] \notin P /\ point \in P => p \notin At(s, P) /\ At(s, P)' = At(s, P) \cup {p}
             /\ pc[p] \in P /\ point \notin P => p \in At(s, P) /\ At(s, P)' = At(s, P) \ {p}
  BY AtMove
<1>b. /\ ReaderMutexPoints' = ReaderMutexPoints /\ WriterMutexPoints' = WriterMutexPoints
      /\ CountedPoints' = CountedPoints /\ GroupPoints' = GroupPoints
  BY DEF ReaderMutexPoints, WriterMutexPoints, CountedPoints, GroupPoints
<1>1. /\ (pc[p] \in ReaderMutexPoints <=> point \in ReaderMutexPoints) => OwnsReaderMutex(s)' = OwnsReaderMutex(s)
      /\ pc[p] \notin ReaderMutexPoints /\ point \in ReaderMutexPoints
           => p \notin OwnsReaderMutex(s) /\ OwnsReaderMutex(s)' = OwnsReaderMutex(s) \cup {p}
      /\ pc[p] \in ReaderMutexPoints /\ point \notin ReaderMutexPoints
           => p \in OwnsReaderMutex(s) /\ OwnsReaderMutex(s)' = OwnsReaderMutex(s) \ {p}
  BY <1>a, <1>b DEF OwnsReaderMutex
<1>2. /\ (pc[p] \in WriterMutexPoints <=> point \in WriterMutexPoints) => OwnsWriterMutex(s)' = OwnsWriterMutex(s)
      /\ pc[p] \notin WriterMutexPoints /\ point \in WriterMutexPoints
           => p \notin OwnsWriterMutex(s) /\ OwnsWriterMutex(s)' = OwnsWriterMutex(s) \cup {p}
      /\ pc[p] \in WriterMutexPoints /\ point \notin WriterMutexPoints
           => p \in OwnsWriterMutex(s) /\ OwnsWriterMutex(s)' = OwnsWriterMutex(s) \ {p}
  BY <1>a, <1>b DEF OwnsWriterMutex
<1>3. /\ (pc[p] \in CountedPoints <=> point \in CountedPoints) => Counted(s)' = Counted(s)
      /\ pc[p] \notin CountedPoints /\ point \in CountedPoints
           => p \notin Counted(s) /\ Counted(s)' = Counted(s) \cup {p}
      /\ pc[p] \in CountedPoints /\ point \notin CountedPoints
           => p \in Counted(s) /\ Counted(s)' = Counted(s) \ {p}
  BY <1>a, <1>b DEF Counted
<1>4. /\ (pc[p] \in GroupPoints <=> point \in GroupPoints) => ReaderGroup(s)' = ReaderGroup(s)
      /\ pc[p] \notin GroupPoints /\ point \in GroupPoints
           => p \notin ReaderGroup(s) /\ ReaderGroup(s)' = ReaderGroup(s) \cup {p}
      /\ pc[p] \in GroupPoints /\ point \notin GroupPoints
           => p \in ReaderGroup(s) /\ ReaderGroup(s)' = ReaderGroup(s) \ {p}
  BY <1>a, <1>b DEF ReaderGroup
<1>5. /\ (pc[p] \in {"re_block"} <=> point \in {"re_block"}) => FirstReader(s)' = FirstReader(s)
      /\ pc[p] \notin {"re_block"} /\ point \in {"re_block"}
           => p \notin FirstReader(s) /\ FirstReader(s)' = FirstReader(s) \cup {p}
      /\ pc[p] \in {"re_block"} /\ point \notin {"re_block"}
           => p \in FirstReader(s) /\ FirstReader(s)' = FirstReader(s) \ {p}
  BY <1>a, <1>b DEF FirstReader
<1> QED
  BY <1>1, <1>2, <1>3, <1>4, <1>5

(* The number of readers counted, when one joins or leaves.                *)
LEMMA CountedCard ==
  ASSUME NEW s, NEW p
  PROVE  /\ Cardinality(Counted(s)) \in Nat
         /\ p \notin Counted(s) => Cardinality(Counted(s) \cup {p}) = Cardinality(Counted(s)) + 1
         /\ p \in Counted(s) => Cardinality(Counted(s) \ {p}) = Cardinality(Counted(s)) - 1
         /\ Cardinality(Counted(s)) = 0 <=> Counted(s) = {}
         /\ Cardinality(Counted(s) \ {p}) = 0 <=> Counted(s) \ {p} = {}
<1>1. Counted(s) \subseteq Procs
  BY DEF Counted, At
<1>2. IsFiniteSet(Counted(s))
  BY <1>1, ProcsFinite, FS_Subset
<1>3. IsFiniteSet(Counted(s) \ {p})
  BY <1>2, FS_RemoveElement
<1>4. /\ Cardinality(Counted(s)) \in Nat
      /\ p \notin Counted(s) => Cardinality(Counted(s) \cup {p}) = Cardinality(Counted(s)) + 1
      /\ p \in Counted(s) => Cardinality(Counted(s) \ {p}) = Cardinality(Counted(s)) - 1
      /\ Cardinality(Counted(s)) = 0 <=> Counted(s) = {}
  BY <1>2, FS_CardinalityType, FS_AddElement, FS_RemoveElement, FS_EmptySet
<1>5. Cardinality(Counted(s) \ {p}) = 0 <=> Counted(s) \ {p} = {}
  BY <1>3, FS_EmptySet
<1> QED
  BY <1>4, <1>5

(* Members of the sets, point by point.                                    *)
LEMMA Membership ==
  ASSUME NEW s, NEW q
  PROVE  /\ q \in Counted(s) => q \in FirstReader(s) \/ q \in ReaderGroup(s)
         /\ q \in FirstReader(s) \/ q \in ReaderGroup(s) => q \in Counted(s)
         /\ q \in FirstReader(s) => q \in OwnsReaderMutex(s)
         /\ q \in FirstReader(s) => q \notin ReaderGroup(s)
BY DEF Counted, FirstReader, ReaderGroup, OwnsReaderMutex, At, CountedPoints, GroupPoints, ReaderMutexPoints

(* At a File whose owners and permits stay the same nothing changes.       *)
LEMMA SameOwners ==
  ASSUME NEW t \in Slots, SlotOK(t),
         OwnsReaderMutex(t)' = OwnsReaderMutex(t), OwnsWriterMutex(t)' = OwnsWriterMutex(t),
         Counted(t)' = Counted(t), ReaderGroup(t)' = ReaderGroup(t),
         FirstReader(t)' = FirstReader(t),
         reader_mutex'[t] = reader_mutex[t], writer_mutex'[t] = writer_mutex[t],
         reader_count'[t] = reader_count[t]
  PROVE  SlotOK(t)'
BY DEF SlotOK, ReaderMutexOK, CountOK, WriterMutexOK

(* A step of p touches the permits of p's own File only.                   *)
LEMMA OtherFile ==
  ASSUME LockInv, NEW p \in Procs, NEW point, Goto(p, point), sfile' = sfile,
         NEW t \in Slots, t # sfile[p],
         reader_mutex'[t] = reader_mutex[t], writer_mutex'[t] = writer_mutex[t],
         reader_count'[t] = reader_count[t]
  PROVE  SlotOK(t)'
<1>1. \A P : At(t, P)' = At(t, P)
  BY AtMove DEF LockInv
<1>2. /\ OwnsReaderMutex(t)' = OwnsReaderMutex(t) /\ OwnsWriterMutex(t)' = OwnsWriterMutex(t)
      /\ Counted(t)' = Counted(t) /\ ReaderGroup(t)' = ReaderGroup(t)
      /\ FirstReader(t)' = FirstReader(t)
  BY <1>1 DEF OwnsReaderMutex, OwnsWriterMutex, Counted, ReaderGroup, FirstReader,
              ReaderMutexPoints, WriterMutexPoints, CountedPoints, GroupPoints
<1> QED
  BY <1>2, SameOwners DEF LockInv

(* The first reader goes on to wait for the writers.                       *)
LEMMA FirstReaderKeeps ==
  ASSUME LockInv, NEW p \in Procs, ReaderEnterWait(p),
         reader_count[sfile[p]] + 1 = 1
  PROVE  LockInv'
<1>1. PICK s \in Slots : s = sfile[p]
  BY DEF LockInv, LockTypeOK
<1>2. LockTypeOK /\ Goto(p, "re_block") /\ pc[p] = "re_wait" /\ sfile' = sfile
  BY <1>1 DEF LockInv, LockTypeOK, ReaderEnterWait
<1>3. LockTypeOK'
  BY DEF LockInv, LockTypeOK, ReaderEnterWait, Goto, Points, ReaderPoints, WriterPoints, lockVars
<1>4. ASSUME NEW t \in Slots, t # s
      PROVE  SlotOK(t)'
  <2>1. /\ reader_mutex'[t] = reader_mutex[t] /\ writer_mutex'[t] = writer_mutex[t]
        /\ reader_count'[t] = reader_count[t]
    BY <1>1, <1>4 DEF LockInv, LockTypeOK, ReaderEnterWait, lockVars
  <2> QED
    BY <1>1, <1>2, <1>4, <2>1, OtherFile
<1>5. /\ OwnsReaderMutex(s)' = OwnsReaderMutex(s) \cup {p} /\ p \notin OwnsReaderMutex(s)
      /\ OwnsWriterMutex(s)' = OwnsWriterMutex(s)
      /\ Counted(s)' = Counted(s) \cup {p} /\ p \notin Counted(s)
      /\ ReaderGroup(s)' = ReaderGroup(s)
      /\ FirstReader(s)' = FirstReader(s) \cup {p} /\ p \notin FirstReader(s)
  BY <1>1, <1>2, Regroup DEF ReaderMutexPoints, WriterMutexPoints, CountedPoints, GroupPoints
<1>6. SlotOK(s) /\ ReaderMutexOK(s) /\ CountOK(s) /\ WriterMutexOK(s)
  BY DEF LockInv, SlotOK
<1>7. ReaderMutexOK(s)'
  BY <1>1, <1>2, <1>5, <1>6 DEF ReaderMutexOK, LockTypeOK, ReaderEnterWait
<1>8. CountOK(s)'
  BY <1>1, <1>2, <1>5, <1>6, CountedCard, Membership DEF CountOK, ReaderMutexOK, LockTypeOK, ReaderEnterWait
<1>9. WriterMutexOK(s)'
  BY <1>1, <1>2, <1>5, <1>6, CountedCard, Membership DEF WriterMutexOK, CountOK, ReaderMutexOK, LockTypeOK, ReaderEnterWait
<1> QED
  BY <1>3, <1>4, <1>7, <1>8, <1>9 DEF LockInv, SlotOK

(* A later reader joins the group.                                         *)
LEMMA LaterReaderKeeps ==
  ASSUME LockInv, NEW p \in Procs, ReaderEnterWait(p),
         reader_count[sfile[p]] + 1 # 1
  PROVE  LockInv'
<1>1. PICK s \in Slots : s = sfile[p]
  BY DEF LockInv, LockTypeOK
<1>2. LockTypeOK /\ Goto(p, "re_post") /\ pc[p] = "re_wait" /\ sfile' = sfile
  BY <1>1 DEF LockInv, LockTypeOK, ReaderEnterWait
<1>3. LockTypeOK'
  BY DEF LockInv, LockTypeOK, ReaderEnterWait, Goto, Points, ReaderPoints, WriterPoints, lockVars
<1>4. ASSUME NEW t \in Slots, t # s
      PROVE  SlotOK(t)'
  <2>1. /\ reader_mutex'[t] = reader_mutex[t] /\ writer_mutex'[t] = writer_mutex[t]
        /\ reader_count'[t] = reader_count[t]
    BY <1>1, <1>4 DEF LockInv, LockTypeOK, ReaderEnterWait, lockVars
  <2> QED
    BY <1>1, <1>2, <1>4, <2>1, OtherFile
<1>5. /\ OwnsReaderMutex(s)' = OwnsReaderMutex(s) \cup {p} /\ p \notin OwnsReaderMutex(s)
      /\ OwnsWriterMutex(s)' = OwnsWriterMutex(s)
      /\ Counted(s)' = Counted(s) \cup {p} /\ p \notin Counted(s)
      /\ ReaderGroup(s)' = ReaderGroup(s) \cup {p} /\ p \notin ReaderGroup(s)
      /\ FirstReader(s)' = FirstReader(s)
  BY <1>1, <1>2, Regroup DEF ReaderMutexPoints, WriterMutexPoints, CountedPoints, GroupPoints
<1>6. SlotOK(s) /\ ReaderMutexOK(s) /\ CountOK(s) /\ WriterMutexOK(s)
  BY DEF LockInv, SlotOK
<1>10. ReaderGroup(s) # {}
  <2>1. FirstReader(s) = {}
    BY <1>1, <1>6, Membership DEF ReaderMutexOK, ReaderEnterWait
  <2>2. reader_count[s] # 0
    BY <1>1, <1>2 DEF LockTypeOK
  <2>3. Cardinality(Counted(s)) = 0 <=> Counted(s) = {}
    BY CountedCard
  <2>4. Counted(s) # {}
    BY <1>6, <2>2, <2>3 DEF CountOK
  <2> QED
    BY <2>1, <2>4, Membership
<1>7. ReaderMutexOK(s)'
  BY <1>1, <1>2, <1>5, <1>6 DEF ReaderMutexOK, LockTypeOK, ReaderEnterWait
<1>8. CountOK(s)'
  BY <1>1, <1>2, <1>5, <1>6, CountedCard, Membership DEF CountOK, ReaderMutexOK, LockTypeOK, ReaderEnterWait
<1>9. WriterMutexOK(s)'
  BY <1>1, <1>2, <1>5, <1>6, <1>10 DEF WriterMutexOK, CountOK, ReaderMutexOK, LockTypeOK, ReaderEnterWait
<1> QED
  BY <1>3, <1>4, <1>7, <1>8, <1>9 DEF LockInv, SlotOK

(* The first reader has got the writers out.                               *)
LEMMA ReaderEnterBlockKeeps ==
  ASSUME LockInv, NEW p \in Procs, ReaderEnterBlock(p)
  PROVE  LockInv'
<1>1. PICK s \in Slots : s = sfile[p]
  BY DEF LockInv, LockTypeOK
<1>2. LockTypeOK /\ Goto(p, "re_post") /\ pc[p] = "re_block" /\ sfile' = sfile
  BY <1>1 DEF LockInv, LockTypeOK, ReaderEnterBlock
<1>3. LockTypeOK'
  BY DEF LockInv, LockTypeOK, ReaderEnterBlock, Goto, Points, ReaderPoints, WriterPoints, lockVars
<1>4. ASSUME NEW t \in Slots, t # s
      PROVE  SlotOK(t)'
  <2>1. /\ reader_mutex'[t] = reader_mutex[t] /\ writer_mutex'[t] = writer_mutex[t]
        /\ reader_count'[t] = reader_count[t]
    BY <1>1, <1>4 DEF LockInv, LockTypeOK, ReaderEnterBlock, lockVars
  <2> QED
    BY <1>1, <1>2, <1>4, <2>1, OtherFile
<1>5. /\ OwnsReaderMutex(s)' = OwnsReaderMutex(s)
      /\ OwnsWriterMutex(s)' = OwnsWriterMutex(s)
      /\ Counted(s)' = Counted(s)
      /\ ReaderGroup(s)' = ReaderGroup(s) \cup {p} /\ p \notin ReaderGroup(s)
      /\ FirstReader(s)' = FirstReader(s) \ {p} /\ p \in FirstReader(s)
  BY <1>1, <1>2, Regroup DEF ReaderMutexPoints, WriterMutexPoints, CountedPoints, GroupPoints
<1>6. SlotOK(s) /\ ReaderMutexOK(s) /\ CountOK(s) /\ WriterMutexOK(s)
  BY DEF LockInv, SlotOK
<1>7. ReaderMutexOK(s)'
  BY <1>1, <1>2, <1>5, <1>6 DEF ReaderMutexOK, LockTypeOK, ReaderEnterBlock
<1>8. CountOK(s)'
  BY <1>1, <1>2, <1>5, <1>6, Membership DEF CountOK, ReaderMutexOK, LockTypeOK, ReaderEnterBlock
<1>9. WriterMutexOK(s)'
  BY <1>1, <1>2, <1>5, <1>6, Membership DEF WriterMutexOK, CountOK, ReaderMutexOK, LockTypeOK, ReaderEnterBlock
<1> QED
  BY <1>3, <1>4, <1>7, <1>8, <1>9 DEF LockInv, SlotOK

(* A reader lets go of reader_mutex and reads.                             *)
LEMMA ReaderEnterPostKeeps ==
  ASSUME LockInv, NEW p \in Procs, ReaderEnterPost(p)
  PROVE  LockInv'
<1>1. PICK s \in Slots : s = sfile[p]
  BY DEF LockInv, LockTypeOK
<1>2. LockTypeOK /\ Goto(p, "reading") /\ pc[p] = "re_post" /\ sfile' = sfile
  BY <1>1 DEF LockInv, LockTypeOK, ReaderEnterPost
<1>3. LockTypeOK'
  BY DEF LockInv, LockTypeOK, ReaderEnterPost, Goto, Points, ReaderPoints, WriterPoints, lockVars
<1>4. ASSUME NEW t \in Slots, t # s
      PROVE  SlotOK(t)'
  <2>1. /\ reader_mutex'[t] = reader_mutex[t] /\ writer_mutex'[t] = writer_mutex[t]
        /\ reader_count'[t] = reader_count[t]
    BY <1>1, <1>4 DEF LockInv, LockTypeOK, ReaderEnterPost, lockVars
  <2> QED
    BY <1>1, <1>2, <1>4, <2>1, OtherFile
<1>5. /\ OwnsReaderMutex(s)' = OwnsReaderMutex(s) \ {p} /\ p \in OwnsReaderMutex(s)
      /\ OwnsWriterMutex(s)' = OwnsWriterMutex(s)
      /\ Counted(s)' = Counted(s)
      /\ ReaderGroup(s)' = ReaderGroup(s)
      /\ FirstReader(s)' = FirstReader(s)
  BY <1>1, <1>2, Regroup DEF ReaderMutexPoints, WriterMutexPoints, CountedPoints, GroupPoints
<1>6. SlotOK(s) /\ ReaderMutexOK(s) /\ CountOK(s) /\ WriterMutexOK(s)
  BY DEF LockInv, SlotOK
<1>7. ReaderMutexOK(s)'
  BY <1>1, <1>2, <1>5, <1>6 DEF ReaderMutexOK, LockTypeOK, ReaderEnterPost
<1>8. CountOK(s)'
  BY <1>1, <1>2, <1>5, <1>6 DEF CountOK, ReaderMutexOK, LockTypeOK, ReaderEnterPost
<1>9. WriterMutexOK(s)'
  BY <1>1, <1>2, <1>5, <1>6, Membership DEF WriterMutexOK, CountOK, ReaderMutexOK, LockTypeOK, ReaderEnterPost
<1> QED
  BY <1>3, <1>4, <1>7, <1>8, <1>9 DEF LockInv, SlotOK

(* A reader leaves; the last one lets the writers in.                      *)
LEMMA ReaderExitWaitKeeps ==
  ASSUME LockInv, NEW p \in Procs, ReaderExitWait(p)
  PROVE  LockInv'
<1>1. PICK s \in Slots : s = sfile[p]
  BY DEF LockInv, LockTypeOK
<1>2. LockTypeOK /\ Goto(p, "rx_post") /\ pc[p] = "rx_wait" /\ sfile' = sfile
  BY <1>1 DEF LockInv, LockTypeOK, ReaderExitWait
<1>3. LockTypeOK'
  BY DEF LockInv, LockTypeOK, ReaderExitWait, Goto, Points, ReaderPoints, WriterPoints, lockVars
<1>4. ASSUME NEW t \in Slots, t # s
      PROVE  SlotOK(t)'
  <2>1. /\ reader_mutex'[t] = reader_mutex[t] /\ writer_mutex'[t] = writer_mutex[t]
        /\ reader_count'[t] = reader_count[t]
    BY <1>1, <1>4 DEF LockInv, LockTypeOK, ReaderExitWait, lockVars
  <2> QED
    BY <1>1, <1>2, <1>4, <2>1, OtherFile
<1>5. /\ OwnsReaderMutex(s)' = OwnsReaderMutex(s) \cup {p} /\ p \notin OwnsReaderMutex(s)
      /\ OwnsWriterMutex(s)' = OwnsWriterMutex(s)
      /\ Counted(s)' = Counted(s) \ {p} /\ p \in Counted(s)
      /\ ReaderGroup(s)' = ReaderGroup(s) \ {p} /\ p \in ReaderGroup(s)
      /\ FirstReader(s)' = FirstReader(s)
  BY <1>1, <1>2, Regroup DEF ReaderMutexPoints, WriterMutexPoints, CountedPoints, GroupPoints
<1>6. SlotOK(s) /\ ReaderMutexOK(s) /\ CountOK(s) /\ WriterMutexOK(s)
  BY DEF LockInv, SlotOK
<1>10. reader_count[s] - 1 = 0 <=> ReaderGroup(s) \ {p} = {}
  <2>1. FirstReader(s) = {}
    BY <1>1, <1>6, Membership DEF ReaderMutexOK, ReaderExitWait
  <2>2. /\ Cardinality(Counted(s) \ {p}) = Cardinality(Counted(s)) - 1
        /\ Cardinality(Counted(s) \ {p}) = 0 <=> Counted(s) \ {p} = {}
    BY <1>5, CountedCard
  <2>3. reader_count[s] - 1 = 0 <=> Counted(s) \ {p} = {}
    BY <1>6, <2>2 DEF CountOK
  <2> QED
    BY <2>1, <2>3, Membership
<1>7. ReaderMutexOK(s)'
  BY <1>1, <1>2, <1>5, <1>6 DEF ReaderMutexOK, LockTypeOK, ReaderExitWait
<1>8. CountOK(s)'
  BY <1>1, <1>2, <1>5, <1>6, CountedCard, Membership DEF CountOK, ReaderMutexOK, LockTypeOK, ReaderExitWait
<1>9. WriterMutexOK(s)'
  BY <1>1, <1>2, <1>5, <1>6, <1>10 DEF WriterMutexOK, CountOK, ReaderMutexOK, LockTypeOK, ReaderExitWait
<1> QED
  BY <1>3, <1>4, <1>7, <1>8, <1>9 DEF LockInv, SlotOK

(* A leaving reader lets go of reader_mutex.                               *)
LEMMA ReaderExitPostKeeps ==
  ASSUME LockInv, NEW p \in Procs, ReaderExitPost(p)
  PROVE  LockInv'
<1>1. PICK s \in Slots : s = sfile[p]
  BY DEF LockInv, LockTypeOK
<1>2. LockTypeOK /\ Goto(p, "idle") /\ pc[p] = "rx_post" /\ sfile' = sfile
  BY <1>1 DEF LockInv, LockTypeOK, ReaderExitPost
<1>3. LockTypeOK'
  BY DEF LockInv, LockTypeOK, ReaderExitPost, Goto, Points, ReaderPoints, WriterPoints, lockVars
<1>4. ASSUME NEW t \in Slots, t # s
      PROVE  SlotOK(t)'
  <2>1. /\ reader_mutex'[t] = reader_mutex[t] /\ writer_mutex'[t] = writer_mutex[t]
        /\ reader_count'[t] = reader_count[t]
    BY <1>1, <1>4 DEF LockInv, LockTypeOK, ReaderExitPost, lockVars
  <2> QED
    BY <1>1, <1>2, <1>4, <2>1, OtherFile
<1>5. /\ OwnsReaderMutex(s)' = OwnsReaderMutex(s) \ {p} /\ p \in OwnsReaderMutex(s)
      /\ OwnsWriterMutex(s)' = OwnsWriterMutex(s)
      /\ Counted(s)' = Counted(s)
      /\ ReaderGroup(s)' = ReaderGroup(s)
      /\ FirstReader(s)' = FirstReader(s)
  BY <1>1, <1>2, Regroup DEF ReaderMutexPoints, WriterMutexPoints, CountedPoints, GroupPoints
<1>6. SlotOK(s) /\ ReaderMutexOK(s) /\ CountOK(s) /\ WriterMutexOK(s)
  BY DEF LockInv, SlotOK
<1>7. ReaderMutexOK(s)'
  BY <1>1, <1>2, <1>5, <1>6 DEF ReaderMutexOK, LockTypeOK, ReaderExitPost
<1>8. CountOK(s)'
  BY <1>1, <1>2, <1>5, <1>6 DEF CountOK, ReaderMutexOK, LockTypeOK, ReaderExitPost
<1>9. WriterMutexOK(s)'
  BY <1>1, <1>2, <1>5, <1>6, Membership DEF WriterMutexOK, CountOK, ReaderMutexOK, LockTypeOK, ReaderExitPost
<1> QED
  BY <1>3, <1>4, <1>7, <1>8, <1>9 DEF LockInv, SlotOK

(* A writer takes writer_mutex.                                            *)
LEMMA WriterEnterWriterKeeps ==
  ASSUME LockInv, NEW p \in Procs, WriterEnterWriter(p)
  PROVE  LockInv'
<1>1. PICK s \in Slots : s = sfile[p]
  BY DEF LockInv, LockTypeOK
<1>2. LockTypeOK /\ Goto(p, "we_reader") /\ pc[p] = "we_writer" /\ sfile' = sfile
  BY <1>1 DEF LockInv, LockTypeOK, WriterEnterWriter
<1>3. LockTypeOK'
  BY DEF LockInv, LockTypeOK, WriterEnterWriter, Goto, Points, ReaderPoints, WriterPoints, lockVars
<1>4. ASSUME NEW t \in Slots, t # s
      PROVE  SlotOK(t)'
  <2>1. /\ reader_mutex'[t] = reader_mutex[t] /\ writer_mutex'[t] = writer_mutex[t]
        /\ reader_count'[t] = reader_count[t]
    BY <1>1, <1>4 DEF LockInv, LockTypeOK, WriterEnterWriter, lockVars
  <2> QED
    BY <1>1, <1>2, <1>4, <2>1, OtherFile
<1>5. /\ OwnsReaderMutex(s)' = OwnsReaderMutex(s)
      /\ OwnsWriterMutex(s)' = OwnsWriterMutex(s) \cup {p} /\ p \notin OwnsWriterMutex(s)
      /\ Counted(s)' = Counted(s)
      /\ ReaderGroup(s)' = ReaderGroup(s)
      /\ FirstReader(s)' = FirstReader(s)
  BY <1>1, <1>2, Regroup DEF ReaderMutexPoints, WriterMutexPoints, CountedPoints, GroupPoints
<1>6. SlotOK(s) /\ ReaderMutexOK(s) /\ CountOK(s) /\ WriterMutexOK(s)
  BY DEF LockInv, SlotOK
<1>7. ReaderMutexOK(s)'
  BY <1>1, <1>2, <1>5, <1>6 DEF ReaderMutexOK, LockTypeOK, WriterEnterWriter
<1>8. CountOK(s)'
  BY <1>1, <1>2, <1>5, <1>6 DEF CountOK, ReaderMutexOK, LockTypeOK, WriterEnterWriter
<1>9. WriterMutexOK(s)'
  BY <1>1, <1>2, <1>5, <1>6, Membership DEF WriterMutexOK, CountOK, ReaderMutexOK, LockTypeOK, WriterEnterWriter
<1> QED
  BY <1>3, <1>4, <1>7, <1>8, <1>9 DEF LockInv, SlotOK

(* A writer takes reader_mutex and writes.                                 *)
LEMMA WriterEnterReaderKeeps ==
  ASSUME LockInv, NEW p \in Procs, WriterEnterReader(p)
  PROVE  LockInv'
<1>1. PICK s \in Slots : s = sfile[p]
  BY DEF LockInv, LockTypeOK
<1>2. LockTypeOK /\ Goto(p, "writing") /\ pc[p] = "we_reader" /\ sfile' = sfile
  BY <1>1 DEF LockInv, LockTypeOK, WriterEnterReader
<1>3. LockTypeOK'
  BY DEF LockInv, LockTypeOK, WriterEnterReader, Goto, Points, ReaderPoints, WriterPoints, lockVars
<1>4. ASSUME NEW t \in Slots, t # s
      PROVE  SlotOK(t)'
  <2>1. /\ reader_mutex'[t] = reader_mutex[t] /\ writer_mutex'[t] = writer_mutex[t]
        /\ reader_count'[t] = reader_count[t]
    BY <1>1, <1>4 DEF LockInv, LockTypeOK, WriterEnterReader, lockVars
  <2> QED
    BY <1>1, <1>2, <1>4, <2>1, OtherFile
<1>5. /\ OwnsReaderMutex(s)' = OwnsReaderMutex(s) \cup {p} /\ p \notin OwnsReaderMutex(s)
      /\ OwnsWriterMutex(s)' = OwnsWriterMutex(s)
      /\ Counted(s)' = Counted(s)
      /\ ReaderGroup(s)' = ReaderGroup(s)
      /\ FirstReader(s)' = FirstReader(s)
  BY <1>1, <1>2, Regroup DEF ReaderMutexPoints, WriterMutexPoints, CountedPoints, GroupPoints
<1>6. SlotOK(s) /\ ReaderMutexOK(s) /\ CountOK(s) /\ WriterMutexOK(s)
  BY DEF LockInv, SlotOK
<1>7. ReaderMutexOK(s)'
  BY <1>1, <1>2, <1>5, <1>6 DEF ReaderMutexOK, LockTypeOK, WriterEnterReader
<1>8. CountOK(s)'
  BY <1>1, <1>2, <1>5, <1>6 DEF CountOK, ReaderMutexOK, LockTypeOK, WriterEnterReader
<1>9. WriterMutexOK(s)'
  BY <1>1, <1>2, <1>5, <1>6, Membership DEF WriterMutexOK, CountOK, ReaderMutexOK, LockTypeOK, WriterEnterReader
<1> QED
  BY <1>3, <1>4, <1>7, <1>8, <1>9 DEF LockInv, SlotOK

(* A leaving writer lets go of reader_mutex,                               *)
LEMMA WriterExitReaderKeeps ==
  ASSUME LockInv, NEW p \in Procs, WriterExitReader(p)
  PROVE  LockInv'
<1>1. PICK s \in Slots : s = sfile[p]
  BY DEF LockInv, LockTypeOK
<1>2. LockTypeOK /\ Goto(p, "wx_writer") /\ pc[p] = "wx_reader" /\ sfile' = sfile
  BY <1>1 DEF LockInv, LockTypeOK, WriterExitReader
<1>3. LockTypeOK'
  BY DEF LockInv, LockTypeOK, WriterExitReader, Goto, Points, ReaderPoints, WriterPoints, lockVars
<1>4. ASSUME NEW t \in Slots, t # s
      PROVE  SlotOK(t)'
  <2>1. /\ reader_mutex'[t] = reader_mutex[t] /\ writer_mutex'[t] = writer_mutex[t]
        /\ reader_count'[t] = reader_count[t]
    BY <1>1, <1>4 DEF LockInv, LockTypeOK, WriterExitReader, lockVars
  <2> QED
    BY <1>1, <1>2, <1>4, <2>1, OtherFile
<1>5. /\ OwnsReaderMutex(s)' = OwnsReaderMutex(s) \ {p} /\ p \in OwnsReaderMutex(s)
      /\ OwnsWriterMutex(s)' = OwnsWriterMutex(s)
      /\ Counted(s)' = Counted(s)
      /\ ReaderGroup(s)' = ReaderGroup(s)
      /\ FirstReader(s)' = FirstReader(s)
  BY <1>1, <1>2, Regroup DEF ReaderMutexPoints, WriterMutexPoints, CountedPoints, GroupPoints
<1>6. SlotOK(s) /\ ReaderMutexOK(s) /\ CountOK(s) /\ WriterMutexOK(s)
  BY DEF LockInv, SlotOK
<1>7. ReaderMutexOK(s)'
  BY <1>1, <1>2, <1>5, <1>6 DEF ReaderMutexOK, LockTypeOK, WriterExitReader
<1>8. CountOK(s)'
  BY <1>1, <1>2, <1>5, <1>6 DEF CountOK, ReaderMutexOK, LockTypeOK, WriterExitReader
<1>9. WriterMutexOK(s)'
  BY <1>1, <1>2, <1>5, <1>6, Membership DEF WriterMutexOK, CountOK, ReaderMutexOK, LockTypeOK, WriterExitReader
<1> QED
  BY <1>3, <1>4, <1>7, <1>8, <1>9 DEF LockInv, SlotOK

(* and then of writer_mutex.                                               *)
LEMMA WriterExitWriterKeeps ==
  ASSUME LockInv, NEW p \in Procs, WriterExitWriter(p)
  PROVE  LockInv'
<1>1. PICK s \in Slots : s = sfile[p]
  BY DEF LockInv, LockTypeOK
<1>2. LockTypeOK /\ Goto(p, "idle") /\ pc[p] = "wx_writer" /\ sfile' = sfile
  BY <1>1 DEF LockInv, LockTypeOK, WriterExitWriter
<1>3. LockTypeOK'
  BY DEF LockInv, LockTypeOK, WriterExitWriter, Goto, Points, ReaderPoints, WriterPoints, lockVars
<1>4. ASSUME NEW t \in Slots, t # s
      PROVE  SlotOK(t)'
  <2>1. /\ reader_mutex'[t] = reader_mutex[t] /\ writer_mutex'[t] = writer_mutex[t]
        /\ reader_count'[t] = reader_count[t]
    BY <1>1, <1>4 DEF LockInv, LockTypeOK, WriterExitWriter, lockVars
  <2> QED
    BY <1>1, <1>2, <1>4, <2>1, OtherFile
<1>5. /\ OwnsReaderMutex(s)' = OwnsReaderMutex(s)
      /\ OwnsWriterMutex(s)' = OwnsWriterMutex(s) \ {p} /\ p \in OwnsWriterMutex(s)
      /\ Counted(s)' = Counted(s)
      /\ ReaderGroup(s)' = ReaderGroup(s)
      /\ FirstReader(s)' = FirstReader(s)
  BY <1>1, <1>2, Regroup DEF ReaderMutexPoints, WriterMutexPoints, CountedPoints, GroupPoints
<1>6. SlotOK(s) /\ ReaderMutexOK(s) /\ CountOK(s) /\ WriterMutexOK(s)
  BY DEF LockInv, SlotOK
<1>7. ReaderMutexOK(s)'
  BY <1>1, <1>2, <1>5, <1>6 DEF ReaderMutexOK, LockTypeOK, WriterExitWriter
<1>8. CountOK(s)'
  BY <1>1, <1>2, <1>5, <1>6 DEF CountOK, ReaderMutexOK, LockTypeOK, WriterExitWriter
<1>9. WriterMutexOK(s)'
  BY <1>1, <1>2, <1>5, <1>6, Membership DEF WriterMutexOK, CountOK, ReaderMutexOK, LockTypeOK, WriterExitWriter
<1> QED
  BY <1>3, <1>4, <1>7, <1>8, <1>9 DEF LockInv, SlotOK

(* The calls move between points that own the same things.                 *)
LEMMA CallReaderEnterKeeps ==
  ASSUME LockInv, NEW p \in Procs, CallReaderEnter(p)
  PROVE  LockInv'
<1>1. PICK s \in Slots : s = sfile[p]
  BY DEF LockInv, LockTypeOK
<1>2. LockTypeOK /\ Goto(p, "re_wait") /\ pc[p] = "idle" /\ sfile' = sfile
  BY <1>1 DEF LockInv, LockTypeOK, CallReaderEnter
<1>3. LockTypeOK'
  BY DEF LockInv, LockTypeOK, CallReaderEnter, Goto, Points, ReaderPoints, WriterPoints, lockVars
<1>4. ASSUME NEW t \in Slots, t # s
      PROVE  SlotOK(t)'
  <2>1. /\ reader_mutex'[t] = reader_mutex[t] /\ writer_mutex'[t] = writer_mutex[t]
        /\ reader_count'[t] = reader_count[t]
    BY <1>1, <1>4 DEF LockInv, LockTypeOK, CallReaderEnter, lockVars
  <2> QED
    BY <1>1, <1>2, <1>4, <2>1, OtherFile
<1>5. /\ OwnsReaderMutex(s)' = OwnsReaderMutex(s)
      /\ OwnsWriterMutex(s)' = OwnsWriterMutex(s)
      /\ Counted(s)' = Counted(s)
      /\ ReaderGroup(s)' = ReaderGroup(s)
      /\ FirstReader(s)' = FirstReader(s)
  BY <1>1, <1>2, Regroup DEF ReaderMutexPoints, WriterMutexPoints, CountedPoints, GroupPoints
<1>6. SlotOK(s) /\ ReaderMutexOK(s) /\ CountOK(s) /\ WriterMutexOK(s)
  BY DEF LockInv, SlotOK
<1>7. SlotOK(s)'
  BY <1>5, <1>6, SameOwners DEF CallReaderEnter, lockVars
<1> QED
  BY <1>3, <1>4, <1>7 DEF LockInv

(* reader_exit is called.                                                  *)
LEMMA CallReaderExitKeeps ==
  ASSUME LockInv, NEW p \in Procs, CallReaderExit(p)
  PROVE  LockInv'
<1>1. PICK s \in Slots : s = sfile[p]
  BY DEF LockInv, LockTypeOK
<1>2. LockTypeOK /\ Goto(p, "rx_wait") /\ pc[p] = "reading" /\ sfile' = sfile
  BY <1>1 DEF LockInv, LockTypeOK, CallReaderExit
<1>3. LockTypeOK'
  BY DEF LockInv, LockTypeOK, CallReaderExit, Goto, Points, ReaderPoints, WriterPoints, lockVars
<1>4. ASSUME NEW t \in Slots, t # s
      PROVE  SlotOK(t)'
  <2>1. /\ reader_mutex'[t] = reader_mutex[t] /\ writer_mutex'[t] = writer_mutex[t]
        /\ reader_count'[t] = reader_count[t]
    BY <1>1, <1>4 DEF LockInv, LockTypeOK, CallReaderExit, lockVars
  <2> QED
    BY <1>1, <1>2, <1>4, <2>1, OtherFile
<1>5. /\ OwnsReaderMutex(s)' = OwnsReaderMutex(s)
      /\ OwnsWriterMutex(s)' = OwnsWriterMutex(s)
      /\ Counted(s)' = Counted(s)
      /\ ReaderGroup(s)' = ReaderGroup(s)
      /\ FirstReader(s)' = FirstReader(s)
  BY <1>1, <1>2, Regroup DEF ReaderMutexPoints, WriterMutexPoints, CountedPoints, GroupPoints
<1>6. SlotOK(s) /\ ReaderMutexOK(s) /\ CountOK(s) /\ WriterMutexOK(s)
  BY DEF LockInv, SlotOK
<1>7. SlotOK(s)'
  BY <1>5, <1>6, SameOwners DEF CallReaderExit, lockVars
<1> QED
  BY <1>3, <1>4, <1>7 DEF LockInv

(* writer_enter is called.                                                 *)
LEMMA CallWriterEnterKeeps ==
  ASSUME LockInv, NEW p \in Procs, CallWriterEnter(p)
  PROVE  LockInv'
<1>1. PICK s \in Slots : s = sfile[p]
  BY DEF LockInv, LockTypeOK
<1>2. LockTypeOK /\ Goto(p, "we_writer") /\ pc[p] = "idle" /\ sfile' = sfile
  BY <1>1 DEF LockInv, LockTypeOK, CallWriterEnter
<1>3. LockTypeOK'
  BY DEF LockInv, LockTypeOK, CallWriterEnter, Goto, Points, ReaderPoints, WriterPoints, lockVars
<1>4. ASSUME NEW t \in Slots, t # s
      PROVE  SlotOK(t)'
  <2>1. /\ reader_mutex'[t] = reader_mutex[t] /\ writer_mutex'[t] = writer_mutex[t]
        /\ reader_count'[t] = reader_count[t]
    BY <1>1, <1>4 DEF LockInv, LockTypeOK, CallWriterEnter, lockVars
  <2> QED
    BY <1>1, <1>2, <1>4, <2>1, OtherFile
<1>5. /\ OwnsReaderMutex(s)' = OwnsReaderMutex(s)
      /\ OwnsWriterMutex(s)' = OwnsWriterMutex(s)
      /\ Counted(s)' = Counted(s)
      /\ ReaderGroup(s)' = ReaderGroup(s)
      /\ FirstReader(s)' = FirstReader(s)
  BY <1>1, <1>2, Regroup DEF ReaderMutexPoints, WriterMutexPoints, CountedPoints, GroupPoints
<1>6. SlotOK(s) /\ ReaderMutexOK(s) /\ CountOK(s) /\ WriterMutexOK(s)
  BY DEF LockInv, SlotOK
<1>7. SlotOK(s)'
  BY <1>5, <1>6, SameOwners DEF CallWriterEnter, lockVars
<1> QED
  BY <1>3, <1>4, <1>7 DEF LockInv

(* writer_exit is called.                                                  *)
LEMMA CallWriterExitKeeps ==
  ASSUME LockInv, NEW p \in Procs, CallWriterExit(p)
  PROVE  LockInv'
<1>1. PICK s \in Slots : s = sfile[p]
  BY DEF LockInv, LockTypeOK
<1>2. LockTypeOK /\ Goto(p, "wx_reader") /\ pc[p] = "writing" /\ sfile' = sfile
  BY <1>1 DEF LockInv, LockTypeOK, CallWriterExit
<1>3. LockTypeOK'
  BY DEF LockInv, LockTypeOK, CallWriterExit, Goto, Points, ReaderPoints, WriterPoints, lockVars
<1>4. ASSUME NEW t \in Slots, t # s
      PROVE  SlotOK(t)'
  <2>1. /\ reader_mutex'[t] = reader_mutex[t] /\ writer_mutex'[t] = writer_mutex[t]
        /\ reader_count'[t] = reader_count[t]
    BY <1>1, <1>4 DEF LockInv, LockTypeOK, CallWriterExit, lockVars
  <2> QED
    BY <1>1, <1>2, <1>4, <2>1, OtherFile
<1>5. /\ OwnsReaderMutex(s)' = OwnsReaderMutex(s)
      /\ OwnsWriterMutex(s)' = OwnsWriterMutex(s)
      /\ Counted(s)' = Counted(s)
      /\ ReaderGroup(s)' = ReaderGroup(s)
      /\ FirstReader(s)' = FirstReader(s)
  BY <1>1, <1>2, Regroup DEF ReaderMutexPoints, WriterMutexPoints, CountedPoints, GroupPoints
<1>6. SlotOK(s) /\ ReaderMutexOK(s) /\ CountOK(s) /\ WriterMutexOK(s)
  BY DEF LockInv, SlotOK
<1>7. SlotOK(s)'
  BY <1>5, <1>6, SameOwners DEF CallWriterExit, lockVars
<1> QED
  BY <1>3, <1>4, <1>7 DEF LockInv

(* get_file gives a process that owns nothing another File.                *)
LEMMA ChooseFileKeeps ==
  ASSUME LockInv, NEW p \in Procs, ChooseFile(p)
  PROVE  LockInv'
<1>1. LockTypeOK'
  BY DEF LockInv, LockTypeOK, ChooseFile, lockVars
<1>2. ASSUME NEW t \in Slots
      PROVE  SlotOK(t)'
  <2>1. ASSUME NEW P, "idle" \notin P
        PROVE  At(t, P)' = At(t, P)
    BY <2>1 DEF At, ChooseFile, LockInv, LockTypeOK
  <2>2. /\ OwnsReaderMutex(t)' = OwnsReaderMutex(t) /\ OwnsWriterMutex(t)' = OwnsWriterMutex(t)
        /\ Counted(t)' = Counted(t) /\ ReaderGroup(t)' = ReaderGroup(t)
        /\ FirstReader(t)' = FirstReader(t)
    BY <2>1 DEF OwnsReaderMutex, OwnsWriterMutex, Counted, ReaderGroup, FirstReader,
                ReaderMutexPoints, WriterMutexPoints, CountedPoints, GroupPoints
  <2> QED
    BY <2>2, SameOwners DEF LockInv, ChooseFile, lockVars
<1> QED
  BY <1>1, <1>2 DEF LockInv

(* Initially nobody owns anything.                                         *)
LEMMA InitInv ==
  LockInit => LockInv
<1> SUFFICES ASSUME LockInit PROVE LockInv
  OBVIOUS
<1>1. LockTypeOK
  BY DEF LockInit, LockTypeOK, Points
<1>2. ASSUME NEW t \in Slots
      PROVE  SlotOK(t)
  <2>1. ASSUME NEW P, "idle" \notin P
        PROVE  At(t, P) = {}
    BY <2>1 DEF At, LockInit
  <2>2. /\ OwnsReaderMutex(t) = {} /\ OwnsWriterMutex(t) = {} /\ Counted(t) = {}
        /\ ReaderGroup(t) = {} /\ FirstReader(t) = {}
    BY <2>1 DEF OwnsReaderMutex, OwnsWriterMutex, Counted, ReaderGroup, FirstReader,
                ReaderMutexPoints, WriterMutexPoints, CountedPoints, GroupPoints
  <2> QED
    BY <2>2, FS_EmptySet DEF SlotOK, ReaderMutexOK, CountOK, WriterMutexOK, LockInit
<1> QED
  BY <1>1, <1>2 DEF LockInv

(* Every step of a process that pairs its calls keeps the invariant.       *)
LEMMA NextKeeps ==
  LockInv /\ [LockNext]_vars => LockInv'
<1> SUFFICES ASSUME LockInv, [LockNext]_vars PROVE LockInv'
  OBVIOUS
<1>1. CASE UNCHANGED vars
  <2>1. \A t : /\ OwnsReaderMutex(t)' = OwnsReaderMutex(t)
               /\ OwnsWriterMutex(t)' = OwnsWriterMutex(t)
               /\ Counted(t)' = Counted(t) /\ ReaderGroup(t)' = ReaderGroup(t)
               /\ FirstReader(t)' = FirstReader(t)
    BY <1>1 DEF vars, OwnsReaderMutex, OwnsWriterMutex, Counted, ReaderGroup, FirstReader, At,
                ReaderMutexPoints, WriterMutexPoints, CountedPoints, GroupPoints
  <2>2. \A t \in Slots : SlotOK(t)'
    BY <1>1, <2>1, SameOwners DEF LockInv, vars, lockVars
  <2> QED
    BY <1>1, <2>2 DEF LockInv, LockTypeOK, vars, lockVars
<1>2. ASSUME NEW p \in Procs, RoutineStep(p)
      PROVE  LockInv'
  BY <1>2, FirstReaderKeeps, LaterReaderKeeps, ReaderEnterBlockKeeps, ReaderEnterPostKeeps,
     ReaderExitWaitKeeps, ReaderExitPostKeeps, WriterEnterWriterKeeps, WriterEnterReaderKeeps,
     WriterExitReaderKeeps, WriterExitWriterKeeps DEF RoutineStep
<1>3. ASSUME NEW p \in Procs,
             \/ CallReaderEnter(p) \/ CallReaderExit(p)
             \/ CallWriterEnter(p) \/ CallWriterExit(p) \/ ChooseFile(p)
      PROVE  LockInv'
  BY <1>3, CallReaderEnterKeeps, CallReaderExitKeeps, CallWriterEnterKeeps,
     CallWriterExitKeeps, ChooseFileKeeps
<1> QED
  BY <1>1, <1>2, <1>3 DEF LockNext

(* The lock of sync.c has at most one owner of reader_mutex, counts its    *)
(* readers, and gives writer_mutex to nobody, one writer or the readers.   *)
THEOREM LockInvariant == LockSpec => []LockInv
<1> QED
  BY InitInv, NextKeeps, PTL DEF LockSpec

(* The invariant leaves no room for a reader or a second writer in a       *)
(* write section.                                                          *)
LEMMA InvExcludes == LockInv => WriterExcludes
<1> SUFFICES ASSUME LockInv, NEW p \in Procs, NEW q \in Procs, p # q,
                    sfile[p] = sfile[q], pc[p] = "writing"
             PROVE  pc[q] \notin {"reading", "writing"}
  BY DEF WriterExcludes
<1>1. PICK s \in Slots : s = sfile[p]
  BY DEF LockInv, LockTypeOK
<1>2. p \in OwnsWriterMutex(s)
  BY <1>1 DEF OwnsWriterMutex, At, WriterMutexPoints
<1>3. WriterMutexOK(s)
  BY <1>1 DEF LockInv, SlotOK
<1>4. q \notin OwnsWriterMutex(s) /\ q \notin ReaderGroup(s)
  BY <1>2, <1>3 DEF WriterMutexOK
<1> QED
  BY <1>1, <1>4 DEF OwnsWriterMutex, ReaderGroup, At, WriterMutexPoints, GroupPoints

(* Nobody reads or writes a File while a process is between writer_enter   *)
(* and writer_exit of it, whatever the number of clients and files.        *)
THEOREM WriterExclusion == LockSpec => []WriterExcludes
<1> QED
  BY LockInvariant, InvExcludes, PTL

(* A File that nobody uses has its semaphores and reader_count back as     *)
(* init_file left them: no sequence of paired calls wears the lock out.    *)
THEOREM LockRestored == LockSpec => []RestoredWhenFree
<1>1. LockInv => RestoredWhenFree
  <2> SUFFICES ASSUME LockInv, NEW s \in Slots,
                      \A p \in Procs : sfile[p] = s => pc[p] = "idle"
               PROVE  reader_count[s] = 0 /\ reader_mutex[s] = 1 /\ writer_mutex[s] = 1
    BY DEF RestoredWhenFree
  <2>1. ASSUME NEW P, "idle" \notin P
        PROVE  At(s, P) = {}
    BY <2>1 DEF At
  <2>2. /\ OwnsReaderMutex(s) = {} /\ OwnsWriterMutex(s) = {} /\ Counted(s) = {}
        /\ ReaderGroup(s) = {}
    BY <2>1 DEF OwnsReaderMutex, OwnsWriterMutex, Counted, ReaderGroup,
                ReaderMutexPoints, WriterMutexPoints, CountedPoints, GroupPoints
  <2> QED
    BY <2>2, FS_EmptySet DEF LockInv, SlotOK, ReaderMutexOK, CountOK, WriterMutexOK
<1> QED
  BY <1>1, LockInvariant, PTL

-----------------------------------------------------------------------------
(* Where the commands are, and where they are in the lock.                 *)
CommandsAt ==
  /\ pc \in [Procs -> Points] /\ sfile \in [Procs -> Slots]
  /\ at \in [Procs -> Labels] /\ cmd \in [Procs -> Commands]
  /\ PlacesOK

(* A command goes on, without a call of a lock routine.                    *)
LEMMA Goes ==
  ASSUME CommandsAt, NEW p \in Procs, NEW b \in Labels, at' = [at EXCEPT ![p] = b],
         UNCHANGED <<reader_count, reader_mutex, writer_mutex, pc, sfile, size, name, cmd>>,
         Placed(b, pc[p], cmd[p], name[sfile[p]])
  PROVE  CommandsAt' /\ [LockNext]_vars
<1>1. CommandsAt'
  BY DEF CommandsAt, PlacesOK
<1> QED
  BY <1>1 DEF vars, lockVars

(* A command calls a lock routine, at the end of a section or outside.     *)
LEMMA Calls ==
  ASSUME CommandsAt, NEW p \in Procs, NEW b \in Labels, NEW y \in Points,
         at' = [at EXCEPT ![p] = b], pc' = [pc EXCEPT ![p] = y],
         UNCHANGED <<reader_count, reader_mutex, writer_mutex, sfile, size, name, cmd>>,
         \/ pc[p] = "idle" /\ y \in {"re_wait", "we_writer"}
         \/ pc[p] = "reading" /\ y = "rx_wait"
         \/ pc[p] = "writing" /\ y = "wx_reader",
         Placed(b, y, cmd[p], name[sfile[p]])
  PROVE  CommandsAt' /\ [LockNext]_vars
<1>1. CommandsAt'
  BY DEF CommandsAt, PlacesOK
<1>2. LockNext
  BY DEF LockNext, CallReaderEnter, CallReaderExit, CallWriterEnter, CallWriterExit,
         Goto, lockVars
<1> QED
  BY <1>1, <1>2

(* A command leaves its section and goes on at b.                          *)
LEMMA Leaves ==
  ASSUME CommandsAt, NEW p \in Procs, NEW b \in Left, pc[p] \in {"reading", "writing"},
         Leave(p, b),
         UNCHANGED <<reader_count, reader_mutex, writer_mutex, sfile, size, name, cmd>>,
         b # "ready" => cmd[p].op \in Ops,
         b = "wl_enter" => name[sfile[p]] = cmd[p].file
  PROVE  CommandsAt' /\ [LockNext]_vars
<1> DEFINE y == IF pc[p] = "reading" THEN "rx_wait" ELSE "wx_reader"
<1>1. y \in Points /\ b \in Labels
  BY DEF Points, ReaderPoints, WriterPoints, Labels, Left
<1>2. at' = [at EXCEPT ![p] = b] /\ pc' = [pc EXCEPT ![p] = y]
  BY DEF Leave, Call, Goto, Go
<1>3. \/ pc[p] = "idle" /\ y \in {"re_wait", "we_writer"}
      \/ pc[p] = "reading" /\ y = "rx_wait"
      \/ pc[p] = "writing" /\ y = "wx_reader"
  OBVIOUS
<1>4. Placed(b, y, cmd[p], name[sfile[p]])
  BY DEF Placed, Left, Outside, HasSlot, Copies, ReadEntry, ReadBody, WriteEntry, WriteBody
<1> HIDE DEF y
<1> QED
  BY <1>1, <1>2, <1>3, <1>4, Calls

(* A process gives up where it is.                                         *)
LEMMA Dies ==
  ASSUME CommandsAt, NEW p \in Procs, Go(p, "dead"),
         UNCHANGED <<reader_count, reader_mutex, writer_mutex, pc, sfile, size, name, cmd>>
  PROVE  CommandsAt' /\ [LockNext]_vars
<1>1. "dead" \in Labels /\ Placed("dead", pc[p], cmd[p], name[sfile[p]])
  BY DEF Labels, Placed, Left, Outside, HasSlot, Copies, ReadEntry, ReadBody, WriteEntry, WriteBody
<1> QED
  BY <1>1, Goes DEF Go

LEMMA Aborts ==
  ASSUME CommandsAt, NEW p \in Procs, pc[p] \in {"reading", "writing"}, Abort(p),
         UNCHANGED <<reader_count, reader_mutex, writer_mutex, sfile, size, name, cmd>>
  PROVE  CommandsAt' /\ [LockNext]_vars
<1>1. CASE Leave(p, "ready")
  BY <1>1, Leaves DEF Left
<1>2. CASE Gone(p)
  BY <1>2, Dies DEF Gone
<1> QED
  BY <1>1, <1>2 DEF Abort

LEMMA Finishes ==
  ASSUME CommandsAt, NEW p \in Procs, pc[p] = "idle", Finish(p),
         UNCHANGED <<reader_count, reader_mutex, writer_mutex, sfile, size, name, cmd>>
  PROVE  CommandsAt' /\ [LockNext]_vars
<1>1. CASE Go(p, "ready") /\ UNCHANGED <<pc, acked>>
  <2>1. "ready" \in Labels /\ Placed("ready", pc[p], cmd[p], name[sfile[p]])
    BY DEF Labels, Placed, Left, Outside, HasSlot, Copies, ReadEntry, ReadBody, WriteEntry, WriteBody
  <2> QED
    BY <1>1, <2>1, Goes DEF Go
<1>2. CASE Gone(p)
  BY <1>2, Dies DEF Gone
<1> QED
  BY <1>1, <1>2 DEF Finish

-----------------------------------------------------------------------------
(* The commands, one lemma for each group of actions: when every file has  *)
(* been registered and the sections are paired, a step of a command is a   *)
(* call of the discipline LockSpec, or changes nothing of the lock.        *)
LEMMA RequestPlaces ==
  ASSUME FileAssumption, CommandsAt, NEW p \in Procs, Request(p)
  PROVE  CommandsAt' /\ [LockNext]_vars
<1>1. at[p] = "ready" /\ pc[p] = "idle"
  BY DEF Request, CommandsAt, PlacesOK, Placed, Left
<1>2. PICK op \in Ops, n \in Names :
        \E k \in IF op \in {"readF_line", "writeT_line"} THEN LineNumbers ELSE {0} :
          /\ cmd' = [cmd EXCEPT ![p] = [op |-> op, file |-> n, line |-> k]]
          /\ Go(p, IF op = "download" THEN "dl_server" ELSE "get_file")
  BY DEF Request
<1>3. PICK k \in LineNumbers \cup {0} :
        /\ cmd' = [cmd EXCEPT ![p] = [op |-> op, file |-> n, line |-> k]]
        /\ Go(p, IF op = "download" THEN "dl_server" ELSE "get_file")
  BY <1>2
<1> DEFINE c == [op |-> op, file |-> n, line |-> k]
           b == IF op = "download" THEN "dl_server" ELSE "get_file"
<1>4. c \in Commands /\ c.op = op /\ b \in Labels
  BY DEF FileAssumption, Commands, Labels
<1>5. Placed(b, pc[p], c, name[sfile[p]])
  BY <1>1 DEF Placed, Left, Outside, HasSlot, Copies, ReadEntry, ReadBody, WriteEntry, WriteBody
<1>6. cmd' = [cmd EXCEPT ![p] = c] /\ at' = [at EXCEPT ![p] = b]
  BY <1>3 DEF Go
<1> HIDE DEF c, b
<1>7. UNCHANGED <<reader_count, reader_mutex, writer_mutex, pc, sfile, size, name>>
  BY DEF Request, lockVars, tableVars
<1>8. CommandsAt'
  BY <1>4, <1>5, <1>6, <1>7 DEF CommandsAt, PlacesOK
<1> QED
  BY <1>7, <1>8 DEF vars, lockVars

(* get_file finds the one slot of the file.                                *)
LEMMA GetFilePlaces ==
  ASSUME FileAssumption, AllRegistered, CommandsAt, NEW p \in Procs, GetFile(p)
  PROVE  CommandsAt' /\ [LockNext]_vars
<1> DEFINE found == {s \in Slots : s < size /\ name[s] = File(p)}
<1>1. at[p] = "get_file" /\ pc[p] = "idle" /\ cmd[p].op \in Ops /\ File(p) \in Names
  BY DEF GetFile, CommandsAt, PlacesOK, Placed, Outside, Commands, File
<1>2. \E s \in Slots : s < size /\ name[s] = File(p)
  <2>1. PICK k \in DOMAIN Registered : Registered[k] = File(p)
    BY <1>1 DEF AllRegistered
  <2>2. k - 1 \in Slots /\ k - 1 < size /\ name[k - 1] = File(p)
    BY <2>1 DEF AllRegistered, FileAssumption, CommandsAt, PlacesOK
  <2> QED
    BY <2>2
<1>3. \E s \in found : \A t \in found : s <= t
  <2>1. PICK r \in Slots : r < size /\ name[r] = File(p)
    BY <1>2
  <2>2. ASSUME NEW t \in found
        PROVE  t = r
    <3>1. t \in 0..Len(Registered) - 1 /\ r \in 0..Len(Registered) - 1 /\ Len(Registered) \in Nat
      BY <2>1 DEF AllRegistered, FileAssumption
    <3>2. Registered[t + 1] = Registered[r + 1]
      BY <2>1, <3>1 DEF AllRegistered, CommandsAt, PlacesOK
    <3>3. t + 1 \in DOMAIN Registered /\ r + 1 \in DOMAIN Registered
      BY <3>1 DEF FileAssumption
    <3>4. t + 1 = r + 1
      BY <3>2, <3>3 DEF FileAssumption
    <3> QED
      BY <3>1, <3>4
  <2>3. r \in Int
    BY DEF AllRegistered, FileAssumption
  <2> QED
    BY <2>1, <2>2, <2>3
<1> DEFINE slot == CHOOSE s \in found : \A t \in found : s <= t
<1>4. slot \in found
  BY <1>3
<1>5. /\ sfile' = [sfile EXCEPT ![p] = slot] /\ at' = [at EXCEPT ![p] = "enter"]
      /\ UNCHANGED <<reader_count, reader_mutex, writer_mutex, pc, size, name, cmd>>
  BY <1>2 DEF GetFile, Go, lockVars, tableVars, cmdVars
<1>6. slot \in Slots /\ name[slot] = cmd[p].file
  BY <1>4 DEF File
<1> HIDE DEF found, slot
<1>7. "enter" \in Labels /\ Placed("enter", pc[p], cmd[p], name[slot])
  BY <1>1, <1>6 DEF Labels, Placed, Left, Outside, HasSlot, Copies, ReadEntry, ReadBody, WriteEntry, WriteBody
<1>8. CommandsAt'
  BY <1>5, <1>6, <1>7 DEF CommandsAt, PlacesOK
<1>9. LockNext
  BY <1>1, <1>5, <1>6 DEF LockNext, ChooseFile, lockVars
<1> QED
  BY <1>8, <1>9

(* No file is ever added to the table.                                     *)
LEMMA TablePlaces ==
  ASSUME FileAssumption, AllRegistered, CommandsAt, NEW p \in Procs, Table(p)
  PROVE  CommandsAt' /\ [LockNext]_vars
<1>1. at[p] \notin {"init_check", "init_slot", "init_load", "init_store"}
  BY DEF CommandsAt, PlacesOK, Placed, Left, Outside, HasSlot, Copies, ReadEntry, ReadBody, WriteEntry, WriteBody
<1>2. GetFile(p)
  BY <1>1 DEF Table, InitFileCheck, InitFileSlot, InitFileLoad, InitFileStore
<1> QED
  BY <1>2, GetFilePlaces

LEMMA EnterPlaces ==
  ASSUME FileAssumption, Paired, CommandsAt, NEW p \in Procs, Enter(p)
  PROVE  CommandsAt' /\ [LockNext]_vars
<1>1. /\ at[p] = "enter" /\ pc[p] = "idle" /\ name[sfile[p]] = cmd[p].file
      /\ Op(p) \in {"readF", "readF_invalid", "writeT", "writeT_line", "upload", "download"}
      /\ cmd[p].op \in Ops
  BY DEF Enter, CommandsAt, PlacesOK, Placed, Outside, HasSlot, FileAssumption, Paired, CommandNames, Op
<1> DEFINE y == IF Reads(Op(p)) THEN "re_wait" ELSE "we_writer"
           b == CASE Op(p) \in {"readF", "readF_line", "readF_invalid"} -> "rd_open"
                  [] Op(p) = "writeT" -> "wa_open"
                  [] Op(p) = "writeT_line" -> "wl_open"
                  [] Op(p) = "upload" -> "up_open"
                  [] Op(p) = "download" -> "dl_create"
<1>2. /\ at' = [at EXCEPT ![p] = b] /\ pc' = [pc EXCEPT ![p] = y]
      /\ UNCHANGED <<reader_count, reader_mutex, writer_mutex, sfile, size, name, cmd>>
  BY DEF Enter, Call, Goto, Go, lockVars, tableVars, cmdVars
<1>3. /\ Op(p) \in {"readF", "readF_invalid"} => y = "re_wait" /\ b = "rd_open"
      /\ Op(p) = "writeT" => y = "we_writer" /\ b = "wa_open"
      /\ Op(p) = "writeT_line" => y = "re_wait" /\ b = "wl_open"
      /\ Op(p) = "upload" => y = "re_wait" /\ b = "up_open"
      /\ Op(p) = "download" => y = "we_writer" /\ b = "dl_create"
  BY DEF Reads
<1> HIDE DEF y, b
<1>4. y \in {"re_wait", "we_writer"} /\ y \in Points /\ b \in Labels
  BY <1>1, <1>3 DEF Points, ReaderPoints, WriterPoints, Labels
<1>5. Placed(b, y, cmd[p], name[sfile[p]])
  BY <1>1, <1>3 DEF Op, Placed, Left, Outside, HasSlot, Copies, ReadEntry, ReadBody, WriteEntry, WriteBody
<1> QED
  BY <1>1, <1>2, <1>4, <1>5, Calls

(* A lock routine moves on within what Placed allows at a label.           *)
LEMMA LockStepPlaces ==
  ASSUME CommandsAt, NEW p \in Procs, LockStep(p)
  PROVE  CommandsAt' /\ [LockNext]_vars
<1>1. PICK y \in Points :
        /\ pc' = [pc EXCEPT ![p] = y]
        /\ sfile' = sfile
        /\ \/ /\ pc[p] \in {"re_wait", "re_block", "re_post"}
              /\ y \in {"re_block", "re_post", "reading"}
           \/ /\ pc[p] \in {"rx_wait", "rx_post", "wx_reader", "wx_writer"}
              /\ y \in {"rx_post", "wx_writer", "idle"}
           \/ /\ pc[p] \in {"we_writer", "we_reader"}
              /\ y \in {"we_reader", "writing"}
  <2> USE DEF Points, ReaderPoints, WriterPoints, Goto
  <2>1. CASE ReaderEnterWait(p)
    BY <2>1 DEF ReaderEnterWait
  <2>2. CASE ReaderEnterBlock(p)
    BY <2>2 DEF ReaderEnterBlock
  <2>3. CASE ReaderEnterPost(p)
    BY <2>3 DEF ReaderEnterPost
  <2>4. CASE ReaderExitWait(p)
    BY <2>4 DEF ReaderExitWait
  <2>5. CASE ReaderExitPost(p)
    BY <2>5 DEF ReaderExitPost
  <2>6. CASE WriterEnterWriter(p)
    BY <2>6 DEF WriterEnterWriter
  <2>7. CASE WriterEnterReader(p)
    BY <2>7 DEF WriterEnterReader
  <2>8. CASE WriterExitReader(p)
    BY <2>8 DEF WriterExitReader
  <2>9. CASE WriterExitWriter(p)
    BY <2>9 DEF WriterExitWriter
  <2> QED
    BY <2>1, <2>2, <2>3, <2>4, <2>5, <2>6, <2>7, <2>8, <2>9 DEF LockStep, RoutineStep
<1>2. UNCHANGED <<size, name, cmd, at>>
  BY DEF LockStep, tableVars, cmdVars
<1>3. Placed(at[p], y, cmd[p], name[sfile[p]])
  BY <1>1 DEF CommandsAt, PlacesOK, Placed, Left, Outside, HasSlot, Copies, ReadEntry, ReadBody, WriteEntry, WriteBody
<1>4. CommandsAt'
  BY <1>1, <1>2, <1>3 DEF CommandsAt, PlacesOK
<1>5. LockNext
  BY DEF LockNext, LockStep
<1> QED
  BY <1>4, <1>5

LEMMA ReadFPlaces ==
  ASSUME Paired, CommandsAt, NEW p \in Procs, ReadF(p)
  PROVE  CommandsAt' /\ [LockNext]_vars
<1>1. at[p] \notin {"rd_line", "rd_exit"}
  BY DEF CommandsAt, PlacesOK, Placed, Left, Outside, HasSlot, Copies, ReadEntry, ReadBody, WriteEntry, WriteBody
<1>2. CASE ReadFOpen(p)
  <2>1. UNCHANGED <<reader_count, reader_mutex, writer_mutex, sfile, size, name, cmd>>
    BY <1>2 DEF ReadFOpen, lockVars, tableVars
  <2>2. at[p] = "rd_open" /\ pc[p] = "reading" /\ Op(p) \in {"readF", "readF_invalid"}
    BY <1>2 DEF ReadFOpen, In, CommandsAt, PlacesOK, Placed, Op
  <2>3. Abort(p) \/ (Go(p, "rd_copy") /\ pc' = pc)
    BY <1>2, <2>2 DEF ReadFOpen
  <2>4. CASE Go(p, "rd_copy") /\ pc' = pc
    <3>1. "rd_copy" \in Labels /\ Placed("rd_copy", pc[p], cmd[p], name[sfile[p]])
      BY <2>2 DEF Labels, CommandsAt, PlacesOK, Placed, Left, Outside, HasSlot, Copies, ReadEntry, ReadBody, WriteEntry, WriteBody
    <3> QED
      BY <2>1, <2>4, <3>1, Goes DEF Go
  <2> QED
    BY <2>1, <2>2, <2>3, <2>4, Aborts
<1>3. CASE ReadFCopy(p)
  <2>1. UNCHANGED <<reader_count, reader_mutex, writer_mutex, sfile, size, name, cmd>>
    BY <1>3 DEF ReadFCopy, lockVars, tableVars
  <2>2. pc[p] = "reading"
    BY <1>3 DEF ReadFCopy, In
  <2>3. UNCHANGED <<pc, at>> \/ Leave(p, "ready") \/ Gone(p)
    BY <1>3 DEF ReadFCopy
  <2>4. CASE UNCHANGED <<pc, at>>
    BY <2>1, <2>4 DEF CommandsAt, PlacesOK, vars, lockVars
  <2> QED
    BY <2>1, <2>2, <2>3, <2>4, Leaves, Dies DEF Left, Gone
<1> QED
  BY <1>1, <1>2, <1>3 DEF ReadF, ReadFLine, ReadFLineExit, In

LEMMA WriteTPlaces ==
  ASSUME Paired, CommandsAt, NEW p \in Procs, WriteT(p)
  PROVE  CommandsAt' /\ [LockNext]_vars
<1>u. UNCHANGED <<reader_count, reader_mutex, writer_mutex, sfile, size, name, cmd>>
  BY DEF WriteT, WriteTOpen, WriteTAppend, WriteTAck, WriteTLineCopy, WriteTLineShort,
         WriteTLineEnter, WriteTLineTrunc, WriteTLineBack, WriteTLineAck,
         lockVars, tableVars, cmdVars
<1>p. Placed(at[p], pc[p], cmd[p], name[sfile[p]])
  BY DEF CommandsAt, PlacesOK
<1>1. CASE WriteTOpen(p)
  <2>1. at[p] = "wa_open" /\ pc[p] = "writing"
    BY <1>1 DEF WriteTOpen, In
  <2>2. CASE Go(p, "wa_write") /\ pc' = pc
    <3>1. "wa_write" \in Labels /\ Placed("wa_write", pc[p], cmd[p], name[sfile[p]])
      BY <1>p, <2>1 DEF Labels, Placed, Left, Outside, HasSlot, Copies, ReadEntry, ReadBody, WriteEntry, WriteBody
    <3> QED
      BY <1>u, <2>2, <3>1, Goes DEF Go
  <2> QED
    BY <1>1, <1>u, <2>1, <2>2, Aborts DEF WriteTOpen
<1>2. CASE WriteTAppend(p)
  <2>1. at[p] = "wa_write" /\ pc[p] = "writing" /\ cmd[p].op \in Ops
    BY <1>2, <1>p DEF WriteTAppend, In, Placed
  <2> QED
    BY <1>2, <1>u, <2>1, Leaves, Aborts DEF WriteTAppend, Left
<1>3. CASE WriteTAck(p)
  <2>1. at[p] = "wa_ack" /\ pc[p] = "idle"
    BY <1>3 DEF WriteTAck, In
  <2>2. CASE Go(p, "ready") /\ pc' = pc
    <3>1. "ready" \in Labels /\ Placed("ready", pc[p], cmd[p], name[sfile[p]])
      BY <2>1 DEF Labels, Placed, Left, Outside, HasSlot, Copies, ReadEntry, ReadBody, WriteEntry, WriteBody
    <3> QED
      BY <1>u, <2>2, <3>1, Goes DEF Go
  <2> QED
    BY <1>3, <1>u, <2>2, Dies DEF WriteTAck, Gone
<1>4. CASE WriteTLineCopy(p)
  <2>1. at[p] = "wl_open" /\ pc[p] = "reading" /\ cmd[p].op \in Ops /\ name[sfile[p]] = cmd[p].file
    BY <1>4, <1>p DEF WriteTLineCopy, In, Placed, ReadEntry
  <2>2. \/ Abort(p)
        \/ Go(p, "dead") /\ pc' = pc
        \/ Leave(p, "wl_enter")
        \/ Leave(p, "wl_short")
    BY <1>4 DEF WriteTLineCopy, Paired, Fails
  <2> QED
    BY <1>u, <2>1, <2>2, Aborts, Dies, Leaves DEF Left
<1>5. CASE WriteTLineShort(p) \/ WriteTLineAck(p)
  BY <1>5, <1>u, Finishes DEF WriteTLineShort, WriteTLineAck, In
<1>6. CASE WriteTLineEnter(p)
  <2>1. at[p] = "wl_enter" /\ pc[p] = "idle"
    BY <1>6 DEF WriteTLineEnter, In
  <2>2. "wl_trunc" \in Labels /\ Placed("wl_trunc", "we_writer", cmd[p], name[sfile[p]])
    BY <1>p, <2>1 DEF Labels, Placed, Left, Outside, HasSlot, Copies, ReadEntry, ReadBody, WriteEntry, WriteBody
  <2>3. at' = [at EXCEPT ![p] = "wl_trunc"] /\ pc' = [pc EXCEPT ![p] = "we_writer"]
    BY <1>6 DEF WriteTLineEnter, Call, Goto, Go
  <2> QED
    BY <1>u, <2>1, <2>2, <2>3, Calls DEF Points, WriterPoints
<1>7. CASE WriteTLineTrunc(p)
  <2>1. at[p] = "wl_trunc" /\ pc[p] = "writing"
    BY <1>7 DEF WriteTLineTrunc, In
  <2>2. CASE Go(p, "wl_back") /\ pc' = pc
    <3>1. "wl_back" \in Labels /\ Placed("wl_back", pc[p], cmd[p], name[sfile[p]])
      BY <1>p, <2>1 DEF Labels, Placed, Left, Outside, HasSlot, Copies, ReadEntry, ReadBody, WriteEntry, WriteBody
    <3> QED
      BY <1>u, <2>2, <3>1, Goes DEF Go
  <2> QED
    BY <1>7, <1>u, <2>1, <2>2, Aborts DEF WriteTLineTrunc
<1>8. CASE WriteTLineBack(p)
  <2>1. at[p] = "wl_back" /\ pc[p] = "writing" /\ cmd[p].op \in Ops
    BY <1>8, <1>p DEF WriteTLineBack, In, Placed
  <2> QED
    BY <1>8, <1>u, <2>1, Leaves DEF WriteTLineBack, Left
<1> QED
  BY <1>1, <1>2, <1>3, <1>4, <1>5, <1>6, <1>7, <1>8 DEF WriteT

LEMMA UploadPlaces ==
  ASSUME CommandsAt, NEW p \in Procs, Upload(p)
  PROVE  CommandsAt' /\ [LockNext]_vars
<1>u. UNCHANGED <<reader_count, reader_mutex, writer_mutex, sfile, size, name, cmd>>
  BY DEF Upload, UploadOpen, UploadCreate, UploadCopy, UploadAck, lockVars, tableVars
<1>p. Placed(at[p], pc[p], cmd[p], name[sfile[p]])
  BY DEF CommandsAt, PlacesOK
<1>1. CASE UploadOpen(p)
  <2>1. at[p] = "up_open" /\ pc[p] = "reading"
    BY <1>1 DEF UploadOpen, In
  <2>2. CASE Go(p, "up_create") /\ pc' = pc
    <3>1. "up_create" \in Labels /\ Placed("up_create", pc[p], cmd[p], name[sfile[p]])
      BY <1>p, <2>1 DEF Labels, Placed, Left, Outside, HasSlot, Copies, ReadEntry, ReadBody, WriteEntry, WriteBody
    <3> QED
      BY <1>u, <2>2, <3>1, Goes DEF Go
  <2> QED
    BY <1>1, <1>u, <2>1, <2>2, Aborts DEF UploadOpen
<1>2. CASE UploadCreate(p)
  <2>1. at[p] = "up_create" /\ pc[p] = "reading"
    BY <1>2 DEF UploadCreate, In
  <2>2. CASE Go(p, "up_copy") /\ pc' = pc
    <3>1. "up_copy" \in Labels /\ Placed("up_copy", pc[p], cmd[p], name[sfile[p]])
      BY <1>p, <2>1 DEF Labels, Placed, Left, Outside, HasSlot, Copies, ReadEntry, ReadBody, WriteEntry, WriteBody
    <3> QED
      BY <1>u, <2>2, <3>1, Goes DEF Go
  <2> QED
    BY <1>2, <1>u, <2>1, <2>2, Aborts DEF UploadCreate
<1>3. CASE UploadCopy(p)
  <2>1. pc[p] = "reading" /\ cmd[p].op \in Ops
    BY <1>3, <1>p DEF UploadCopy, In, Placed
  <2>2. UNCHANGED <<pc, at>> \/ Leave(p, "up_ack") \/ Abort(p)
    BY <1>3 DEF UploadCopy
  <2>3. CASE UNCHANGED <<pc, at>>
    BY <1>u, <2>3 DEF CommandsAt, PlacesOK, vars, lockVars
  <2> QED
    BY <1>u, <2>1, <2>2, <2>3, Leaves, Aborts DEF Left
<1>4. CASE UploadAck(p)
  BY <1>4, <1>u, Finishes DEF UploadAck, In
<1> QED
  BY <1>1, <1>2, <1>3, <1>4 DEF Upload

LEMMA DownloadPlaces ==
  ASSUME CommandsAt, NEW p \in Procs, Download(p)
  PROVE  CommandsAt' /\ [LockNext]_vars
<1>u. UNCHANGED <<reader_count, reader_mutex, writer_mutex, sfile, size, name, cmd>>
  BY DEF Download, DownloadServer, DownloadLocal, DownloadCreate, DownloadCopy, DownloadAck,
         lockVars, tableVars
<1>p. Placed(at[p], pc[p], cmd[p], name[sfile[p]])
  BY DEF CommandsAt, PlacesOK
<1>1. CASE DownloadServer(p)
  <2>1. at[p] = "dl_server" /\ pc[p] = "idle"
    BY <1>1, <1>p DEF DownloadServer, Placed, Outside
  <2>2. CASE Go(p, "dl_local") /\ pc' = pc
    <3>1. "dl_local" \in Labels /\ Placed("dl_local", pc[p], cmd[p], name[sfile[p]])
      BY <1>p, <2>1 DEF Labels, Placed, Left, Outside, HasSlot, Copies, ReadEntry, ReadBody, WriteEntry, WriteBody
    <3> QED
      BY <1>u, <2>2, <3>1, Goes DEF Go
  <2> QED
    BY <1>1, <1>u, <2>1, <2>2, Finishes DEF DownloadServer
<1>2. CASE DownloadLocal(p)
  <2>1. at[p] = "dl_local" /\ pc[p] = "idle"
    BY <1>2, <1>p DEF DownloadLocal, Placed, Outside
  <2>2. CASE Go(p, "get_file") /\ pc' = pc
    <3>1. "get_file" \in Labels /\ Placed("get_file", pc[p], cmd[p], name[sfile[p]])
      BY <1>p, <2>1 DEF Labels, Placed, Left, Outside, HasSlot, Copies, ReadEntry, ReadBody, WriteEntry, WriteBody
    <3> QED
      BY <1>u, <2>2, <3>1, Goes DEF Go
  <2> QED
    BY <1>2, <1>u, <2>1, <2>2, Finishes DEF DownloadLocal
<1>3. CASE DownloadCreate(p)
  <2>1. at[p] = "dl_create" /\ pc[p] = "writing"
    BY <1>3 DEF DownloadCreate, In
  <2>2. CASE Go(p, "dl_copy") /\ pc' = pc
    <3>1. "dl_copy" \in Labels /\ Placed("dl_copy", pc[p], cmd[p], name[sfile[p]])
      BY <1>p, <2>1 DEF Labels, Placed, Left, Outside, HasSlot, Copies, ReadEntry, ReadBody, WriteEntry, WriteBody
    <3> QED
      BY <1>u, <2>2, <3>1, Goes DEF Go
  <2> QED
    BY <1>3, <1>u, <2>1, <2>2, Aborts DEF DownloadCreate
<1>4. CASE DownloadCopy(p)
  <2>1. pc[p] = "writing" /\ cmd[p].op \in Ops
    BY <1>4, <1>p DEF DownloadCopy, In, Placed
  <2>2. UNCHANGED <<pc, at>> \/ Leave(p, "dl_ack") \/ Abort(p)
    BY <1>4 DEF DownloadCopy
  <2>3. CASE UNCHANGED <<pc, at>>
    BY <1>u, <2>3 DEF CommandsAt, PlacesOK, vars, lockVars
  <2> QED
    BY <1>u, <2>1, <2>2, <2>3, Leaves, Aborts DEF Left
<1>5. CASE DownloadAck(p)
  BY <1>5, <1>u, Finishes DEF DownloadAck, In
<1> QED
  BY <1>1, <1>2, <1>3, <1>4, <1>5 DEF Download

-----------------------------------------------------------------------------
(* Initially the lock of every slot is free.                               *)
LEMMA InitPlaces ==
  ASSUME FileAssumption, AllRegistered, FileInit
  PROVE  LockInit /\ CommandsAt
<1>1. \A s \in Slots : s \in Nat /\ s < Len(Registered) /\ s + 1 \in DOMAIN Registered
  BY DEF AllRegistered, FileAssumption
<1>2. LockInit
  BY <1>1 DEF FileInit, LockInit, FileAssumption
<1>3. NoCmd \in Commands
  BY DEF NoCmd, Commands, FileAssumption
<1>4. pc \in [Procs -> Points] /\ sfile \in [Procs -> Slots] /\ at \in [Procs -> Labels]
      /\ cmd \in [Procs -> Commands]
  BY <1>3 DEF FileInit, FileAssumption, Points, Labels
<1>5. size = Len(Registered) /\ name = [s \in Slots |-> Registered[s + 1]]
  BY <1>1 DEF FileInit
<1>6. ASSUME NEW p \in Procs
      PROVE  Placed(at[p], pc[p], cmd[p], name[sfile[p]])
  BY DEF FileInit, Placed, Left, Outside, HasSlot, Copies, ReadEntry, ReadBody, WriteEntry, WriteBody
<1> QED
  BY <1>2, <1>4, <1>5, <1>6 DEF CommandsAt, PlacesOK

LEMMA NextPlaces ==
  ASSUME FileAssumption, AllRegistered, Paired, CommandsAt, [FileNext]_allVars
  PROVE  CommandsAt' /\ [LockNext]_vars
<1>1. CASE UNCHANGED allVars
  BY <1>1 DEF allVars, tableVars, cmdVars, vars, CommandsAt, PlacesOK
<1>2. ASSUME NEW p \in Procs,
             \/ Request(p) \/ Table(p) \/ Enter(p) \/ LockStep(p)
             \/ ReadF(p) \/ WriteT(p) \/ Upload(p) \/ Download(p)
      PROVE  CommandsAt' /\ [LockNext]_vars
  BY <1>2, RequestPlaces, TablePlaces, EnterPlaces, LockStepPlaces, ReadFPlaces, WriteTPlaces,
     UploadPlaces, DownloadPlaces
<1> QED
  BY <1>1, <1>2 DEF FileNext

(* The commands of server.c use the lock as sync.c wants it used.          *)
THEOREM CommandsKeepDiscipline ==
  ASSUME AllRegistered, Paired
  PROVE  FileSpec => LockSpec
<1>1. FileInit => LockInit /\ CommandsAt
  BY InitPlaces, FileAssumption
<1>2. CommandsAt /\ [FileNext]_allVars => CommandsAt' /\ [LockNext]_vars
  BY NextPlaces, FileAssumption
<1> QED
  BY <1>1, <1>2, PTL DEF FileSpec, LockSpec

LEMMA CommandsFollow ==
  ASSUME AllRegistered, Paired
  PROVE  FileSpec => [](CommandsAt /\ LockInv)
<1>1. FileInit => CommandsAt
  BY InitPlaces, FileAssumption
<1>2. CommandsAt /\ [FileNext]_allVars => CommandsAt'
  BY NextPlaces, FileAssumption
<1> QED
  BY <1>1, <1>2, CommandsKeepDiscipline, LockInvariant, PTL DEF FileSpec

-----------------------------------------------------------------------------
(* A command in a section has the slot of its file.                        *)
LEMMA InSection ==
  ASSUME CommandsAt, NEW p \in Procs, pc[p] \in {"reading", "writing"}, at[p] # "dead"
  PROVE  name[sfile[p]] = File(p)
BY DEF CommandsAt, PlacesOK, Placed, Left, Outside, HasSlot, Copies, ReadEntry, ReadBody, WriteEntry, WriteBody, File

LEMMA ExcludedFiles ==
  ASSUME FileAssumption, AllRegistered, CommandsAt, WriterExcludes
  PROVE  FileExclusion
<1> SUFFICES ASSUME NEW p \in Procs, NEW q \in Procs,
                    p # q, File(p) = File(q), pc[p] = "writing", at[p] # "dead", at[q] # "dead",
                    pc[q] \in {"reading", "writing"}
             PROVE  FALSE
  BY DEF FileExclusion
<1>1. name[sfile[p]] = name[sfile[q]]
  BY InSection
<1>2. sfile[p] \in 0..Len(Registered) - 1 /\ sfile[q] \in 0..Len(Registered) - 1 /\ Len(Registered) \in Nat
  BY DEF CommandsAt, AllRegistered, FileAssumption
<1>3. Registered[sfile[p] + 1] = Registered[sfile[q] + 1]
  BY <1>1, <1>2 DEF CommandsAt, PlacesOK, AllRegistered
<1>4. sfile[p] + 1 \in DOMAIN Registered /\ sfile[q] + 1 \in DOMAIN Registered
  BY <1>2 DEF FileAssumption
<1>5. sfile[p] + 1 = sfile[q] + 1
  BY <1>3, <1>4 DEF FileAssumption
<1>6. sfile[p] = sfile[q]
  BY <1>2, <1>5
<1> QED
  BY <1>6 DEF WriterExcludes

(* No two commands are in sections for the same file when one of them      *)
(* writes, whatever slots they found.                                      *)
THEOREM FilesExcluded ==
  ASSUME AllRegistered, Paired
  PROVE  FileSpec => []FileExclusion
<1>1. CommandsAt /\ LockInv => FileExclusion
  BY ExcludedFiles, InvExcludes, FileAssumption
<1> QED
  BY <1>1, CommandsFollow, PTL

(* Between commands the lock of every file is free.                        *)
THEOREM LocksGivenBack ==
  ASSUME AllRegistered, Paired
  PROVE  FileSpec => []FreeBetweenCommands
<1>1. CommandsAt /\ RestoredWhenFree => FreeBetweenCommands
  <2> SUFFICES ASSUME CommandsAt, RestoredWhenFree,
                      \A p \in Procs : at[p] = "ready" /\ pc[p] \in {"idle", "reading"}
               PROVE  \A s \in Slots : reader_count[s] = 0 /\ reader_mutex[s] = 1 /\ writer_mutex[s] = 1
    BY DEF FreeBetweenCommands
  <2>1. \A p \in Procs : pc[p] = "idle"
    BY DEF CommandsAt, PlacesOK, Placed, Left
  <2> QED
    BY <2>1 DEF RestoredWhenFree
<1>2. FileSpec => []RestoredWhenFree
  BY CommandsKeepDiscipline, LockRestored, PTL
<1> QED
  BY <1>1, <1>2, CommandsFollow, PTL

-----------------------------------------------------------------------------
(* Beginnings of sequences.                                                *)
LEMMA PrefixPoints ==
  ASSUME NEW S, NEW s \in Seq(S), NEW t \in Seq(S)
  PROVE  IsPrefix(s, t) <=> Len(s) <= Len(t) /\ \A i \in 1..Len(s) : s[i] = t[i]
<1>1. Len(s) \in Nat /\ Len(t) \in Nat
  OBVIOUS
<1>2. /\ SubSeq(s, 1, Len(s)) \in Seq(S) /\ Len(SubSeq(s, 1, Len(s))) = Len(s)
      /\ \A i \in 1..Len(s) : SubSeq(s, 1, Len(s))[i] = s[i]
  <2>1. \A i \in 1..Len(s) : s[i] \in S
    OBVIOUS
  <2> QED
    BY <1>1, <2>1, SubSeqProperties
<1>3. CASE Len(s) <= Len(t)
  <2>1. \A i \in 1..Len(s) : t[i] \in S
    BY <1>1, <1>3
  <2>2. /\ SubSeq(t, 1, Len(s)) \in Seq(S) /\ Len(SubSeq(t, 1, Len(s))) = Len(s)
        /\ \A i \in 1..Len(s) : SubSeq(t, 1, Len(s))[i] = t[i]
    BY <1>1, <2>1, SubSeqProperties
  <2>3. (\A i \in 1..Len(s) : s[i] = t[i]) => SubSeq(s, 1, Len(s)) = SubSeq(t, 1, Len(s))
    BY <1>2, <2>2, SeqEqual
  <2> QED
    BY <1>2, <1>3, <2>2, <2>3 DEF IsPrefix
<1>4. CASE ~(Len(s) <= Len(t))
  BY <1>4 DEF IsPrefix
<1> QED
  BY <1>3, <1>4

LEMMA PrefixEmpty ==
  ASSUME NEW S, NEW t \in Seq(S)
  PROVE  IsPrefix(<< >>, t)
<1>1. << >> \in Seq(S) /\ Len(<< >>) = 0 /\ Len(t) \in Nat
  BY EmptySeq
<1>2. 1..0 = {}
  OBVIOUS
<1>3. Len(<< >>) <= Len(t) /\ \A i \in 1..Len(<< >>) : << >>[i] = t[i]
  BY <1>1, <1>2
<1> QED
  BY <1>1, <1>3, PrefixPoints

(* One more line of t is copied to s.                                      *)
LEMMA PrefixGrows ==
  ASSUME NEW S, NEW s \in Seq(S), NEW t \in Seq(S), IsPrefix(s, t), Len(s) + 1 <= Len(t)
  PROVE  t[Len(s) + 1] \in S /\ Append(s, t[Len(s) + 1]) \in Seq(S) /\ IsPrefix(Append(s, t[Len(s) + 1]), t)
<1> DEFINE r == Append(s, t[Len(s) + 1])
<1>1. t[Len(s) + 1] \in S /\ Len(s) \in Nat
  OBVIOUS
<1>2. /\ r \in Seq(S) /\ Len(r) = Len(s) + 1
      /\ \A i \in 1..Len(s) : r[i] = s[i]
      /\ r[Len(s) + 1] = t[Len(s) + 1]
  BY <1>1, AppendProperties
<1>3. \A i \in 1..Len(s) : s[i] = t[i]
  BY PrefixPoints
<1> HIDE DEF r
<1>4. \A i \in 1..Len(r) : r[i] = t[i]
  BY <1>1, <1>2, <1>3
<1>5. IsPrefix(r, t)
  BY <1>1, <1>2, <1>4, PrefixPoints
<1> QED
  BY <1>1, <1>2, <1>5 DEF r

(* Line k of t is written, at its end if there is none yet.                *)
Written(t, k, e) == IF k <= Len(t) THEN [t EXCEPT ![k] = e] ELSE Append(t, e)

(* The same line is appended to s and written at its place in t.           *)
LEMMA PrefixWritten ==
  ASSUME NEW S, NEW s \in Seq(S), NEW t \in Seq(S), NEW e \in S, IsPrefix(s, t)
  PROVE  /\ Written(t, Len(s) + 1, e) \in Seq(S)
         /\ IsPrefix(Append(s, e), Written(t, Len(s) + 1, e))
<1> DEFINE u == Written(t, Len(s) + 1, e)
<1> DEFINE r == Append(s, e)
<1>1. /\ r \in Seq(S) /\ Len(r) = Len(s) + 1
      /\ \A i \in 1..Len(s) : r[i] = s[i]
      /\ r[Len(s) + 1] = e
  BY AppendProperties
<1>2. Len(s) \in Nat /\ Len(t) \in Nat /\ Len(s) <= Len(t) /\ \A i \in 1..Len(s) : s[i] = t[i]
  BY PrefixPoints
<1>3. /\ u \in Seq(S) /\ Len(s) + 1 <= Len(u)
      /\ \A i \in 1..Len(s) : u[i] = t[i]
      /\ u[Len(s) + 1] = e
  <2>1. CASE Len(s) + 1 <= Len(t)
    <3>1. Len(s) + 1 \in 1..Len(t)
      BY <1>2, <2>1
    <3> QED
      BY <1>2, <2>1, <3>1, ExceptSeq DEF Written
  <2>2. CASE ~(Len(s) + 1 <= Len(t))
    <3>1. Len(s) = Len(t)
      BY <1>2, <2>2
    <3> QED
      BY <1>2, <2>2, <3>1, AppendProperties DEF Written
  <2> QED
    BY <2>1, <2>2
<1> HIDE DEF r, u
<1>4. \A i \in 1..Len(r) : r[i] = u[i]
  BY <1>1, <1>2, <1>3
<1>5. IsPrefix(r, u)
  BY <1>1, <1>3, <1>4, PrefixPoints
<1> QED
  BY <1>3, <1>5 DEF r, u

-----------------------------------------------------------------------------
(* What is in the files and what has been copied of it.                    *)
DataTypeOK ==
  /\ cwd \in [Names -> {NoFile} \cup Contents] /\ srv \in [Names -> {NoFile} \cup Contents]
  /\ buf \in [Procs -> Contents] /\ seen \in [Procs -> Nat]
  /\ acked \subseteq Names \X Procs /\ ops \in [Procs -> 0..MaxOps]

DataInv == DataTypeOK /\ CopiesOK /\ ReadersSeeStableFile

OthersStay(p) ==
  \A q \in Procs \ {p} : at'[q] = at[q] /\ cmd'[q] = cmd[q] /\ buf'[q] = buf[q]

(* A step of p that writes a file of the working directory only in a write *)
(* section, and one of the server directory only as its one uploader, is   *)
(* of no consequence to what the others copy.                              *)
LEMMA OthersUndisturbed ==
  ASSUME FileAssumption, CommandsAt, FileExclusion, DataInv, NEW p \in Procs, OthersStay(p),
         \A n \in Names \ {File(p)} : cwd'[n] = cwd[n] /\ srv'[n] = srv[n],
         cwd' = cwd \/ (pc[p] = "writing" /\ at[p] # "dead"),
         \/ srv' = srv
         \/ /\ pc[p] = "reading" /\ at[p] # "dead" /\ srv'[File(p)] # NoFile
            /\ srv[File(p)] = NoFile \/ at[p] = "up_copy",
         Copying(p)', Stable(p)',
         at'[p] = "up_copy" => /\ cmd'[p] = cmd[p]
                               /\ at[p] = "up_copy" \/ srv[File(p)] = NoFile
  PROVE  CopiesOK' /\ ReadersSeeStableFile'
<1>t. File(p) \in Names /\ \A q \in Procs : File(q) \in Names
  BY DEF CommandsAt, Commands, File
<1>1. ASSUME NEW q \in Procs, q # p
      PROVE  Copying(q)' /\ Stable(q)'
  <2>1. at'[q] = at[q] /\ File(q)' = File(q) /\ Op(q)' = Op(q) /\ buf'[q] = buf[q]
    BY <1>1 DEF OthersStay, File, Op
  <2>2. Copying(q) /\ Stable(q)
    BY DEF DataInv, CopiesOK, ReadersSeeStableFile
  <2>3. at[q] \in Copies => pc[q] \in {"reading", "writing"} /\ at[q] # "dead"
    BY DEF CommandsAt, PlacesOK, Placed, Copies, ReadBody, WriteBody
  <2>4. at[q] \in Copies => cwd'[File(q)] = cwd[File(q)]
    BY <1>t, <1>1, <2>3 DEF FileExclusion
  <2>5. at[q] = "dl_copy" => pc[q] = "writing"
    BY DEF CommandsAt, PlacesOK, Placed, WriteBody
  <2>6. srv[File(q)] # NoFile => srv'[File(q)] # NoFile
    BY <1>t
  <2>7. at[q] = "dl_copy" => srv'[File(q)] = srv[File(q)]
    BY <1>t, <1>1, <2>5 DEF FileExclusion
  <2>8. at[q] = "up_copy" => srv'[File(q)] = srv[File(q)]
    <3> SUFFICES ASSUME at[q] = "up_copy", File(q) = File(p), srv' # srv
                 PROVE  FALSE
      BY <1>t
    <3>1. srv[File(q)] = buf[q] /\ buf[q] \in Contents
      BY <2>2 DEF Stable, DataInv, DataTypeOK
    <3>2. srv[File(p)] # NoFile
      BY <3>1 DEF FileAssumption
    <3>3. at[p] = "up_copy"
      BY <3>2
    <3> QED
      BY <1>1, <3>3 DEF DataInv, CopiesOK
  <2>9. Copying(q)'
    BY <2>1, <2>2, <2>4, <2>6 DEF Copying
  <2>10. {"rd_copy", "up_copy", "dl_copy"} \subseteq Copies
    BY DEF Copies, ReadBody, WriteBody
  <2>11. Stable(q)'
    BY <2>1, <2>2, <2>4, <2>7, <2>8, <2>10 DEF Stable
  <2> QED
    BY <2>9, <2>11
<1>2. ASSUME NEW q \in Procs, at'[p] = "up_copy", at'[q] = "up_copy", File(p)' = File(q)'
      PROVE  p = q
  <2> SUFFICES ASSUME p # q
               PROVE  FALSE
    OBVIOUS
  <2>1. at[q] = "up_copy" /\ File(p) = File(q) /\ srv[File(q)] = buf[q] /\ buf[q] \in Contents
    BY <1>2 DEF OthersStay, File, DataInv, DataTypeOK, ReadersSeeStableFile, Stable
  <2>2. at[p] = "up_copy"
    BY <1>2, <2>1 DEF FileAssumption
  <2> QED
    BY <2>1, <2>2 DEF DataInv, CopiesOK
<1>3. ASSUME NEW q \in Procs, NEW r \in Procs, q # p, r # p,
             at'[q] = "up_copy", at'[r] = "up_copy", File(q)' = File(r)'
      PROVE  q = r
  BY <1>3 DEF OthersStay, File, DataInv, CopiesOK
<1>4. CopiesOK'
  BY <1>1, <1>2, <1>3 DEF CopiesOK
<1>5. ReadersSeeStableFile'
  BY <1>1 DEF ReadersSeeStableFile
<1> QED
  BY <1>4, <1>5

(* A command that is not copying.                                          *)
LEMMA AtRest ==
  ASSUME NEW p \in Procs, at'[p] \in Left \cup {"dead"}
  PROVE  Copying(p)' /\ Stable(p)' /\ at'[p] # "up_copy"
BY DEF Copying, Stable, Left, Outside, Copies, ReadBody, WriteBody, NothingCopied, Downloading

LEMMA LeavesAtRest ==
  ASSUME CommandsAt, NEW p \in Procs,
         \/ Abort(p) \/ Finish(p) \/ Gone(p) \/ Go(p, "dead")
         \/ \E b \in Left : Leave(p, b)
  PROVE  /\ at'[p] \in Left \cup {"dead"} /\ \A q \in Procs \ {p} : at'[q] = at[q]
         /\ Abort(p) \/ Finish(p) \/ Gone(p) => acked' = acked
BY DEF Abort, Finish, Gone, Leave, Call, Go, Left, CommandsAt

LEMMA RequestData ==
  ASSUME FileAssumption, CommandsAt, FileExclusion, DataInv, NEW p \in Procs, Request(p)
  PROVE  DataInv'
<1>1. /\ cmd'[p].op = "download" => at'[p] = "dl_server"
      /\ cmd'[p].op # "download" => at'[p] = "get_file"
      /\ buf'[p] = << >> /\ OthersStay(p) /\ UNCHANGED <<cwd, srv>>
  BY DEF Request, Go, OthersStay, CommandsAt, DataInv, DataTypeOK, fileVars
<1>2. DataTypeOK'
  <2>1. << >> \in Contents
    BY DEF Contents
  <2>2. ops[p] + 1 \in 0..MaxOps
    BY DEF Request, DataInv, DataTypeOK, FileAssumption
  <2> QED
    BY <2>1, <2>2 DEF Request, DataInv, DataTypeOK, fileVars
<1>3. Copying(p)' /\ Stable(p)'
  BY <1>1 DEF Copying, Stable, Op, Copies, ReadBody, WriteBody, Downloading
<1> QED
  BY <1>1, <1>2, <1>3, OthersUndisturbed DEF DataInv

LEMMA TableData ==
  ASSUME FileAssumption, AllRegistered, CommandsAt, FileExclusion, DataInv, NEW p \in Procs, Table(p)
  PROVE  DataInv'
<1>1. at[p] \notin {"init_check", "init_slot", "init_load", "init_store"}
  BY DEF CommandsAt, PlacesOK, Placed, Left, Outside, HasSlot, Copies, ReadEntry, ReadBody, WriteEntry, WriteBody
<1>2. GetFile(p)
  BY <1>1 DEF Table, InitFileCheck, InitFileSlot, InitFileLoad, InitFileStore
<1>3. at[p] = "get_file" /\ at'[p] \in {"enter", "init_check"} /\ OthersStay(p)
      /\ UNCHANGED <<cwd, srv, cmd, buf, acked, ops, seen>>
  BY <1>2 DEF GetFile, Go, OthersStay, CommandsAt, fileVars, cmdVars
<1>4. DataTypeOK'
  BY <1>3 DEF DataInv, DataTypeOK
<1>5. buf[p] = << >> /\ (Op(p) = "download" => srv[File(p)] # NoFile)
  BY <1>3 DEF DataInv, CopiesOK, Copying, NothingCopied, Outside, Downloading
<1>6. Copying(p)' /\ Stable(p)'
  BY <1>3, <1>5 DEF Copying, Stable, Op, File, Copies, ReadBody, WriteBody
<1> QED
  BY <1>3, <1>4, <1>6, OthersUndisturbed DEF DataInv

LEMMA EnterData ==
  ASSUME FileAssumption, Paired, CommandsAt, FileExclusion, DataInv, NEW p \in Procs, Enter(p)
  PROVE  DataInv'
<1>1. /\ at[p] = "enter" /\ OthersStay(p) /\ UNCHANGED <<cwd, srv, cmd, buf, acked, ops, seen>>
      /\ at'[p] \in {"rd_open", "wa_open", "wl_open", "up_open", "dl_create"}
  <2>1. Op(p) \in {"readF", "readF_invalid", "writeT", "writeT_line", "upload", "download"}
    BY DEF Enter, CommandsAt, PlacesOK, Placed, Outside, HasSlot, FileAssumption, Paired, CommandNames, Op
  <2>2. CASE Op(p) = "writeT"
    BY <2>2 DEF Enter, Call, Go, OthersStay, CommandsAt, fileVars, cmdVars
  <2>3. CASE Op(p) = "writeT_line"
    BY <2>3 DEF Enter, Call, Go, OthersStay, CommandsAt, fileVars, cmdVars
  <2>4. CASE Op(p) = "upload"
    BY <2>4 DEF Enter, Call, Go, OthersStay, CommandsAt, fileVars, cmdVars
  <2>5. CASE Op(p) = "download"
    BY <2>5 DEF Enter, Call, Go, OthersStay, CommandsAt, fileVars, cmdVars
  <2>6. CASE Op(p) \in {"readF", "readF_invalid"}
    BY <2>6 DEF Enter, Call, Go, OthersStay, CommandsAt, fileVars, cmdVars
  <2> QED
    BY <2>1, <2>2, <2>3, <2>4, <2>5, <2>6
<1>2. DataTypeOK'
  BY <1>1 DEF DataInv, DataTypeOK
<1>3. buf[p] = << >> /\ (Op(p) = "download" => srv[File(p)] # NoFile)
  BY <1>1 DEF DataInv, CopiesOK, Copying, NothingCopied, Outside, Downloading
<1>4. Copying(p)' /\ Stable(p)'
  BY <1>1, <1>3 DEF Copying, Stable, Op, File, Copies, ReadBody, WriteBody
<1> QED
  BY <1>1, <1>2, <1>4, OthersUndisturbed DEF DataInv

LEMMA LockStepData ==
  ASSUME DataInv, NEW p \in Procs, LockStep(p)
  PROVE  DataInv'
<1>1. UNCHANGED <<cwd, srv, cmd, buf, acked, ops, seen, at>>
  BY DEF LockStep, fileVars, cmdVars
<1> QED
  BY <1>1 DEF DataInv, DataTypeOK, CopiesOK, Copying, ReadersSeeStableFile, Stable, File, Op

LEMMA ReadFData ==
  ASSUME FileAssumption, Paired, CommandsAt, FileExclusion, DataInv, NEW p \in Procs, ReadF(p)
  PROVE  DataInv'
<1>1. at[p] \notin {"rd_line", "rd_exit"}
  BY DEF CommandsAt, PlacesOK, Placed, Left, Outside, HasSlot, Copies, ReadEntry, ReadBody, WriteEntry, WriteBody
<1>t. File(p) \in Names
  BY DEF CommandsAt, Commands, File
<1>2. CASE ReadFOpen(p)
  <2>1. at[p] = "rd_open" /\ UNCHANGED <<cwd, srv, cmd, buf, ops, seen>>
        /\ Op(p) \in {"readF", "readF_invalid"}
    BY <1>2 DEF ReadFOpen, In, fileVars, CommandsAt, PlacesOK, Placed, Op
  <2>2. Abort(p) \/ (cwd[File(p)] # NoFile /\ Go(p, "rd_copy") /\ acked' = acked)
    BY <1>2, <2>1 DEF ReadFOpen
  <2>3. acked' = acked /\ OthersStay(p)
    BY <2>1, <2>2, LeavesAtRest DEF Go, OthersStay, CommandsAt
  <2>4. Copying(p)' /\ Stable(p)' /\ at'[p] # "up_copy"
    <3>1. CASE Abort(p)
      BY <3>1, LeavesAtRest, AtRest
    <3>2. CASE cwd[File(p)] # NoFile /\ Go(p, "rd_copy")
      <4>1. buf[p] = << >> /\ cwd[File(p)] \in Contents
        BY <1>t, <2>1, <3>2 DEF DataInv, DataTypeOK, CopiesOK, Copying, NothingCopied
      <4>2. IsPrefix(buf[p], cwd[File(p)])
        BY <4>1, PrefixEmpty DEF Contents
      <4>3. at'[p] = "rd_copy"
        BY <3>2 DEF Go, CommandsAt
      <4> QED
        BY <2>1, <3>2, <4>2, <4>3 DEF Copying, Stable, File, NothingCopied, Outside, Downloading
    <3> QED
      BY <2>2, <3>1, <3>2
  <2>5. DataTypeOK'
    BY <2>1, <2>3 DEF DataInv, DataTypeOK
  <2> QED
    BY <2>1, <2>3, <2>4, <2>5, OthersUndisturbed DEF DataInv
<1>3. CASE ReadFCopy(p)
  <2> DEFINE grown == Append(buf[p], cwd[File(p)][Len(buf[p]) + 1])
  <2>1. at[p] = "rd_copy" /\ UNCHANGED <<cwd, srv, cmd, ops, seen>>
    BY <1>3 DEF ReadFCopy, In, fileVars
  <2>2. /\ cwd[File(p)] \in Seq(Lines) /\ buf[p] \in Seq(Lines) /\ IsPrefix(buf[p], cwd[File(p)])
        /\ cwd[File(p)] # NoFile
    BY <1>t, <2>1 DEF DataInv, DataTypeOK, Contents, CopiesOK, Copying, Copies, ReadBody,
                      ReadersSeeStableFile, Stable
  <2>3. \/ /\ Len(buf[p]) < Len(cwd[File(p)]) /\ buf' = [buf EXCEPT ![p] = grown]
           /\ UNCHANGED <<at, acked>>
        \/ (Leave(p, "ready") \/ Gone(p)) /\ UNCHANGED <<buf, acked>>
    BY <1>3 DEF ReadFCopy, Gone
  <2>4. CASE Len(buf[p]) < Len(cwd[File(p)]) /\ buf' = [buf EXCEPT ![p] = grown] /\ UNCHANGED <<at, acked>>
    <3>1. Len(buf[p]) + 1 <= Len(cwd[File(p)])
      BY <2>2, <2>4
    <3>2. grown \in Seq(Lines) /\ IsPrefix(grown, cwd[File(p)])
      BY <2>2, <3>1, PrefixGrows
    <3> HIDE DEF grown
    <3>3. DataTypeOK' /\ buf'[p] = grown
      BY <2>1, <2>4, <3>2 DEF DataInv, DataTypeOK, Contents
    <3>4. Copying(p)' /\ Stable(p)' /\ OthersStay(p)
      BY <2>1, <2>2, <2>4, <3>2, <3>3 DEF DataInv, DataTypeOK, Copying, Stable, File, Op, OthersStay,
                                       NothingCopied, Outside, Downloading
    <3> QED
      BY <2>1, <2>4, <3>3, <3>4, OthersUndisturbed DEF DataInv
  <2>5. CASE (Leave(p, "ready") \/ Gone(p)) /\ UNCHANGED <<buf, acked>>
    <3>1. OthersStay(p) /\ Copying(p)' /\ Stable(p)' /\ at'[p] # "up_copy"
      BY <2>1, <2>5, LeavesAtRest, AtRest DEF OthersStay, Left
    <3>2. DataTypeOK'
      BY <2>1, <2>5 DEF DataInv, DataTypeOK
    <3> QED
      BY <2>1, <3>1, <3>2, OthersUndisturbed DEF DataInv
  <2> QED
    BY <2>3, <2>4, <2>5
<1> QED
  BY <1>1, <1>2, <1>3 DEF ReadF, ReadFLine, ReadFLineExit, In

(* A step of a command that is not copying afterwards, and leaves what the *)
(* others use alone.                                                       *)
LEMMA RestData ==
  ASSUME FileAssumption, CommandsAt, FileExclusion, DataInv, DataTypeOK', NEW p \in Procs,
         OthersStay(p), srv' = srv,
         cwd' = cwd \/ (pc[p] = "writing" /\ at[p] # "dead"),
         \A n \in Names \ {File(p)} : cwd'[n] = cwd[n],
         at'[p] \in Left \cup {"dead"}
  PROVE  DataInv'
<1>1. Copying(p)' /\ Stable(p)' /\ at'[p] # "up_copy"
  BY AtRest
<1> QED
  BY <1>1, OthersUndisturbed DEF DataInv

LEMMA WriteTAppendData ==
  ASSUME FileAssumption, CommandsAt, FileExclusion, DataInv, NEW p \in Procs,
         WriteTOpen(p) \/ WriteTAppend(p) \/ WriteTAck(p)
  PROVE  DataInv'
<1>t. File(p) \in Names
  BY DEF CommandsAt, Commands, File
<1>1. CASE WriteTOpen(p)
  <2>1. /\ at[p] = "wa_open" /\ pc[p] = "writing" /\ UNCHANGED <<srv, cmd, buf, ops, seen>>
        /\ \/ /\ cwd' = [cwd EXCEPT ![File(p)] = IF @ = NoFile THEN << >> ELSE @]
              /\ Go(p, "wa_write") /\ acked' = acked
           \/ Abort(p) /\ cwd' = cwd
    BY <1>1 DEF WriteTOpen, In
  <2>2. CASE /\ cwd' = [cwd EXCEPT ![File(p)] = IF @ = NoFile THEN << >> ELSE @]
             /\ Go(p, "wa_write") /\ acked' = acked
    <3>1. << >> \in Contents /\ NoFile \notin Contents
      BY DEF Contents, FileAssumption
    <3>2. DataTypeOK' /\ cwd'[File(p)] # NoFile
      BY <1>t, <2>1, <2>2, <3>1 DEF DataInv, DataTypeOK
    <3>3. at'[p] = "wa_write" /\ OthersStay(p) /\ \A n \in Names \ {File(p)} : cwd'[n] = cwd[n]
      BY <1>t, <2>1, <2>2 DEF Go, OthersStay, CommandsAt, DataInv, DataTypeOK
    <3>4. Copying(p)' /\ Stable(p)'
      BY <2>1, <3>2, <3>3 DEF Copying, Stable, File, NothingCopied, Outside, Downloading
    <3> QED
      BY <2>1, <3>2, <3>3, <3>4, OthersUndisturbed DEF DataInv
  <2>3. CASE Abort(p) /\ cwd' = cwd
    BY <2>1, <2>3, LeavesAtRest, RestData DEF OthersStay, DataInv, DataTypeOK
  <2> QED
    BY <2>1, <2>2, <2>3
<1>2. CASE WriteTAppend(p)
  <2> DEFINE appended == [cwd EXCEPT ![File(p)] = Append(@, p)]
  <2>1. /\ at[p] = "wa_write" /\ pc[p] = "writing" /\ UNCHANGED <<srv, cmd, buf, ops, seen, acked>>
        /\ Leave(p, "wa_ack") \/ Abort(p)
        /\ cwd' \in {cwd, appended}
    BY <1>2, LeavesAtRest DEF WriteTAppend, In
  <2>2. cwd[File(p)] \in Seq(Lines)
    BY <1>t, <2>1 DEF DataInv, DataTypeOK, CopiesOK, Copying, Copies, WriteBody, Contents
  <2>3. Append(cwd[File(p)], p) \in Contents
    BY <2>2, AppendProperties DEF Contents, Lines
  <2>4. /\ cwd' \in [Names -> {NoFile} \cup Contents]
        /\ \A n \in Names \ {File(p)} : cwd'[n] = cwd[n]
    BY <1>t, <2>1, <2>3 DEF DataInv, DataTypeOK
  <2>5. DataTypeOK'
    BY <2>1, <2>4 DEF DataInv, DataTypeOK
  <2>6. OthersStay(p) /\ at'[p] \in Left \cup {"dead"}
    BY <2>1, LeavesAtRest DEF OthersStay, Left
  <2> QED
    BY <2>1, <2>4, <2>5, <2>6, RestData
<1>3. CASE WriteTAck(p)
  <2>1. /\ UNCHANGED <<srv, cwd, cmd, buf, ops, seen>>
        /\ \/ Go(p, "ready") /\ acked' = acked \cup {<<File(p), p>>}
           \/ Go(p, "dead") /\ acked' = acked
    BY <1>3 DEF WriteTAck, fileVars, Gone
  <2>2. DataTypeOK'
    BY <1>t, <2>1 DEF DataInv, DataTypeOK
  <2>3. OthersStay(p) /\ at'[p] \in Left \cup {"dead"}
    BY <2>1 DEF OthersStay, Go, Left, CommandsAt
  <2> QED
    BY <2>1, <2>2, <2>3, RestData
<1> QED
  BY <1>1, <1>2, <1>3

LEMMA WriteTLineData ==
  ASSUME FileAssumption, Paired, CommandsAt, FileExclusion, DataInv, NEW p \in Procs,
         \/ WriteTLineCopy(p) \/ WriteTLineShort(p) \/ WriteTLineEnter(p)
         \/ WriteTLineTrunc(p) \/ WriteTLineBack(p) \/ WriteTLineAck(p)
  PROVE  DataInv'
<1>t. File(p) \in Names
  BY DEF CommandsAt, Commands, File
<1>1. CASE WriteTLineCopy(p)
  <2> DEFINE placed == cmd[p].line \in 1..Len(cwd[File(p)])
             copy == IF placed THEN [cwd[File(p)] EXCEPT ![cmd[p].line] = "new"] ELSE cwd[File(p)]
  <2>1. /\ UNCHANGED <<srv, cwd, cmd, ops, seen>>
        /\ \/ Abort(p) /\ UNCHANGED buf
           \/ Go(p, "dead") /\ UNCHANGED <<acked, buf>>
           \/ /\ cwd[File(p)] # NoFile /\ buf' = [buf EXCEPT ![p] = copy]
              /\ Leave(p, "wl_enter") \/ Leave(p, "wl_short")
              /\ acked' \subseteq acked
    BY <1>1 DEF WriteTLineCopy, fileVars, Paired, Fails
  <2>2. OthersStay(p) /\ at'[p] \in Left \cup {"dead"} /\ acked' \subseteq acked
    <3>1. at'[p] \in Left \cup {"dead"} /\ \A q \in Procs \ {p} : at'[q] = at[q]
      BY <2>1, LeavesAtRest DEF Left
    <3>2. acked' \subseteq acked
      BY <2>1, LeavesAtRest
    <3> HIDE DEF copy
    <3>3. \A q \in Procs \ {p} : buf'[q] = buf[q]
      BY <2>1 DEF DataInv, DataTypeOK
    <3> QED
      BY <2>1, <3>1, <3>2, <3>3 DEF OthersStay
  <2>3. cwd[File(p)] # NoFile => copy \in Contents
    <3> SUFFICES ASSUME cwd[File(p)] # NoFile
                 PROVE  copy \in Seq(Lines)
      BY DEF Contents
    <3>1. cwd[File(p)] \in Seq(Lines) /\ "new" \in Lines
      BY <1>t DEF DataInv, DataTypeOK, Contents, Lines
    <3>2. CASE placed
      BY <3>1, <3>2, ExceptSeq
    <3>3. CASE ~placed
      BY <3>1, <3>3
    <3> QED
      BY <3>2, <3>3
  <2> HIDE DEF copy
  <2>4. buf' \in [Procs -> Contents]
    BY <2>1, <2>3 DEF DataInv, DataTypeOK
  <2>5. DataTypeOK'
    BY <2>1, <2>2, <2>4 DEF DataInv, DataTypeOK
  <2> QED
    BY <2>1, <2>2, <2>5, RestData
<1>2. CASE WriteTLineShort(p) \/ WriteTLineAck(p)
  <2>1. Finish(p) /\ UNCHANGED <<cwd, srv, cmd, buf, ops, seen>>
    BY <1>2 DEF WriteTLineShort, WriteTLineAck, fileVars
  <2> QED
    BY <2>1, LeavesAtRest, RestData DEF OthersStay, DataInv, DataTypeOK
<1>3. CASE WriteTLineEnter(p)
  <2>1. at'[p] = "wl_trunc" /\ OthersStay(p) /\ UNCHANGED <<cwd, srv, cmd, buf, ops, seen, acked>>
    BY <1>3 DEF WriteTLineEnter, Call, Go, OthersStay, CommandsAt, fileVars, cmdVars
  <2>2. Copying(p)' /\ Stable(p)'
    BY <2>1 DEF Copying, Stable, NothingCopied, Outside, Copies, ReadBody, WriteBody, Downloading
  <2>3. DataTypeOK'
    BY <2>1 DEF DataInv, DataTypeOK
  <2> QED
    BY <2>1, <2>2, <2>3, OthersUndisturbed DEF DataInv
<1>4. CASE WriteTLineTrunc(p)
  <2>1. /\ at[p] = "wl_trunc" /\ pc[p] = "writing" /\ UNCHANGED <<srv, cmd, buf, ops, seen>>
        /\ \/ cwd' = [cwd EXCEPT ![File(p)] = << >>] /\ Go(p, "wl_back") /\ acked' = acked
           \/ Abort(p) /\ cwd' = cwd
    BY <1>4 DEF WriteTLineTrunc, In
  <2>2. CASE cwd' = [cwd EXCEPT ![File(p)] = << >>] /\ Go(p, "wl_back") /\ acked' = acked
    <3>1. << >> \in Contents /\ NoFile \notin Contents
      BY DEF Contents, FileAssumption
    <3>2. DataTypeOK' /\ cwd'[File(p)] # NoFile
      BY <1>t, <2>1, <2>2, <3>1 DEF DataInv, DataTypeOK
    <3>3. at'[p] = "wl_back" /\ OthersStay(p) /\ \A n \in Names \ {File(p)} : cwd'[n] = cwd[n]
      BY <1>t, <2>1, <2>2 DEF Go, OthersStay, CommandsAt, DataInv, DataTypeOK
    <3>4. Copying(p)' /\ Stable(p)'
      BY <2>1, <3>2, <3>3 DEF Copying, Stable, File, NothingCopied, Outside, Downloading
    <3> QED
      BY <2>1, <3>2, <3>3, <3>4, OthersUndisturbed DEF DataInv
  <2>3. CASE Abort(p) /\ cwd' = cwd
    BY <2>1, <2>3, LeavesAtRest, RestData DEF OthersStay, DataInv, DataTypeOK
  <2> QED
    BY <2>1, <2>2, <2>3
<1>5. CASE WriteTLineBack(p)
  <2>1. /\ at[p] = "wl_back" /\ pc[p] = "writing" /\ UNCHANGED <<srv, cmd, buf, ops, seen, acked>>
        /\ cwd' = [cwd EXCEPT ![File(p)] = buf[p]] \/ cwd' = cwd
        /\ Leave(p, "wl_ack")
    BY <1>5 DEF WriteTLineBack, In, cmdVars
  <2>2. /\ DataTypeOK'
        /\ \A n \in Names \ {File(p)} : cwd'[n] = cwd[n]
    BY <1>t, <2>1 DEF DataInv, DataTypeOK
  <2>3. OthersStay(p) /\ at'[p] \in Left \cup {"dead"}
    BY <2>1, LeavesAtRest DEF OthersStay, Left
  <2> QED
    BY <2>1, <2>2, <2>3, RestData
<1> QED
  BY <1>1, <1>2, <1>3, <1>4, <1>5

LEMMA UploadData ==
  ASSUME FileAssumption, CommandsAt, FileExclusion, DataInv, NEW p \in Procs, Upload(p)
  PROVE  DataInv'
<1>t. File(p) \in Names
  BY DEF CommandsAt, Commands, File
<1>e. << >> \in Contents /\ NoFile \notin Contents
  BY DEF Contents, FileAssumption
<1>1. CASE UploadOpen(p)
  <2>1. /\ at[p] = "up_open" /\ UNCHANGED <<srv, cwd, cmd, buf, ops, seen>>
        /\ \/ Abort(p)
           \/ cwd[File(p)] # NoFile /\ Go(p, "up_create") /\ acked' = acked
    BY <1>1 DEF UploadOpen, In, fileVars
  <2>2. CASE Abort(p)
    BY <2>1, <2>2, LeavesAtRest, RestData DEF OthersStay, DataInv, DataTypeOK
  <2>3. CASE cwd[File(p)] # NoFile /\ Go(p, "up_create") /\ acked' = acked
    <3>1. at'[p] = "up_create" /\ OthersStay(p)
      BY <2>1, <2>3 DEF Go, OthersStay, CommandsAt
    <3>2. DataTypeOK'
      BY <2>1, <2>3 DEF DataInv, DataTypeOK
    <3>3. buf[p] = << >>
      BY <2>1 DEF DataInv, CopiesOK, Copying, NothingCopied
    <3>4. Copying(p)' /\ Stable(p)'
      BY <2>1, <2>3, <3>1, <3>3 DEF Copying, Stable, File, Downloading
    <3> QED
      BY <2>1, <3>1, <3>2, <3>4, OthersUndisturbed DEF DataInv
  <2> QED
    BY <2>1, <2>2, <2>3
<1>2. CASE UploadCreate(p)
  <2>1. /\ at[p] = "up_create" /\ pc[p] = "reading" /\ UNCHANGED <<cwd, cmd, buf, ops, seen>>
        /\ \/ /\ srv[File(p)] = NoFile /\ srv' = [srv EXCEPT ![File(p)] = << >>]
              /\ Go(p, "up_copy") /\ acked' = acked
           \/ Abort(p) /\ srv' = srv
    BY <1>2 DEF UploadCreate, In
  <2>2. CASE /\ srv[File(p)] = NoFile /\ srv' = [srv EXCEPT ![File(p)] = << >>]
             /\ Go(p, "up_copy") /\ acked' = acked
    <3>1. at'[p] = "up_copy" /\ OthersStay(p)
      BY <2>1, <2>2 DEF Go, OthersStay, CommandsAt
    <3>2. DataTypeOK' /\ srv'[File(p)] = << >> /\ \A n \in Names \ {File(p)} : srv'[n] = srv[n]
      BY <1>t, <1>e, <2>1, <2>2 DEF DataInv, DataTypeOK
    <3>3. buf[p] = << >> /\ cwd[File(p)] # NoFile
      BY <2>1 DEF DataInv, CopiesOK, Copying, NothingCopied, Copies, ReadBody
    <3>4. IsPrefix(buf[p], cwd[File(p)])
      BY <1>t, <3>3, PrefixEmpty DEF DataInv, DataTypeOK, Contents
    <3>5. Copying(p)' /\ Stable(p)'
      BY <2>1, <3>1, <3>2, <3>3, <3>4 DEF Copying, Stable, File, Downloading, NothingCopied, Outside
    <3>6. srv'[File(p)] # NoFile
      BY <1>e, <3>2
    <3> QED
      BY <2>1, <2>2, <3>1, <3>2, <3>5, <3>6, OthersUndisturbed DEF DataInv
  <2>3. CASE Abort(p) /\ srv' = srv
    BY <2>1, <2>3, LeavesAtRest, RestData DEF OthersStay, DataInv, DataTypeOK
  <2> QED
    BY <2>1, <2>2, <2>3
<1>3. CASE UploadCopy(p)
  <2> DEFINE line == cwd[File(p)][Len(buf[p]) + 1]
             grown == Append(buf[p], line)
  <2>1. at[p] = "up_copy" /\ pc[p] = "reading" /\ UNCHANGED <<cwd, cmd, ops, seen>>
    BY <1>3 DEF UploadCopy, In
  <2>2. /\ cwd[File(p)] \in Seq(Lines) /\ buf[p] \in Seq(Lines) /\ IsPrefix(buf[p], cwd[File(p)])
        /\ cwd[File(p)] # NoFile /\ srv[File(p)] = buf[p]
    BY <1>t, <2>1 DEF DataInv, DataTypeOK, Contents, CopiesOK, Copying, Copies, ReadBody,
                      ReadersSeeStableFile, Stable
  <2>3. \/ /\ Len(buf[p]) + 1 <= Len(cwd[File(p)]) /\ buf' = [buf EXCEPT ![p] = grown]
           /\ srv' = [srv EXCEPT ![File(p)] = Append(@, line)]
           /\ UNCHANGED <<at, acked>>
        \/ (Leave(p, "up_ack") \/ Abort(p)) /\ UNCHANGED <<buf, srv, acked>>
    BY <1>3, LeavesAtRest DEF UploadCopy
  <2>4. CASE /\ Len(buf[p]) + 1 <= Len(cwd[File(p)]) /\ buf' = [buf EXCEPT ![p] = grown]
             /\ srv' = [srv EXCEPT ![File(p)] = Append(@, line)]
             /\ UNCHANGED <<at, acked>>
    <3>1. srv' = [srv EXCEPT ![File(p)] = grown]
      BY <2>2, <2>4
    <3>2. grown \in Seq(Lines) /\ IsPrefix(grown, cwd[File(p)])
      BY <2>2, <2>4, PrefixGrows
    <3> HIDE DEF line, grown
    <3>3. /\ DataTypeOK' /\ buf'[p] = grown /\ srv'[File(p)] = grown
          /\ \A n \in Names \ {File(p)} : srv'[n] = srv[n]
      BY <1>t, <2>1, <2>4, <3>1, <3>2 DEF DataInv, DataTypeOK, Contents
    <3>4. Copying(p)' /\ Stable(p)' /\ OthersStay(p)
      BY <2>1, <2>2, <2>4, <3>2, <3>3 DEF DataInv, DataTypeOK, Copying, Stable, File, Op, OthersStay,
                                       NothingCopied, Outside, Downloading
    <3>5. srv'[File(p)] # NoFile
      BY <1>e, <3>2, <3>3 DEF Contents
    <3> QED
      BY <2>1, <2>4, <3>3, <3>4, <3>5, OthersUndisturbed DEF DataInv
  <2>5. CASE (Leave(p, "up_ack") \/ Abort(p)) /\ UNCHANGED <<buf, srv, acked>>
    <3>1. OthersStay(p) /\ at'[p] \in Left \cup {"dead"}
      BY <2>1, <2>5, LeavesAtRest DEF OthersStay, Left
    <3>2. DataTypeOK'
      BY <2>1, <2>5 DEF DataInv, DataTypeOK
    <3> QED
      BY <2>1, <2>5, <3>1, <3>2, RestData
  <2> QED
    BY <2>3, <2>4, <2>5
<1>4. CASE UploadAck(p)
  <2>1. Finish(p) /\ UNCHANGED <<cwd, srv, cmd, buf, ops, seen>>
    BY <1>4 DEF UploadAck, fileVars
  <2> QED
    BY <2>1, LeavesAtRest, RestData DEF OthersStay, DataInv, DataTypeOK
<1> QED
  BY <1>1, <1>2, <1>3, <1>4 DEF Upload

LEMMA DownloadData ==
  ASSUME FileAssumption, CommandsAt, FileExclusion, DataInv, NEW p \in Procs, Download(p)
  PROVE  DataInv'
<1>t. File(p) \in Names
  BY DEF CommandsAt, Commands, File
<1>e. << >> \in Contents /\ NoFile \notin Contents
  BY DEF Contents, FileAssumption
<1>1. CASE DownloadServer(p)
  <2>1. /\ at[p] = "dl_server" /\ UNCHANGED <<srv, cwd, cmd, buf, ops, seen>>
        /\ \/ Finish(p)
           \/ srv[File(p)] # NoFile /\ Go(p, "dl_local") /\ acked' = acked
    BY <1>1 DEF DownloadServer, fileVars
  <2>2. CASE Finish(p)
    BY <2>1, <2>2, LeavesAtRest, RestData DEF OthersStay, DataInv, DataTypeOK
  <2>3. CASE srv[File(p)] # NoFile /\ Go(p, "dl_local") /\ acked' = acked
    <3>1. at'[p] = "dl_local" /\ OthersStay(p)
      BY <2>1, <2>3 DEF Go, OthersStay, CommandsAt
    <3>2. DataTypeOK'
      BY <2>1, <2>3 DEF DataInv, DataTypeOK
    <3>3. buf[p] = << >>
      BY <2>1 DEF DataInv, CopiesOK, Copying, NothingCopied, Outside
    <3>4. Copying(p)' /\ Stable(p)'
      BY <2>1, <2>3, <3>1, <3>3 DEF Copying, Stable, File, Copies, ReadBody, WriteBody
    <3> QED
      BY <2>1, <3>1, <3>2, <3>4, OthersUndisturbed DEF DataInv
  <2> QED
    BY <2>1, <2>2, <2>3
<1>2. CASE DownloadLocal(p)
  <2>1. /\ at[p] = "dl_local" /\ UNCHANGED <<srv, cwd, cmd, buf, ops, seen>>
        /\ \/ Finish(p)
           \/ Go(p, "get_file") /\ acked' = acked
    BY <1>2 DEF DownloadLocal, fileVars
  <2>2. CASE Finish(p)
    BY <2>1, <2>2, LeavesAtRest, RestData DEF OthersStay, DataInv, DataTypeOK
  <2>3. CASE Go(p, "get_file") /\ acked' = acked
    <3>1. at'[p] = "get_file" /\ OthersStay(p)
      BY <2>1, <2>3 DEF Go, OthersStay, CommandsAt
    <3>2. DataTypeOK'
      BY <2>1, <2>3 DEF DataInv, DataTypeOK
    <3>3. buf[p] = << >> /\ (Op(p) = "download" => srv[File(p)] # NoFile)
      BY <2>1 DEF DataInv, CopiesOK, Copying, NothingCopied, Outside, Downloading
    <3>4. Copying(p)' /\ Stable(p)'
      BY <2>1, <3>1, <3>3 DEF Copying, Stable, File, Op, Copies, ReadBody, WriteBody
    <3> QED
      BY <2>1, <3>1, <3>2, <3>4, OthersUndisturbed DEF DataInv
  <2> QED
    BY <2>1, <2>2, <2>3
<1>3. CASE DownloadCreate(p)
  <2>1. /\ at[p] = "dl_create" /\ pc[p] = "writing" /\ UNCHANGED <<srv, cmd, buf, ops, seen>>
        /\ \/ /\ cwd' = [cwd EXCEPT ![File(p)] = IF @ = NoFile THEN << >> ELSE @]
              /\ Go(p, "dl_copy") /\ acked' = acked
           \/ Abort(p) /\ cwd' = cwd
    BY <1>3 DEF DownloadCreate, In
  <2>2. CASE /\ cwd' = [cwd EXCEPT ![File(p)] = IF @ = NoFile THEN << >> ELSE @]
             /\ Go(p, "dl_copy") /\ acked' = acked
    <3>1. at'[p] = "dl_copy" /\ OthersStay(p)
      BY <2>1, <2>2 DEF Go, OthersStay, CommandsAt
    <3>2. /\ DataTypeOK' /\ cwd'[File(p)] \in Contents /\ cwd'[File(p)] # NoFile
          /\ \A n \in Names \ {File(p)} : cwd'[n] = cwd[n]
      BY <1>t, <1>e, <2>1, <2>2 DEF DataInv, DataTypeOK
    <3>3. buf[p] = << >> /\ srv[File(p)] # NoFile
      <4>1. Op(p) = "download"
        BY <2>1 DEF CommandsAt, PlacesOK, Placed, Op
      <4> QED
        BY <2>1, <4>1 DEF DataInv, CopiesOK, Copying, NothingCopied, Downloading
    <3>4. IsPrefix(buf[p], srv[File(p)]) /\ IsPrefix(buf[p], cwd'[File(p)])
      BY <1>t, <3>2, <3>3, PrefixEmpty DEF DataInv, DataTypeOK, Contents
    <3>5. Copying(p)' /\ Stable(p)'
      BY <2>1, <3>1, <3>2, <3>3, <3>4 DEF Copying, Stable, File, NothingCopied, Outside
    <3> QED
      BY <2>1, <3>1, <3>2, <3>5, OthersUndisturbed DEF DataInv
  <2>3. CASE Abort(p) /\ cwd' = cwd
    BY <2>1, <2>3, LeavesAtRest, RestData DEF OthersStay, DataInv, DataTypeOK
  <2> QED
    BY <2>1, <2>2, <2>3
<1>4. CASE DownloadCopy(p)
  <2> DEFINE k == Len(buf[p]) + 1
             line == srv[File(p)][k]
             grown == Append(buf[p], line)
             written == Written(cwd[File(p)], k, line)
  <2>1. at[p] = "dl_copy" /\ pc[p] = "writing" /\ UNCHANGED <<srv, cmd, ops, seen>>
    BY <1>4 DEF DownloadCopy, In
  <2>2. /\ cwd[File(p)] \in Seq(Lines) /\ buf[p] \in Seq(Lines) /\ srv[File(p)] \in Seq(Lines)
        /\ IsPrefix(buf[p], srv[File(p)]) /\ IsPrefix(buf[p], cwd[File(p)])
        /\ srv[File(p)] # NoFile
    <3>1. Op(p) = "download"
      BY <2>1 DEF CommandsAt, PlacesOK, Placed, Op
    <3> QED
      BY <1>t, <2>1, <3>1 DEF DataInv, DataTypeOK, Contents, CopiesOK, Copying, Copies, WriteBody,
                      Downloading, ReadersSeeStableFile, Stable
  <2>3. \/ /\ k <= Len(srv[File(p)]) /\ buf' = [buf EXCEPT ![p] = grown]
           /\ cwd' = [cwd EXCEPT ![File(p)] = written]
           /\ UNCHANGED <<at, acked>>
        \/ (Leave(p, "dl_ack") \/ Abort(p)) /\ UNCHANGED <<buf, cwd, acked>>
    BY <1>4, LeavesAtRest DEF DownloadCopy, Written
  <2>4. CASE /\ k <= Len(srv[File(p)]) /\ buf' = [buf EXCEPT ![p] = grown]
             /\ cwd' = [cwd EXCEPT ![File(p)] = written]
             /\ UNCHANGED <<at, acked>>
    <3>1. line \in Lines /\ grown \in Seq(Lines) /\ IsPrefix(grown, srv[File(p)])
      BY <2>2, <2>4, PrefixGrows
    <3>2. written \in Seq(Lines) /\ IsPrefix(grown, written)
      BY <2>2, <3>1, PrefixWritten
    <3> HIDE DEF k, line, grown, written
    <3>3. /\ DataTypeOK' /\ buf'[p] = grown /\ cwd'[File(p)] = written
          /\ \A n \in Names \ {File(p)} : cwd'[n] = cwd[n]
      BY <1>t, <2>1, <2>4, <3>1, <3>2 DEF DataInv, DataTypeOK, Contents
    <3>4. written # NoFile
      BY <1>e, <3>2 DEF Contents
    <3>5. Copying(p)' /\ Stable(p)' /\ OthersStay(p)
      BY <2>1, <2>2, <2>4, <3>1, <3>2, <3>3, <3>4
         DEF DataInv, DataTypeOK, Copying, Stable, File, Op, OthersStay, NothingCopied, Outside
    <3> QED
      BY <2>1, <2>4, <3>3, <3>5, OthersUndisturbed DEF DataInv
  <2>5. CASE (Leave(p, "dl_ack") \/ Abort(p)) /\ UNCHANGED <<buf, cwd, acked>>
    <3>1. OthersStay(p) /\ at'[p] \in Left \cup {"dead"}
      BY <2>1, <2>5, LeavesAtRest DEF OthersStay, Left
    <3>2. DataTypeOK'
      BY <2>1, <2>5 DEF DataInv, DataTypeOK
    <3> QED
      BY <2>1, <2>5, <3>1, <3>2, RestData
  <2> QED
    BY <2>3, <2>4, <2>5
<1>5. CASE DownloadAck(p)
  <2>1. Finish(p) /\ UNCHANGED <<cwd, srv, cmd, buf, ops, seen>>
    BY <1>5 DEF DownloadAck, fileVars
  <2> QED
    BY <2>1, LeavesAtRest, RestData DEF OthersStay, DataInv, DataTypeOK
<1> QED
  BY <1>1, <1>2, <1>3, <1>4, <1>5 DEF Download

LEMMA InitData ==
  ASSUME FileAssumption, FileInit
  PROVE  DataInv
<1>1. << >> \in Contents
  BY DEF Contents
<1>2. DataTypeOK
  <2>1. cwd \in [Names -> {NoFile} \cup Contents] /\ srv \in [Names -> {NoFile} \cup Contents]
    BY DEF FileInit, FileAssumption
  <2>2. 0 \in 0..MaxOps
    BY DEF FileAssumption
  <2>3. ops \in [Procs -> 0..MaxOps] /\ buf \in [Procs -> Contents] /\ seen \in [Procs -> Nat]
    BY <1>1, <2>2 DEF FileInit
  <2>4. acked \subseteq Names \X Procs
    BY DEF FileInit
  <2> QED
    BY <2>1, <2>3, <2>4 DEF DataTypeOK
<1>3. \A p \in Procs : at[p] = "ready"
  BY DEF FileInit
<1>4. CopiesOK
  BY <1>3 DEF CopiesOK, Copying, NothingCopied, Outside, Copies, ReadBody, WriteBody, Downloading
<1>5. ReadersSeeStableFile
  BY <1>3 DEF ReadersSeeStableFile, Stable
<1> QED
  BY <1>2, <1>4, <1>5 DEF DataInv

LEMMA NextData ==
  ASSUME FileAssumption, AllRegistered, Paired, CommandsAt, FileExclusion, DataInv, [FileNext]_allVars
  PROVE  DataInv'
<1>1. CASE UNCHANGED allVars
  BY <1>1 DEF allVars, fileVars, tableVars, cmdVars, vars, DataInv, DataTypeOK, CopiesOK, Copying,
              ReadersSeeStableFile, Stable, File, Op
<1>2. ASSUME NEW p \in Procs,
             \/ Request(p) \/ Table(p) \/ Enter(p) \/ LockStep(p)
             \/ ReadF(p) \/ WriteT(p) \/ Upload(p) \/ Download(p)
      PROVE  DataInv'
  BY <1>2, RequestData, TableData, EnterData, LockStepData, ReadFData, WriteTAppendData,
     WriteTLineData, UploadData, DownloadData DEF WriteT
<1> QED
  BY <1>1, <1>2 DEF FileNext

LEMMA DataFollows ==
  ASSUME AllRegistered, Paired
  PROVE  FileSpec => [](CommandsAt /\ LockInv /\ DataInv)
<1>1. FileInit => DataInv
  BY InitData, FileAssumption
<1>2. CommandsAt /\ LockInv /\ DataInv /\ [FileNext]_allVars => DataInv'
  BY NextData, ExcludedFiles, InvExcludes, FileAssumption
<1> QED
  BY <1>1, <1>2, CommandsFollow, PTL DEF FileSpec

(* Where every command is, what it has found and what it has copied.       *)
THEOREM CommandInvariant ==
  ASSUME AllRegistered, Paired
  PROVE  FileSpec => []CommandInv
<1>1. CommandsAt /\ LockInv /\ DataInv => CommandInv
  <2> SUFFICES ASSUME CommandsAt, LockInv, DataInv
               PROVE  FileTypeOK
    BY DEF CommandInv, CommandsAt, DataInv
  <2>1. size \in Nat /\ name \in [Slots -> Names \cup {""}]
    <3>1. \A s \in Slots : s + 1 \in DOMAIN Registered
      BY FileAssumption DEF FileAssumption, AllRegistered
    <3>2. \A s \in Slots : Registered[s + 1] \in Names
      BY <3>1, FileAssumption DEF FileAssumption
    <3>3. Len(Registered) \in Nat
      BY FileAssumption DEF FileAssumption
    <3> QED
      BY <3>2, <3>3 DEF CommandsAt, PlacesOK
  <2> QED
    BY <2>1 DEF FileTypeOK, LockInv, CommandsAt, DataInv, DataTypeOK
<1> QED
  BY <1>1, DataFollows, PTL

(* Neither end of a copy changes under the command that copies.            *)
THEOREM CopiesStable ==
  ASSUME AllRegistered, Paired
  PROVE  FileSpec => []ReadersSeeStableFile
<1>1. DataInv => ReadersSeeStableFile
  BY DEF DataInv
<1> QED
  BY <1>1, DataFollows, PTL

-----------------------------------------------------------------------------
(* What a report of an append is worth, and the size of the table.         *)

(* A single client.                                                        *)
Alone == \A p, q \in Procs : p = q

(* No command rewrites a line of a file or fetches one from the server.    *)
Appending == Ops \cap {"writeT_line", "download"} = {}

Registers == {"get_file", "init_check", "init_slot", "init_load", "init_store", "enter"}
Rewrites == {"wl_open", "wl_short", "wl_enter", "wl_trunc", "wl_back", "wl_ack"}
Fetches == {"dl_server", "dl_local", "dl_create", "dl_copy", "dl_ack"}
Rewriting(p) == at[p] \in {"wl_enter", "wl_trunc", "wl_back"}
Fetching(p) == Op(p) = "download" /\ at[p] \in Registers \cup {"dl_create", "dl_copy"}

Holds(lines, p) == \E i \in DOMAIN lines : lines[i] = p

AppendTypeOK ==
  /\ cwd \in [Names -> {NoFile} \cup Contents] /\ srv \in [Names -> {NoFile} \cup Contents]
  /\ at \in [Procs -> Labels] /\ cmd \in [Procs -> Commands]
  /\ buf \in [Procs -> Contents] /\ acked \subseteq Names \X Procs

(* What a command that is under way can count on: a rewritten file is in   *)
(* the temporary file with all its reported lines, and a file that is      *)
(* fetched has none.                                                       *)
Underway(p) ==
  /\ at[p] \in Registers \cup Fetches => Op(p) \in Ops
  /\ at[p] = "rd_open" => Op(p) \in {"readF", "readF_line", "readF_invalid"}
  /\ at[p] \in Fetches => Op(p) = "download"
  /\ at[p] \in Rewrites \cup Fetches => ~Appending
  /\ at[p] \in {"rd_copy", "up_create", "up_copy", "wa_write", "wl_enter", "wl_trunc", "wl_back", "dl_copy"}
       => cwd[File(p)] # NoFile
  /\ at[p] \in {"up_copy", "dl_local"} \/ Fetching(p) => srv[File(p)] # NoFile
  /\ at[p] = "wa_ack" => cwd[File(p)] # NoFile /\ Holds(cwd[File(p)], p)
  /\ Rewriting(p) => \A q \in Procs : <<File(p), q>> \in acked => Holds(buf[p], q)
  /\ Fetching(p) => \A q \in Procs : <<File(p), q>> \notin acked

Reported ==
  \A n \in Names, q \in Procs :
    <<n, q>> \in acked =>
      /\ cwd[n] # NoFile
      /\ Holds(cwd[n], q) \/ \E r \in Procs : at[r] = "wl_back" /\ File(r) = n

AppendInv == AppendTypeOK /\ Reported /\ \A p \in Procs : Underway(p)

(***************************************************************************)
(* An append is lost only to a command that writes the file anew: while    *)
(* another client appends, or when copying the lines back fails and nobody *)
(* looks at what fputs returns.                                            *)
(***************************************************************************)
AppendsSafe == Appending \/ (Alone /\ "fputs" \notin Failures)

LEMMA HoldsAppended ==
  ASSUME NEW S, NEW s \in Seq(S), NEW e \in S
  PROVE  /\ Append(s, e) \in Seq(S) /\ Holds(Append(s, e), e)
         /\ \A q : Holds(s, q) => Holds(Append(s, e), q)
<1> DEFINE r == Append(s, e)
<1>1. /\ r \in Seq(S) /\ Len(s) \in Nat /\ Len(r) = Len(s) + 1
      /\ \A i \in 1..Len(s) : r[i] = s[i]
      /\ r[Len(s) + 1] = e
      /\ DOMAIN r = 1..Len(r) /\ DOMAIN s = 1..Len(s)
  BY AppendProperties, LenProperties
<1> HIDE DEF r
<1>2. Holds(r, e)
  <2>1. Len(s) + 1 \in DOMAIN r
    BY <1>1
  <2> QED
    BY <1>1, <2>1 DEF Holds
<1>3. ASSUME NEW q, Holds(s, q)
      PROVE  Holds(r, q)
  <2>1. PICK i \in 1..Len(s) : s[i] = q
    BY <1>1, <1>3 DEF Holds
  <2>2. i \in DOMAIN r /\ r[i] = q
    BY <1>1, <2>1
  <2> QED
    BY <2>2 DEF Holds
<1> QED
  BY <1>1, <1>2, <1>3 DEF r

LEMMA HoldsReplaced ==
  ASSUME NEW S, NEW s \in Seq(S), NEW k \in 1..Len(s), NEW e \in S
  PROVE  /\ [s EXCEPT ![k] = e] \in Seq(S)
         /\ \A q : Holds(s, q) /\ q # s[k] => Holds([s EXCEPT ![k] = e], q)
<1> DEFINE r == [s EXCEPT ![k] = e]
<1>1. r \in Seq(S) /\ DOMAIN r = DOMAIN s /\ \A i \in DOMAIN s : i # k => r[i] = s[i]
  BY ExceptSeq
<1> HIDE DEF r
<1>2. ASSUME NEW q, Holds(s, q), q # s[k]
      PROVE  Holds(r, q)
  BY <1>1, <1>2 DEF Holds
<1> QED
  BY <1>1, <1>2 DEF r

(* A step of p that keeps what the others count on.  The others are there  *)
(* only when nobody rewrites.                                              *)
LEMMA Undisturbing ==
  ASSUME AppendsSafe, AppendInv, NEW p \in Procs, OthersStay(p), AppendTypeOK', Underway(p)',
         \A n \in Names : /\ cwd[n] # NoFile => cwd'[n] # NoFile
                          /\ srv[n] # NoFile => srv'[n] # NoFile,
         Appending => \A n \in Names, q \in Procs :
                        cwd[n] # NoFile /\ Holds(cwd[n], q) => Holds(cwd'[n], q),
         \A n \in Names, q \in Procs :
           <<n, q>> \in acked' =>
             /\ cwd'[n] # NoFile
             /\ Holds(cwd'[n], q) \/ (at'[p] = "wl_back" /\ File(p)' = n)
  PROVE  AppendInv'
<1>1. ASSUME NEW q \in Procs, q # p
      PROVE  Underway(q)'
  <2>1. Appending
    BY <1>1 DEF AppendsSafe, Alone
  <2>2. Underway(q) /\ File(q) \in Names
    BY DEF AppendInv, AppendTypeOK, Commands, File
  <2>3. at'[q] = at[q] /\ File(q)' = File(q) /\ Op(q)' = Op(q)
    BY <1>1 DEF OthersStay, File, Op
  <2>4. at[q] \notin Rewrites \cup Fetches /\ ~Fetching(q) /\ ~Rewriting(q)
    BY <2>1, <2>2 DEF Underway, Fetching, Rewriting, Rewrites, Fetches, Appending
  <2>5. ~Fetching(q)' /\ ~Rewriting(q)'
    BY <2>3, <2>4 DEF Fetching, Rewriting
  <2> QED
    BY <2>1, <2>2, <2>3, <2>4, <2>5 DEF Underway, Fetches
<1>2. Reported'
  BY DEF Reported
<1> QED
  BY <1>1, <1>2 DEF AppendInv

(* A step of p that leaves the working directory alone.                    *)
LEMMA Quiet ==
  ASSUME AppendsSafe, AppendInv, NEW p \in Procs, OthersStay(p), AppendTypeOK', Underway(p)',
         cwd' = cwd, acked' \subseteq acked, at[p] # "wl_back",
         \A n \in Names : srv[n] # NoFile => srv'[n] # NoFile
  PROVE  AppendInv'
<1>1. ASSUME NEW n \in Names, NEW q \in Procs, <<n, q>> \in acked
      PROVE  cwd[n] # NoFile /\ Holds(cwd[n], q)
  <2>1. \A r \in Procs : at[r] # "wl_back"
    BY DEF AppendsSafe, Alone, AppendInv, Underway, Rewrites
  <2> QED
    BY <1>1, <2>1 DEF AppendInv, Reported
<1> QED
  BY <1>1, Undisturbing

LEMMA Turn ==
  ASSUME AppendsSafe, AppendInv, NEW p \in Procs, NEW b \in Labels, Go(p, b),
         UNCHANGED <<cwd, srv, cmd, buf, acked>>, at[p] # "wl_back", Underway(p)'
  PROVE  AppendInv'
<1>1. OthersStay(p) /\ AppendTypeOK'
  BY DEF OthersStay, Go, AppendInv, AppendTypeOK
<1> QED
  BY <1>1, Quiet

(* An answer ends the command, or the process.                             *)
LEMMA Answers ==
  ASSUME AppendsSafe, AppendInv, NEW p \in Procs, Abort(p) \/ Finish(p) \/ Gone(p) \/ Leave(p, "ready"),
         UNCHANGED <<cwd, srv, cmd, buf, acked>>, at[p] # "wl_back"
  PROVE  AppendInv'
<1>1. PICK b \in {"ready", "dead"} : Go(p, b)
  BY DEF Abort, Finish, Gone, Leave, Call
<1>2. at'[p] = b
  BY <1>1 DEF Go, AppendInv, AppendTypeOK
<1>3. Underway(p)'
  BY <1>2 DEF Underway, Rewriting, Fetching, Registers, Rewrites, Fetches
<1> QED
  BY <1>1, <1>3, Turn DEF Labels

LEMMA Unreported ==
  ASSUME NEW p, Abort(p) \/ Finish(p) \/ Gone(p)
  PROVE  acked' = acked
BY DEF Abort, Finish, Gone

LEMMA RequestAppends ==
  ASSUME AppendsSafe, AppendInv, NEW p \in Procs, Request(p)
  PROVE  AppendInv'
<1>1. PICK op \in Ops, n \in Names :
        \E k \in LineNumbers \cup {0} :
          /\ cmd' = [cmd EXCEPT ![p] = [op |-> op, file |-> n, line |-> k]]
          /\ Go(p, IF op = "download" THEN "dl_server" ELSE "get_file")
  <2>1. PICK op \in Ops, n \in Names :
          \E k \in IF op \in {"readF_line", "writeT_line"} THEN LineNumbers ELSE {0} :
            /\ cmd' = [cmd EXCEPT ![p] = [op |-> op, file |-> n, line |-> k]]
            /\ Go(p, IF op = "download" THEN "dl_server" ELSE "get_file")
    BY DEF Request
  <2> QED
    BY <2>1
<1>2. PICK k \in LineNumbers \cup {0} :
        /\ cmd' = [cmd EXCEPT ![p] = [op |-> op, file |-> n, line |-> k]]
        /\ Go(p, IF op = "download" THEN "dl_server" ELSE "get_file")
  BY <1>1
<1> DEFINE c == [op |-> op, file |-> n, line |-> k]
           b == IF op = "download" THEN "dl_server" ELSE "get_file"
<1>3. c \in Commands /\ c.op = op /\ b \in Labels
  BY FileAssumption DEF FileAssumption, Commands, Labels
<1>4. cmd' = [cmd EXCEPT ![p] = c] /\ at' = [at EXCEPT ![p] = b] /\ buf' = [buf EXCEPT ![p] = << >>]
      /\ UNCHANGED <<cwd, srv, acked>> /\ at[p] = "ready"
  BY <1>2 DEF Go, Request, fileVars
<1>5. op = "download" => b = "dl_server" /\ ~Appending
  BY DEF Appending
<1>6. op # "download" => b = "get_file"
  OBVIOUS
<1> HIDE DEF c, b
<1>7. /\ AppendTypeOK' /\ OthersStay(p) /\ at'[p] = b /\ Op(p)' = op
  <2>1. << >> \in Contents
    BY DEF Contents
  <2> QED
    BY <1>3, <1>4, <2>1 DEF AppendInv, AppendTypeOK, OthersStay, Op
<1>8. Underway(p)'
  BY <1>5, <1>6, <1>7 DEF Underway, Rewriting, Fetching, Registers, Rewrites, Fetches
<1> QED
  BY <1>4, <1>7, <1>8, Quiet

LEMMA TableAppends ==
  ASSUME AppendsSafe, AppendInv, NEW p \in Procs, Table(p)
  PROVE  AppendInv'
<1>1. /\ at[p] \in Registers /\ UNCHANGED <<cwd, srv, cmd, buf, acked>>
      /\ \E b \in Registers \cup {"dead"} : Go(p, b)
  BY DEF Table, GetFile, InitFileCheck, InitFileSlot, InitFileLoad, InitFileStore, Registers, fileVars, cmdVars
<1>2. PICK b \in Registers \cup {"dead"} : Go(p, b)
  BY <1>1
<1>3. at'[p] = b /\ b \in Labels
  BY <1>2 DEF Go, AppendInv, AppendTypeOK, Labels, Registers
<1>4. Underway(p)'
  BY <1>1, <1>3 DEF AppendInv, Underway, Op, File, Rewriting, Fetching, Registers, Rewrites, Fetches
<1> QED
  BY <1>1, <1>2, <1>3, <1>4, Turn DEF Registers

LEMMA EnterAppends ==
  ASSUME AppendsSafe, AppendInv, NEW p \in Procs, Enter(p)
  PROVE  AppendInv'
<1>1. at[p] = "enter" /\ UNCHANGED <<cwd, srv, cmd, buf, acked>>
  BY DEF Enter, fileVars, cmdVars
<1>2. Op(p) \in Ops /\ Op(p) \in CommandNames
  BY <1>1, FileAssumption DEF AppendInv, Underway, Registers, FileAssumption
<1>3. \/ Op(p) \in {"readF", "readF_line", "readF_invalid"} /\ Go(p, "rd_open")
      \/ Op(p) = "writeT" /\ Go(p, "wa_open")
      \/ Op(p) = "writeT_line" /\ Go(p, "wl_open")
      \/ Op(p) = "upload" /\ Go(p, "up_open")
      \/ Op(p) = "download" /\ Go(p, "dl_create")
  BY <1>2 DEF Enter, Call, CommandNames
<1>4. PICK b \in {"rd_open", "wa_open", "wl_open", "up_open", "dl_create"} :
        /\ Go(p, b)
        /\ b = "rd_open" => Op(p) \in {"readF", "readF_line", "readF_invalid"}
        /\ b = "wl_open" => Op(p) = "writeT_line"
        /\ b = "dl_create" => Op(p) = "download"
        /\ b # "dl_create" => Op(p) # "download"
  BY <1>3
<1>5. at'[p] = b /\ b \in Labels
  BY <1>4 DEF Go, AppendInv, AppendTypeOK, Labels
<1>6. b \in {"wl_open", "dl_create"} => ~Appending
  BY <1>2, <1>4 DEF Appending
<1>7. Underway(p)'
  BY <1>1, <1>4, <1>5, <1>6 DEF AppendInv, Underway, Op, File, Rewriting, Fetching, Registers, Rewrites, Fetches
<1> QED
  BY <1>1, <1>4, <1>5, <1>7, Turn

LEMMA ReadFAppends ==
  ASSUME AppendsSafe, AppendInv, NEW p \in Procs, ReadF(p)
  PROVE  AppendInv'
<1>1. UNCHANGED <<cwd, srv, cmd>> /\ at[p] # "wl_back"
  BY DEF ReadF, ReadFOpen, ReadFCopy, ReadFLine, ReadFLineExit, In, fileVars, cmdVars
<1>2. CASE buf' = buf
  <2>1. ASSUME NEW b \in {"rd_copy", "rd_line", "rd_exit", "ready"}, Go(p, b), acked' = acked,
               b = "rd_copy" => cwd[File(p)] # NoFile
        PROVE  AppendInv'
    <3>1. at'[p] = b /\ b \in Labels
      BY <2>1 DEF Go, AppendInv, AppendTypeOK, Labels
    <3>2. Underway(p)'
      BY <1>1, <1>2, <2>1, <3>1 DEF Underway, File, Rewriting, Fetching, Registers, Rewrites, Fetches
    <3> QED
      BY <1>1, <1>2, <2>1, <3>1, <3>2, Turn
  <2>2. CASE ReadFOpen(p)
    <3>1. Op(p) \in {"readF", "readF_line", "readF_invalid"}
      BY <2>2 DEF ReadFOpen, In, AppendInv, Underway
    <3>2. \/ Abort(p)
          \/ Go(p, "rd_copy") /\ cwd[File(p)] # NoFile /\ acked' = acked
          \/ Go(p, "rd_line") /\ acked' = acked
      BY <2>2, <3>1 DEF ReadFOpen
    <3> QED
      BY <1>1, <1>2, <2>1, <3>2, Answers, Unreported
  <2>3. CASE ReadFCopy(p)
    <3>1. /\ Leave(p, "ready") \/ Gone(p) \/ at' = at
          /\ acked' = acked
      BY <2>3, Unreported DEF ReadFCopy
    <3>2. CASE at' = at
      BY <1>1, <1>2, <3>1, <3>2 DEF AppendInv, AppendTypeOK, Underway, Reported, Rewriting, Fetching, Op, File
    <3> QED
      BY <1>1, <1>2, <3>1, <3>2, Answers
  <2>4. CASE ReadFLine(p)
    <3>1. /\ acked' = acked
          /\ Gone(p) \/ Leave(p, "ready") \/ Leave(p, "rd_exit")
      BY <2>4, Unreported DEF ReadFLine
    <3> QED
      BY <1>1, <1>2, <2>1, <3>1, Answers DEF Leave, Call
  <2>5. CASE ReadFLineExit(p)
    BY <1>2, <2>1, <2>5 DEF ReadFLineExit, Call, cmdVars
  <2> QED
    BY <2>2, <2>3, <2>4, <2>5 DEF ReadF
<1>3. CASE buf' # buf
  <2>1. /\ at[p] = "rd_copy" /\ at' = at /\ Len(buf[p]) < Len(cwd[File(p)])
        /\ buf' = [buf EXCEPT ![p] = Append(buf[p], cwd[File(p)][Len(buf[p]) + 1])]
        /\ acked' = acked
    BY <1>3 DEF ReadF, ReadFOpen, ReadFCopy, ReadFLine, ReadFLineExit, In, cmdVars
  <2> DEFINE k == Len(buf[p]) + 1
             grown == Append(buf[p], cwd[File(p)][k])
  <2>2. cwd[File(p)] \in Seq(Lines) /\ buf[p] \in Seq(Lines)
    BY <2>1 DEF AppendInv, AppendTypeOK, Underway, File, Commands, Contents
  <2>3. k \in 1..Len(cwd[File(p)])
    BY <2>1, <2>2, LenProperties
  <2>4. grown \in Contents
    BY <2>2, <2>3, HoldsAppended, ElementOfSeq DEF Contents
  <2>5. buf' = [buf EXCEPT ![p] = grown]
    BY <2>1
  <2> HIDE DEF k, grown
  <2>6. AppendTypeOK' /\ OthersStay(p) /\ Underway(p)'
    BY <1>1, <2>1, <2>4, <2>5
    DEF AppendInv, AppendTypeOK, OthersStay, Underway, File, Op, Rewriting, Fetching, Registers, Rewrites, Fetches
  <2> QED
    BY <1>1, <2>1, <2>6, Quiet
<1> QED
  BY <1>2, <1>3

(* writeT at the end of the file: the line it reports is there.            *)
LEMMA WriteTAppends ==
  ASSUME AppendsSafe, AppendInv, NEW p \in Procs, WriteTOpen(p) \/ WriteTAppend(p) \/ WriteTAck(p)
  PROVE  AppendInv'
<1>t. /\ File(p) \in Names /\ p \in Lines /\ at[p] # "wl_back"
      /\ \A n \in Names : cwd[n] # NoFile => cwd[n] \in Seq(Lines)
      /\ << >> \in Contents
      /\ Seq(Lines) = Contents
  BY DEF AppendInv, AppendTypeOK, File, Commands, Contents, Lines, WriteTOpen, WriteTAppend, WriteTAck, In
<1>r. \A n \in Names, q \in Procs : <<n, q>> \in acked => cwd[n] # NoFile /\ Holds(cwd[n], q)
  <2>1. \A r \in Procs : at[r] # "wl_back"
    BY <1>t DEF AppendsSafe, Alone, AppendInv, Underway, Rewrites
  <2> QED
    BY <2>1 DEF AppendInv, Reported
<1>n. NoFile \notin Contents
  BY FileAssumption DEF FileAssumption
<1>1. CASE WriteTOpen(p)
  <2>1. UNCHANGED <<srv, cmd, buf>> /\ acked' = acked
    BY <1>1, Unreported DEF WriteTOpen
  <2>2. CASE Abort(p) /\ cwd' = cwd
    BY <1>t, <2>1, <2>2, Answers
  <2>3. CASE /\ cwd' = [cwd EXCEPT ![File(p)] = IF @ = NoFile THEN << >> ELSE @]
             /\ Go(p, "wa_write")
    <3>1. /\ cwd' \in [Names -> {NoFile} \cup Contents] /\ cwd'[File(p)] # NoFile
          /\ \A n \in Names : cwd[n] # NoFile => cwd'[n] = cwd[n]
      BY <1>t, <1>n, <2>3 DEF AppendInv, AppendTypeOK
    <3>2. AppendTypeOK' /\ OthersStay(p) /\ at'[p] = "wa_write"
      BY <2>1, <2>3, <3>1 DEF AppendInv, AppendTypeOK, OthersStay, Go, Labels
    <3>3. Underway(p)'
      BY <2>1, <3>1, <3>2 DEF Underway, File, Rewriting, Fetching, Registers, Rewrites, Fetches
    <3> QED
      BY <1>r, <2>1, <3>1, <3>2, <3>3, Undisturbing
  <2> QED
    BY <1>1, <2>2, <2>3 DEF WriteTOpen
<1>2. CASE WriteTAppend(p)
  <2> DEFINE grown == Append(cwd[File(p)], p)
  <2>1. /\ UNCHANGED <<srv, cmd, buf>> /\ acked' = acked /\ at[p] = "wa_write"
        /\ cwd' = cwd \/ cwd' = [cwd EXCEPT ![File(p)] = grown]
        /\ \/ Go(p, "wa_ack") /\ cwd' = [cwd EXCEPT ![File(p)] = grown]
           \/ \E b \in {"ready", "dead"} : Go(p, b)
    BY <1>2, Unreported DEF WriteTAppend, In, Leave, Call, Abort, Gone
  <2>2. cwd[File(p)] \in Seq(Lines)
    BY <1>t, <2>1 DEF AppendInv, Underway
  <2>3. grown \in Contents /\ Holds(grown, p) /\ \A q : Holds(cwd[File(p)], q) => Holds(grown, q)
    BY <1>t, <2>2, HoldsAppended DEF Contents
  <2> HIDE DEF grown
  <2>4. /\ cwd' \in [Names -> {NoFile} \cup Contents]
        /\ \A n \in Names : cwd[n] # NoFile => cwd'[n] # NoFile
        /\ \A n \in Names, q \in Procs : Holds(cwd[n], q) => Holds(cwd'[n], q)
        /\ cwd' # cwd => cwd'[File(p)] = grown
    BY <1>t, <1>n, <2>1, <2>3 DEF AppendInv, AppendTypeOK
  <2>5. PICK b \in {"ready", "dead", "wa_ack"} :
          Go(p, b) /\ (b = "wa_ack" => cwd' = [cwd EXCEPT ![File(p)] = grown])
    BY <2>1
  <2>6. AppendTypeOK' /\ OthersStay(p) /\ at'[p] = b
    BY <2>1, <2>4, <2>5 DEF AppendInv, AppendTypeOK, OthersStay, Go, Labels
  <2>7. b = "wa_ack" => cwd'[File(p)] # NoFile /\ Holds(cwd'[File(p)], p)
    BY <1>t, <1>n, <2>3, <2>5 DEF AppendInv, AppendTypeOK
  <2>8. Underway(p)'
    BY <2>1, <2>6, <2>7 DEF Underway, File, Rewriting, Fetching, Registers, Rewrites, Fetches
  <2> QED
    BY <1>r, <2>1, <2>4, <2>6, <2>8, Undisturbing
<1>3. CASE WriteTAck(p)
  <2>1. UNCHANGED <<cwd, srv, cmd, buf>> /\ at[p] = "wa_ack"
    BY <1>3 DEF WriteTAck, In, fileVars
  <2>2. CASE Gone(p)
    BY <1>t, <2>1, <2>2, Answers, Unreported
  <2>3. CASE Go(p, "ready") /\ acked' = acked \cup {<<File(p), p>>}
    <3>1. AppendTypeOK' /\ OthersStay(p) /\ at'[p] = "ready"
      BY <1>t, <2>1, <2>3 DEF AppendInv, AppendTypeOK, OthersStay, Go, Labels
    <3>2. Underway(p)'
      BY <3>1 DEF Underway, Rewriting, Fetching, Registers, Rewrites, Fetches
    <3>3. cwd[File(p)] # NoFile /\ Holds(cwd[File(p)], p)
      BY <2>1 DEF AppendInv, Underway
    <3> QED
      BY <1>r, <2>1, <2>3, <3>1, <3>2, <3>3, Undisturbing
  <2> QED
    BY <1>3, <2>2, <2>3 DEF WriteTAck
<1> QED
  BY <1>1, <1>2, <1>3

(* writeT with a line: what was reported and is not replaced is kept in    *)
(* the temporary file, and comes back.                                     *)
LEMMA WriteTLineAppends ==
  ASSUME AppendsSafe, AppendInv, NEW p \in Procs,
         \/ WriteTLineCopy(p) \/ WriteTLineShort(p) \/ WriteTLineEnter(p)
         \/ WriteTLineTrunc(p) \/ WriteTLineBack(p) \/ WriteTLineAck(p)
  PROVE  AppendInv'
<1>t. /\ File(p) \in Names /\ Seq(Lines) = Contents /\ << >> \in Contents /\ buf[p] \in Contents
      /\ \A n \in Names : cwd[n] # NoFile => cwd[n] \in Seq(Lines)
  BY DEF AppendInv, AppendTypeOK, File, Commands, Contents
<1>n. NoFile \notin Contents
  BY FileAssumption DEF FileAssumption
<1>w. at[p] \in Rewrites /\ ~Appending
  BY DEF AppendInv, Underway, Rewrites, WriteTLineCopy, WriteTLineShort, WriteTLineEnter,
         WriteTLineTrunc, WriteTLineBack, WriteTLineAck, In
<1>1. CASE WriteTLineCopy(p)
  <2> DEFINE f == cwd[File(p)]
             k == cmd[p].line
  <2>1. UNCHANGED <<cwd, srv, cmd>> /\ at[p] = "wl_open"
    BY <1>1 DEF WriteTLineCopy, In, fileVars
  <2>2. \/ Abort(p) /\ buf' = buf
        \/ Finish(p) /\ buf' = buf
        \/ Go(p, "dead") /\ UNCHANGED <<buf, acked>>
        \/ /\ f # NoFile /\ k \in 1..Len(f) /\ Go(p, "wl_enter")
           /\ buf' = [buf EXCEPT ![p] = [f EXCEPT ![k] = "new"]]
           /\ acked' = acked \ {<<File(p), f[k]>>}
        \/ /\ f # NoFile /\ Go(p, "wl_short") /\ acked' = acked
           /\ buf' = [buf EXCEPT ![p] = f]
    BY <1>1 DEF WriteTLineCopy, Leave, Call
  <2>3. CASE (Abort(p) \/ Finish(p)) /\ buf' = buf
    BY <2>1, <2>2, <2>3, Answers, Unreported
  <2>4. CASE Go(p, "dead") /\ UNCHANGED <<buf, acked>>
    <3>1. at'[p] = "dead" /\ "dead" \in Labels
      BY <2>4 DEF Go, AppendInv, AppendTypeOK, Labels
    <3>2. Underway(p)'
      BY <3>1 DEF Underway, Rewriting, Fetching, Registers, Rewrites, Fetches
    <3> QED
      BY <2>1, <2>4, <3>1, <3>2, Turn
  <2>5. CASE /\ f # NoFile /\ k \in 1..Len(f) /\ Go(p, "wl_enter")
             /\ buf' = [buf EXCEPT ![p] = [f EXCEPT ![k] = "new"]]
             /\ acked' = acked \ {<<File(p), f[k]>>}
    <3> DEFINE kept == [f EXCEPT ![k] = "new"]
    <3>1. kept \in Contents /\ \A q : Holds(f, q) /\ q # f[k] => Holds(kept, q)
      <4>1. f \in Seq(Lines) /\ "new" \in Lines
        BY <1>t, <2>5 DEF Lines
      <4> QED
        BY <1>t, <2>5, <4>1, HoldsReplaced
    <3>2. buf' = [buf EXCEPT ![p] = kept]
      BY <2>5
    <3>3. \A q \in Procs : <<File(p), q>> \in acked => Holds(f, q)
      <4>1. \A r \in Procs : at[r] # "wl_back"
        BY <1>w, <2>1 DEF AppendsSafe, Alone
      <4> QED
        BY <1>t, <4>1 DEF AppendInv, Reported
    <3>4. \A q \in Procs : <<File(p), q>> \in acked' => Holds(kept, q)
      BY <2>5, <3>1, <3>3
    <3> HIDE DEF kept
    <3>5. AppendTypeOK' /\ OthersStay(p) /\ at'[p] = "wl_enter" /\ buf'[p] = kept
      BY <2>1, <2>5, <3>1, <3>2 DEF AppendInv, AppendTypeOK, OthersStay, Go, Labels
    <3>6. Underway(p)'
      BY <1>w, <2>1, <2>5, <3>4, <3>5 DEF Underway, File, Rewriting, Fetching, Registers, Fetches
    <3> QED
      BY <2>1, <2>5, <3>5, <3>6, Quiet
  <2>6. CASE f # NoFile /\ Go(p, "wl_short") /\ acked' = acked /\ buf' = [buf EXCEPT ![p] = f]
    <3>1. AppendTypeOK' /\ OthersStay(p) /\ at'[p] = "wl_short"
      BY <1>t, <2>1, <2>6 DEF AppendInv, AppendTypeOK, OthersStay, Go, Labels
    <3>2. Underway(p)'
      BY <1>w, <3>1 DEF Underway, Rewriting, Fetching, Registers, Fetches
    <3> QED
      BY <2>1, <2>6, <3>1, <3>2, Quiet
  <2> QED
    BY <2>2, <2>3, <2>4, <2>5, <2>6
<1>2. CASE WriteTLineShort(p) \/ WriteTLineAck(p)
  <2>1. UNCHANGED <<cwd, srv, cmd, buf>> /\ Finish(p) /\ at[p] # "wl_back"
    BY <1>2 DEF WriteTLineShort, WriteTLineAck, In, fileVars
  <2> QED
    BY <2>1, Answers, Unreported
<1>3. CASE WriteTLineEnter(p)
  <2>1. UNCHANGED <<cwd, srv, cmd, buf, acked>> /\ at[p] = "wl_enter" /\ Go(p, "wl_trunc")
    BY <1>3 DEF WriteTLineEnter, In, Call, fileVars, cmdVars
  <2>2. at'[p] = "wl_trunc" /\ "wl_trunc" \in Labels
    BY <2>1 DEF Go, AppendInv, AppendTypeOK, Labels
  <2>3. Underway(p)'
    BY <1>w, <2>1, <2>2 DEF AppendInv, Underway, File, Rewriting, Fetching, Registers, Fetches
  <2> QED
    BY <2>1, <2>2, <2>3, Turn
<1>4. CASE WriteTLineTrunc(p)
  <2>1. UNCHANGED <<srv, cmd, buf>> /\ at[p] = "wl_trunc"
    BY <1>4 DEF WriteTLineTrunc, In
  <2>2. CASE Abort(p) /\ cwd' = cwd
    BY <2>1, <2>2, Answers, Unreported
  <2>3. CASE cwd' = [cwd EXCEPT ![File(p)] = << >>] /\ Go(p, "wl_back") /\ acked' = acked
    <3>1. /\ cwd' \in [Names -> {NoFile} \cup Contents] /\ cwd'[File(p)] # NoFile
          /\ \A n \in Names : cwd[n] # NoFile => cwd'[n] # NoFile
          /\ \A n \in Names : n # File(p) => cwd'[n] = cwd[n]
      BY <1>t, <1>n, <2>3 DEF AppendInv, AppendTypeOK
    <3>2. AppendTypeOK' /\ OthersStay(p) /\ at'[p] = "wl_back" /\ File(p)' = File(p)
      BY <2>1, <2>3, <3>1 DEF AppendInv, AppendTypeOK, OthersStay, Go, Labels, File
    <3>3. Underway(p)'
      BY <1>w, <2>1, <2>3, <3>1, <3>2 DEF AppendInv, Underway, File, Rewriting, Fetching, Registers, Fetches
    <3>4. \A n \in Names, q \in Procs : <<n, q>> \in acked => cwd[n] # NoFile /\ Holds(cwd[n], q)
      BY <1>w, <2>1 DEF AppendsSafe, Alone, AppendInv, Reported
    <3>5. \A n \in Names, q \in Procs :
            <<n, q>> \in acked' => cwd'[n] # NoFile /\ (Holds(cwd'[n], q) \/ (at'[p] = "wl_back" /\ File(p)' = n))
      BY <2>3, <3>1, <3>2, <3>4
    <3> QED
      BY <1>w, <2>1, <3>1, <3>2, <3>3, <3>5, Undisturbing
  <2> QED
    BY <1>4, <2>2, <2>3 DEF WriteTLineTrunc
<1>5. CASE WriteTLineBack(p)
  <2>1. /\ UNCHANGED <<srv, cmd, buf, acked>> /\ at[p] = "wl_back" /\ Go(p, "wl_ack")
        /\ cwd' = [cwd EXCEPT ![File(p)] = buf[p]]
    BY <1>5, <1>w DEF WriteTLineBack, In, Leave, Call, cmdVars, AppendsSafe, Fails
  <2>2. /\ cwd' \in [Names -> {NoFile} \cup Contents] /\ cwd'[File(p)] = buf[p] /\ buf[p] # NoFile
        /\ \A n \in Names : cwd[n] # NoFile => cwd'[n] # NoFile
        /\ \A n \in Names : n # File(p) => cwd'[n] = cwd[n]
    BY <1>t, <1>n, <2>1 DEF AppendInv, AppendTypeOK
  <2>3. AppendTypeOK' /\ OthersStay(p) /\ at'[p] = "wl_ack"
    BY <2>1, <2>2 DEF AppendInv, AppendTypeOK, OthersStay, Go, Labels
  <2>4. Underway(p)'
    BY <1>w, <2>3 DEF Underway, Rewriting, Fetching, Registers, Fetches
  <2>5. \A q \in Procs : <<File(p), q>> \in acked => Holds(buf[p], q)
    BY <2>1 DEF AppendInv, Underway, Rewriting
  <2>6. \A r \in Procs : r = p
    BY <1>w DEF AppendsSafe, Alone
  <2>7. \A n \in Names, q \in Procs : <<n, q>> \in acked' => cwd'[n] # NoFile /\ Holds(cwd'[n], q)
    BY <1>t, <2>1, <2>2, <2>5, <2>6 DEF AppendInv, Reported
  <2> QED
    BY <1>w, <2>1, <2>2, <2>3, <2>4, <2>7, Undisturbing
<1> QED
  BY <1>1, <1>2, <1>3, <1>4, <1>5

LEMMA UploadAppends ==
  ASSUME AppendsSafe, AppendInv, NEW p \in Procs, Upload(p)
  PROVE  AppendInv'
<1>t. File(p) \in Names /\ << >> \in Contents /\ buf[p] \in Contents /\ Seq(Lines) = Contents
  BY DEF AppendInv, AppendTypeOK, File, Commands, Contents
<1>n. NoFile \notin Contents
  BY FileAssumption DEF FileAssumption
<1>1. UNCHANGED <<cwd, cmd>> /\ at[p] # "wl_back"
  BY DEF Upload, UploadOpen, UploadCreate, UploadCopy, UploadAck, In, fileVars
<1>2. ASSUME Go(p, "up_ack"), UNCHANGED <<srv, buf, acked>>
      PROVE  AppendInv'
  <2>1. at'[p] = "up_ack" /\ "up_ack" \in Labels
    BY <1>2 DEF Go, AppendInv, AppendTypeOK, Labels
  <2>2. Underway(p)'
    BY <2>1 DEF Underway, Rewriting, Fetching, Registers, Rewrites, Fetches
  <2> QED
    BY <1>1, <1>2, <2>1, <2>2, Turn
<1>3. CASE UploadOpen(p)
  <2>1. UNCHANGED <<srv, buf>>
    BY <1>3 DEF UploadOpen, fileVars
  <2>2. CASE Abort(p)
    BY <1>1, <2>1, <2>2, Answers, Unreported
  <2>3. CASE cwd[File(p)] # NoFile /\ Go(p, "up_create") /\ acked' = acked
    <3>1. at'[p] = "up_create" /\ "up_create" \in Labels
      BY <2>3 DEF Go, AppendInv, AppendTypeOK, Labels
    <3>2. Underway(p)'
      BY <1>1, <2>3, <3>1 DEF Underway, File, Rewriting, Fetching, Registers, Rewrites, Fetches
    <3> QED
      BY <1>1, <2>1, <2>3, <3>1, <3>2, Turn
  <2> QED
    BY <1>3, <2>2, <2>3 DEF UploadOpen
<1>4. CASE UploadCreate(p)
  <2>1. buf' = buf /\ at[p] = "up_create"
    BY <1>4 DEF UploadCreate, In
  <2>2. CASE Abort(p) /\ srv' = srv
    BY <1>1, <2>1, <2>2, Answers, Unreported
  <2>3. CASE srv' = [srv EXCEPT ![File(p)] = << >>] /\ Go(p, "up_copy") /\ acked' = acked
    <3>1. /\ srv' \in [Names -> {NoFile} \cup Contents] /\ srv'[File(p)] # NoFile
          /\ \A n \in Names : srv[n] # NoFile => srv'[n] # NoFile
      BY <1>t, <1>n, <2>3 DEF AppendInv, AppendTypeOK
    <3>2. AppendTypeOK' /\ OthersStay(p) /\ at'[p] = "up_copy"
      BY <1>1, <2>1, <2>3, <3>1 DEF AppendInv, AppendTypeOK, OthersStay, Go, Labels
    <3>3. Underway(p)'
      BY <1>1, <2>1, <3>1, <3>2
      DEF AppendInv, Underway, File, Rewriting, Fetching, Registers, Rewrites, Fetches
    <3> QED
      BY <1>1, <2>3, <3>1, <3>2, <3>3, Quiet
  <2> QED
    BY <1>4, <2>2, <2>3 DEF UploadCreate
<1>5. CASE UploadCopy(p)
  <2> DEFINE from == cwd[File(p)]
             k == Len(buf[p]) + 1
             sent == Append(buf[p], from[k])
             stored == Append(srv[File(p)], from[k])
  <2>1. /\ at[p] = "up_copy"
        /\ \/ /\ k <= Len(from) /\ UNCHANGED <<at, acked>>
              /\ buf' = [buf EXCEPT ![p] = sent] /\ srv' = [srv EXCEPT ![File(p)] = stored]
           \/ Go(p, "up_ack") /\ UNCHANGED <<buf, srv, acked>>
           \/ Abort(p) /\ UNCHANGED <<buf, srv>>
    BY <1>5 DEF UploadCopy, In, Leave, Call
  <2>2. CASE Go(p, "up_ack") /\ UNCHANGED <<buf, srv, acked>>
    BY <1>2, <2>2
  <2>3. CASE Abort(p) /\ UNCHANGED <<buf, srv>>
    BY <1>1, <2>3, Answers, Unreported
  <2>4. CASE /\ k <= Len(from) /\ UNCHANGED <<at, acked>>
             /\ buf' = [buf EXCEPT ![p] = sent] /\ srv' = [srv EXCEPT ![File(p)] = stored]
    <3>1. from \in Seq(Lines) /\ srv[File(p)] \in Seq(Lines) /\ buf[p] \in Seq(Lines)
      BY <1>t, <2>1 DEF AppendInv, AppendTypeOK, Underway
    <3>2. from[k] \in Lines
      <4>1. k \in 1..Len(from)
        BY <2>4, <3>1, LenProperties
      <4> QED
        BY <3>1, <4>1, ElementOfSeq
    <3>3. sent \in Contents /\ stored \in Contents
      <4> HIDE DEF from, k
      <4>1. sent \in Seq(Lines)
        BY <3>1, <3>2, HoldsAppended
      <4>2. stored \in Seq(Lines)
        BY <3>1, <3>2, HoldsAppended
      <4> QED
        BY <1>t, <4>1, <4>2
    <3> HIDE DEF from, k, sent, stored
    <3>4. /\ srv' \in [Names -> {NoFile} \cup Contents] /\ srv'[File(p)] # NoFile
          /\ \A n \in Names : srv[n] # NoFile => srv'[n] # NoFile
      BY <1>t, <1>n, <2>4, <3>3 DEF AppendInv, AppendTypeOK
    <3>5. AppendTypeOK' /\ OthersStay(p) /\ at'[p] = "up_copy"
      BY <1>1, <2>1, <2>4, <3>3, <3>4 DEF AppendInv, AppendTypeOK, OthersStay
    <3>6. Underway(p)'
      BY <1>1, <2>1, <3>4, <3>5
      DEF AppendInv, Underway, File, Rewriting, Fetching, Registers, Rewrites, Fetches
    <3> QED
      BY <1>1, <2>4, <3>4, <3>5, <3>6, Quiet
  <2> QED
    BY <2>1, <2>2, <2>3, <2>4
<1>6. CASE UploadAck(p)
  <2>1. Finish(p) /\ UNCHANGED <<srv, buf>>
    BY <1>6 DEF UploadAck, fileVars
  <2> QED
    BY <1>1, <2>1, Answers, Unreported
<1> QED
  BY <1>3, <1>4, <1>5, <1>6 DEF Upload

(* A file that is fetched has no reported line: it was not there.          *)
LEMMA DownloadAppends ==
  ASSUME AppendsSafe, AppendInv, NEW p \in Procs, Download(p)
  PROVE  AppendInv'
<1>t. /\ File(p) \in Names /\ << >> \in Contents /\ buf[p] \in Contents /\ Seq(Lines) = Contents
      /\ \A n \in Names : cwd[n] # NoFile => cwd[n] \in Seq(Lines)
  BY DEF AppendInv, AppendTypeOK, File, Commands, Contents
<1>n. NoFile \notin Contents
  BY FileAssumption DEF FileAssumption
<1>w. at[p] \in Fetches /\ Op(p) = "download" /\ Op(p) \in Ops /\ ~Appending
  BY DEF AppendInv, Underway, Fetches, Download, DownloadServer, DownloadLocal, DownloadCreate,
         DownloadCopy, DownloadAck, In
<1>1. UNCHANGED <<srv, cmd>> /\ at[p] # "wl_back"
  BY DEF Download, DownloadServer, DownloadLocal, DownloadCreate, DownloadCopy, DownloadAck, In, fileVars
<1>r. \A n \in Names, q \in Procs : <<n, q>> \in acked => cwd[n] # NoFile /\ Holds(cwd[n], q)
  BY <1>w, <1>1 DEF AppendsSafe, Alone, AppendInv, Reported
<1>2. ASSUME NEW b \in {"dl_local", "get_file", "dl_ack"}, Go(p, b), UNCHANGED <<cwd, buf, acked>>,
             b # "dl_ack" => srv[File(p)] # NoFile,
             b = "get_file" => \A q \in Procs : <<File(p), q>> \notin acked
      PROVE  AppendInv'
  <2>1. at'[p] = b /\ b \in Labels
    BY <1>2 DEF Go, AppendInv, AppendTypeOK, Labels
  <2>2. Underway(p)'
    BY <1>w, <1>1, <1>2, <2>1 DEF Underway, File, Op, Rewriting, Fetching, Registers, Rewrites
  <2> QED
    BY <1>1, <1>2, <2>1, <2>2, Turn
<1>3. CASE DownloadServer(p)
  <2>1. UNCHANGED <<cwd, buf>>
        /\ (Finish(p) \/ (srv[File(p)] # NoFile /\ Go(p, "dl_local") /\ acked' = acked))
    BY <1>3 DEF DownloadServer, fileVars
  <2> QED
    BY <1>1, <1>2, <2>1, Answers, Unreported
<1>4. CASE DownloadLocal(p)
  <2>1. UNCHANGED <<cwd, buf>> /\ at[p] = "dl_local"
        /\ (Finish(p) \/ (cwd[File(p)] = NoFile /\ Go(p, "get_file") /\ acked' = acked))
    BY <1>4 DEF DownloadLocal, fileVars
  <2>2. srv[File(p)] # NoFile
    BY <2>1 DEF AppendInv, Underway
  <2> QED
    BY <1>t, <1>r, <1>1, <1>2, <2>1, <2>2, Answers, Unreported
<1>5. ASSUME at[p] \in {"dl_create", "dl_copy"}, NEW f \in Contents, cwd' = [cwd EXCEPT ![File(p)] = f],
             at' = [at EXCEPT ![p] = "dl_copy"], buf' \in [Procs -> Contents], acked' = acked,
             \A q \in Procs \ {p} : buf'[q] = buf[q]
      PROVE  AppendInv'
  <2>1. /\ cwd' \in [Names -> {NoFile} \cup Contents] /\ cwd'[File(p)] # NoFile
        /\ \A n \in Names : cwd[n] # NoFile => cwd'[n] # NoFile
        /\ \A n \in Names : n # File(p) => cwd'[n] = cwd[n]
    BY <1>t, <1>n, <1>5 DEF AppendInv, AppendTypeOK
  <2>2. AppendTypeOK' /\ OthersStay(p) /\ at'[p] = "dl_copy"
    BY <1>1, <1>5, <2>1 DEF AppendInv, AppendTypeOK, OthersStay, Labels
  <2>3. srv[File(p)] # NoFile /\ \A q \in Procs : <<File(p), q>> \notin acked
    BY <1>5, <1>w DEF AppendInv, Underway, Fetching
  <2>4. Underway(p)'
    BY <1>w, <1>1, <1>5, <2>1, <2>2, <2>3 DEF Underway, File, Op, Rewriting, Fetching, Registers, Rewrites
  <2>5. \A n \in Names, q \in Procs : <<n, q>> \in acked' => cwd'[n] # NoFile /\ Holds(cwd'[n], q)
    BY <1>r, <1>5, <2>1, <2>3
  <2> QED
    BY <1>w, <1>1, <1>5, <2>1, <2>2, <2>4, <2>5, Undisturbing
<1>6. CASE DownloadCreate(p)
  <2>1. buf' = buf /\ at[p] = "dl_create"
    BY <1>6 DEF DownloadCreate, In
  <2>2. CASE Abort(p) /\ cwd' = cwd
    BY <1>1, <2>1, <2>2, Answers, Unreported
  <2>3. CASE /\ cwd' = [cwd EXCEPT ![File(p)] = IF @ = NoFile THEN << >> ELSE @]
             /\ Go(p, "dl_copy") /\ acked' = acked
    <3> DEFINE f == IF cwd[File(p)] = NoFile THEN << >> ELSE cwd[File(p)]
    <3>1. f \in Contents
      BY <1>t
    <3>2. cwd' = [cwd EXCEPT ![File(p)] = f]
      BY <2>3
    <3> HIDE DEF f
    <3>3. buf' \in [Procs -> Contents]
      BY <2>1 DEF AppendInv, AppendTypeOK
    <3> QED
      BY <1>5, <2>1, <2>3, <3>1, <3>2, <3>3 DEF Go
  <2> QED
    BY <1>6, <2>2, <2>3 DEF DownloadCreate
<1>7. CASE DownloadCopy(p)
  <2> DEFINE from == srv[File(p)]
             k == Len(buf[p]) + 1
             got == Append(buf[p], from[k])
             f == Written(cwd[File(p)], k, from[k])
  <2>1. /\ at[p] = "dl_copy"
        /\ \/ /\ k <= Len(from) /\ UNCHANGED <<at, acked>>
              /\ buf' = [buf EXCEPT ![p] = got] /\ cwd' = [cwd EXCEPT ![File(p)] = f]
           \/ Go(p, "dl_ack") /\ UNCHANGED <<buf, cwd, acked>>
           \/ Abort(p) /\ UNCHANGED <<buf, cwd>>
    BY <1>7 DEF DownloadCopy, In, Leave, Call, Written
  <2>2. CASE Go(p, "dl_ack") /\ UNCHANGED <<buf, cwd, acked>>
    BY <1>2, <2>2
  <2>3. CASE Abort(p) /\ UNCHANGED <<buf, cwd>>
    BY <1>1, <2>3, Answers, Unreported
  <2>4. CASE /\ k <= Len(from) /\ UNCHANGED <<at, acked>>
             /\ buf' = [buf EXCEPT ![p] = got] /\ cwd' = [cwd EXCEPT ![File(p)] = f]
    <3>1. from \in Seq(Lines) /\ cwd[File(p)] \in Seq(Lines) /\ buf[p] \in Seq(Lines)
      BY <1>t, <1>w, <2>1 DEF AppendInv, AppendTypeOK, Underway, Fetching
    <3>2. from[k] \in Lines /\ Len(buf[p]) \in Nat /\ Len(cwd[File(p)]) \in Nat
      <4>1. k \in 1..Len(from)
        BY <2>4, <3>1, LenProperties
      <4> QED
        BY <3>1, <4>1, ElementOfSeq, LenProperties
    <3>3. got \in Contents
      BY <1>t, <3>1, <3>2, HoldsAppended
    <3>4. f \in Contents
      <4>1. CASE k <= Len(cwd[File(p)])
        <5>1. k \in 1..Len(cwd[File(p)])
          BY <3>2, <4>1
        <5> QED
          BY <1>t, <3>1, <3>2, <4>1, <5>1, HoldsReplaced DEF Written
      <4>2. CASE ~(k <= Len(cwd[File(p)]))
        <5>1. Append(cwd[File(p)], from[k]) \in Seq(Lines)
          <6> HIDE DEF from, k
          <6> QED
            BY <3>1, <3>2, HoldsAppended
        <5> QED
          BY <1>t, <4>2, <5>1 DEF Written
      <4> QED
        BY <4>1, <4>2
    <3> HIDE DEF from, k, got, f
    <3>5. at' = [at EXCEPT ![p] = "dl_copy"]
      BY <2>1, <2>4 DEF AppendInv, AppendTypeOK
    <3>6. buf' \in [Procs -> Contents] /\ \A q \in Procs \ {p} : buf'[q] = buf[q]
      BY <2>4, <3>3 DEF AppendInv, AppendTypeOK
    <3> QED
      BY <1>5, <2>1, <2>4, <3>4, <3>5, <3>6
  <2> QED
    BY <2>1, <2>2, <2>3, <2>4
<1>8. CASE DownloadAck(p)
  <2>1. Finish(p) /\ UNCHANGED <<cwd, buf>>
    BY <1>8 DEF DownloadAck, fileVars
  <2> QED
    BY <1>1, <2>1, Answers, Unreported
<1> QED
  BY <1>3, <1>4, <1>6, <1>7, <1>8 DEF Download

LEMMA InitAppends == FileInit => AppendInv
<1> SUFFICES ASSUME FileInit PROVE AppendInv
  OBVIOUS
<1>1. cwd \in [Names -> {NoFile} \cup Contents] /\ srv \in [Names -> {NoFile} \cup Contents]
  BY FileAssumption DEF FileInit, FileAssumption
<1>2. \A p \in Procs : at[p] = "ready"
  BY DEF FileInit
<1>3. at \in [Procs -> Labels] /\ buf \in [Procs -> Contents] /\ acked = {}
  <2>1. "ready" \in Labels /\ << >> \in Contents
    BY DEF Labels, Contents
  <2> QED
    BY <2>1 DEF FileInit
<1>4. cmd \in [Procs -> Commands]
  <2>1. NoCmd \in Commands
    BY FileAssumption DEF NoCmd, Commands, FileAssumption
  <2> QED
    BY <2>1 DEF FileInit
<1>5. \A p \in Procs : Underway(p)
  BY <1>2 DEF Underway, Rewriting, Fetching, Registers, Rewrites, Fetches
<1> QED
  BY <1>1, <1>3, <1>4, <1>5 DEF AppendInv, AppendTypeOK, Reported

LEMMA NextAppends ==
  ASSUME AppendsSafe
  PROVE  AppendInv /\ [FileNext]_allVars => AppendInv'
<1> SUFFICES ASSUME AppendInv, [FileNext]_allVars PROVE AppendInv'
  OBVIOUS
<1>1. CASE UNCHANGED <<cwd, srv, at, cmd, buf, acked>>
  BY <1>1 DEF AppendInv, AppendTypeOK, Reported, Underway, Rewriting, Fetching, File, Op
<1>2. CASE UNCHANGED allVars
  BY <1>1, <1>2 DEF allVars, fileVars, cmdVars
<1>3. ASSUME NEW p \in Procs,
             \/ Request(p) \/ Table(p) \/ Enter(p) \/ LockStep(p)
             \/ ReadF(p) \/ WriteT(p) \/ Upload(p) \/ Download(p)
      PROVE  AppendInv'
  <2>1. CASE LockStep(p)
    BY <1>1, <2>1 DEF LockStep, fileVars, cmdVars
  <2>2. CASE WriteT(p)
    BY <2>2, WriteTAppends, WriteTLineAppends DEF WriteT
  <2> QED
    BY <1>3, <2>1, <2>2, RequestAppends, TableAppends, EnterAppends, ReadFAppends, UploadAppends, DownloadAppends
<1> QED
  BY <1>2, <1>3 DEF FileNext

(***************************************************************************)
(* A line reported as written at the end of a file stays in it: beside any *)
(* number of clients that rewrite no line and fetch no file, whatever else *)
(* fails, and for a single client whatever it sends, when copying back the *)
(* lines of a rewritten file does not fail.                                *)
(***************************************************************************)
THEOREM ReportedAppendsKept ==
  ASSUME AppendsSafe
  PROVE  FileSpec => []AckedAppendsKept
<1>1. AppendInv => AckedAppendsKept
  BY DEF AppendInv, AppendTypeOK, Reported, AckedAppendsKept, Holds
<1> QED
  BY <1>1, InitAppends, NextAppends, PTL DEF FileSpec

-----------------------------------------------------------------------------
(* What init_file relies on between its test and its store: nobody else    *)
(* takes the last slot.                                                    *)
TableInv ==
  /\ at = [p \in Procs |-> at[p]] /\ cmd = [p \in Procs |-> cmd[p]] /\ seen = [p \in Procs |-> seen[p]]
  /\ size \in Nat /\ size <= Capacity
  /\ \A p \in Procs :
       /\ at[p] \notin {"ready", "dead"} => Op(p) \in CommandNames
       /\ at[p] = "rd_open" => Op(p) \in {"readF", "readF_line", "readF_invalid"}
       /\ at[p] \in {"init_slot", "init_load"} => size < Capacity
       /\ at[p] = "init_store" => seen[p] \in Nat /\ seen[p] < Capacity

(* A command that goes on outside init_file, or into it.                   *)
LEMMA Elsewhere ==
  ASSUME TableInv, NEW p \in Procs, UNCHANGED <<size, seen, cmd>>,
         NEW b, Go(p, b), b \notin {"init_slot", "init_load", "init_store"},
         b \in {"ready", "dead"} \/ at[p] \notin {"ready", "dead"},
         b = "rd_open" => Op(p) \in {"readF", "readF_line", "readF_invalid"}
  PROVE  TableInv'
BY DEF TableInv, Go, Op

LEMMA AnswersElsewhere ==
  ASSUME TableInv, NEW p \in Procs, UNCHANGED <<size, seen, cmd>>,
         Abort(p) \/ Finish(p) \/ Gone(p) \/ Leave(p, "ready")
  PROVE  TableInv'
<1>1. PICK b \in {"ready", "dead"} : Go(p, b)
  BY DEF Abort, Finish, Gone, Leave, Call
<1> QED
  BY <1>1, Elsewhere

LEMMA RegistersWithin ==
  ASSUME Alone, TableInv, NEW p \in Procs, Table(p)
  PROVE  TableInv'
<1>1. Capacity \in Nat /\ \A q \in Procs : q = p
  BY FileAssumption DEF FileAssumption, Alone
<1>2. CASE GetFile(p)
  BY <1>2, Elsewhere DEF GetFile, tableVars, cmdVars
<1>3. CASE InitFileCheck(p)
  <2>1. CASE size = Capacity
    BY <1>3, <2>1, Elsewhere DEF InitFileCheck, tableVars, cmdVars
  <2>2. CASE size # Capacity
    BY <1>1, <1>3, <2>2 DEF InitFileCheck, Go, Op, tableVars, cmdVars, TableInv
  <2> QED
    BY <2>1, <2>2
<1>4. CASE InitFileSlot(p)
  BY <1>1, <1>4 DEF InitFileSlot, Go, Op, cmdVars, TableInv
<1>5. CASE InitFileLoad(p)
  BY <1>1, <1>5 DEF InitFileLoad, Go, Op, tableVars, cmdVars, TableInv
<1>6. CASE InitFileStore(p)
  BY <1>1, <1>6 DEF InitFileStore, Go, Op, cmdVars, TableInv
<1> QED
  BY <1>2, <1>3, <1>4, <1>5, <1>6 DEF Table

LEMMA EnterElsewhere ==
  ASSUME TableInv, NEW p \in Procs, Enter(p)
  PROVE  TableInv'
<1>1. at[p] = "enter" /\ UNCHANGED <<size, seen, cmd>> /\ Op(p) \in CommandNames
  BY DEF Enter, tableVars, cmdVars, TableInv
<1>2. \/ Op(p) \in {"readF", "readF_line", "readF_invalid"} /\ Go(p, "rd_open")
      \/ \E b \in {"wa_open", "wl_open", "up_open", "dl_create"} : Go(p, b)
  BY <1>1 DEF Enter, Call, CommandNames
<1> QED
  BY <1>1, <1>2, Elsewhere

LEMMA RequestElsewhere ==
  ASSUME TableInv, NEW p \in Procs, Request(p)
  PROVE  TableInv'
<1>1. PICK op \in Ops, n \in Names :
        \E k \in IF op \in {"readF_line", "writeT_line"} THEN LineNumbers ELSE {0} :
          /\ cmd' = [cmd EXCEPT ![p] = [op |-> op, file |-> n, line |-> k]]
          /\ Go(p, IF op = "download" THEN "dl_server" ELSE "get_file")
  BY DEF Request
<1>2. op \in CommandNames
  BY FileAssumption DEF FileAssumption
<1>3. PICK c : c.op = op /\ cmd' = [cmd EXCEPT ![p] = c]
  BY <1>1
<1>4. PICK b \in {"dl_server", "get_file"} : at' = [at EXCEPT ![p] = b]
  BY <1>1 DEF Go
<1>5. UNCHANGED <<size, seen>>
  BY DEF Request, tableVars
<1> QED
  BY <1>2, <1>3, <1>4, <1>5 DEF TableInv, Op

LEMMA CommandsElsewhere ==
  ASSUME TableInv, NEW p \in Procs, ReadF(p) \/ WriteT(p) \/ Upload(p) \/ Download(p)
  PROVE  TableInv'
<1>1. UNCHANGED <<size, seen, cmd>> /\ at[p] \notin {"ready", "dead"}
  BY DEF tableVars, cmdVars, In,
         ReadF, ReadFOpen, ReadFCopy, ReadFLine, ReadFLineExit,
         WriteT, WriteTOpen, WriteTAppend, WriteTAck, WriteTLineCopy, WriteTLineShort, WriteTLineEnter,
         WriteTLineTrunc, WriteTLineBack, WriteTLineAck,
         Upload, UploadOpen, UploadCreate, UploadCopy, UploadAck,
         Download, DownloadServer, DownloadLocal, DownloadCreate, DownloadCopy, DownloadAck
<1> DEFINE There == {"rd_copy", "rd_line", "rd_exit", "wa_write", "wa_ack", "wl_enter", "wl_short",
                     "wl_trunc", "wl_back", "wl_ack", "up_create", "up_copy", "up_ack", "dl_local",
                     "get_file", "dl_copy", "dl_ack",
                     "ready", "dead"}
           Answer == Abort(p) \/ Finish(p) \/ Gone(p) \/ Leave(p, "ready")
<1>2. ReadF(p) => at' = at \/ Answer \/ \E b \in There : Go(p, b)
  <2>1. at[p] = "rd_open" => Op(p) \in {"readF", "readF_line", "readF_invalid"}
    BY DEF TableInv
  <2>2. ReadFOpen(p) => Answer \/ \E b \in There : Go(p, b)
    BY <2>1 DEF ReadFOpen, In
  <2>3. ReadFCopy(p) => at' = at \/ Answer
    BY DEF ReadFCopy
  <2>4. ReadFLine(p) \/ ReadFLineExit(p) => Answer \/ \E b \in There : Go(p, b)
    BY DEF ReadFLine, ReadFLineExit, Leave, Call
  <2> QED
    BY <2>2, <2>3, <2>4 DEF ReadF
<1>3. WriteT(p) => Answer \/ \E b \in There : Go(p, b)
  <2>1. WriteTOpen(p) \/ WriteTAppend(p) \/ WriteTAck(p) => Answer \/ \E b \in There : Go(p, b)
    BY DEF WriteTOpen, WriteTAppend, WriteTAck, Leave, Call
  <2>2. WriteTLineCopy(p) => Answer \/ \E b \in There : Go(p, b)
    BY DEF WriteTLineCopy, Leave, Call
  <2>3. WriteTLineShort(p) \/ WriteTLineEnter(p) \/ WriteTLineTrunc(p) \/ WriteTLineBack(p) \/ WriteTLineAck(p)
          => Answer \/ \E b \in There : Go(p, b)
    BY DEF WriteTLineShort, WriteTLineEnter, WriteTLineTrunc, WriteTLineBack, WriteTLineAck, Leave, Call
  <2> QED
    BY <2>1, <2>2, <2>3 DEF WriteT
<1>4. Upload(p) => at' = at \/ Answer \/ \E b \in There : Go(p, b)
  BY DEF Upload, UploadOpen, UploadCreate, UploadCopy, UploadAck, Leave, Call
<1>5. Download(p) => at' = at \/ Answer \/ \E b \in There : Go(p, b)
  BY DEF Download, DownloadServer, DownloadLocal, DownloadCreate, DownloadCopy, DownloadAck, Leave, Call
<1>6. CASE at' = at
  BY <1>1, <1>6 DEF TableInv, Op
<1>7. CASE \E b \in There : Go(p, b)
  BY <1>1, <1>7, Elsewhere
<1> HIDE DEF There
<1> QED
  BY <1>1, <1>2, <1>3, <1>4, <1>5, <1>6, <1>7, AnswersElsewhere

(***************************************************************************)
(* For a single client, whatever it sends and whatever fails, the table    *)
(* never counts more files than it has room for.                           *)
(***************************************************************************)
THEOREM TableNeverOverfull ==
  ASSUME Alone
  PROVE  FileSpec => []TableWithinCapacity
<1>1. FileInit => TableInv
  <2> SUFFICES ASSUME FileInit PROVE TableInv
    OBVIOUS
  <2>1. size \in Nat /\ size <= Capacity
    BY FileAssumption, LenProperties DEF FileInit, FileAssumption
  <2>2. /\ at = [p \in Procs |-> at[p]] /\ cmd = [p \in Procs |-> cmd[p]] /\ seen = [p \in Procs |-> seen[p]]
        /\ \A p \in Procs : at[p] = "ready"
    BY DEF FileInit
  <2> QED
    BY <2>1, <2>2 DEF TableInv
<1>2. TableInv /\ [FileNext]_allVars => TableInv'
  <2> SUFFICES ASSUME TableInv, [FileNext]_allVars PROVE TableInv'
    OBVIOUS
  <2>1. CASE UNCHANGED <<at, cmd, seen, size>>
    BY <2>1 DEF TableInv, Op
  <2>2. CASE UNCHANGED allVars
    BY <2>1, <2>2 DEF allVars, tableVars, cmdVars
  <2>3. ASSUME NEW p \in Procs, LockStep(p)
        PROVE  TableInv'
    BY <2>1, <2>3 DEF LockStep, tableVars, cmdVars
  <2> QED
    BY <2>2, <2>3, RegistersWithin, RequestElsewhere, EnterElsewhere, CommandsElsewhere DEF FileNext
<1>3. TableInv => TableWithinCapacity
  BY DEF TableInv, TableWithinCapacity
<1> QED
  BY <1>1, <1>2, <1>3, PTL DEF FileSpec
=============================================================================
