-------------------------- MODULE ParkingLotProofs --------------------------
(***************************************************************************)
(* Proofs about the parking lot of HW3/src/main.c, for every size of the   *)
(* two lots and any number of signals.                                     *)
(***************************************************************************)
EXTENDS ParkingLot, TLAPS

(* The lots start empty.                                                   *)
LEMMA InitInv == init => LotInv
<1> SUFFICES ASSUME init PROVE LotInv
  OBVIOUS
<1> USE MaxAssumption DEF init, Kinds
<1>1. TypeOK
  <2>1. mFree_temp \in [Kinds -> Int] /\ mFree \in [Kinds -> Int]
    OBVIOUS
  <2>2. newCar \in [Kinds -> Nat] /\ inCharge \in [Kinds -> Nat] /\ valet \in [Kinds -> ValetPoints]
    BY DEF ValetPoints
  <2>3. signals \in 0..MaxSignals
    OBVIOUS
  <2> QED
    BY <2>1, <2>2, <2>3 DEF TypeOK, OwnerPoints, HandlerPoints
<1>2. CarsFit
  BY DEF CarsFit
<1>3. NoPhantomCar /\ CarsCounted /\ PlaceKept /\ FlagFirst /\ OwnerKnows
  BY DEF NoPhantomCar, CarsCounted, PlaceKept, FlagFirst, OwnerKnows, WithValet
<1> QED
  BY <1>1, <1>2, <1>3 DEF LotInv

(* No step of a thread or of the handler breaks the invariant.             *)
LEMMA NextKeeps == LotInv /\ [Next]_vars => LotInv'
<1> SUFFICES ASSUME LotInv, [Next]_vars PROVE LotInv'
  OBVIOUS
<1> USE MaxAssumption DEF LotInv, lotVars, semVars, handlerVars
<1>1. CASE OwnerLoop
  <2> USE <1>1 DEF OwnerLoop
  <2>1. TypeOK'
    BY DEF TypeOK, Kinds, OwnerPoints, ValetPoints, HandlerPoints
  <2>2. CarsFit'
    BY DEF TypeOK, CarsFit, NoPhantomCar, PlaceKept, Kinds
  <2>3. NoPhantomCar'
    BY DEF TypeOK, CarsFit, NoPhantomCar, CarsCounted, WithValet, Kinds
  <2>4. CarsCounted'
    BY DEF TypeOK, CarsCounted, WithValet, FlagFirst, OwnerKnows, Kinds
  <2>5. PlaceKept'
    BY DEF TypeOK, CarsFit, PlaceKept, Kinds
  <2>6. FlagFirst'
    BY DEF TypeOK, FlagFirst, Kinds
  <2>7. OwnerKnows'
    BY DEF TypeOK, OwnerKnows, PlaceKept, CarsFit, FlagFirst, Kinds
  <2> QED
    BY <2>1, <2>2, <2>3, <2>4, <2>5, <2>6, <2>7
<1>2. CASE \E k \in Kinds : Arrive(k)
  <2>0. PICK k \in Kinds : Arrive(k)
    BY <1>2
  <2> USE <2>0 DEF Arrive, sem_post
  <2>1. TypeOK'
    BY DEF TypeOK, Kinds, OwnerPoints, ValetPoints, HandlerPoints
  <2>2. CarsFit'
    BY DEF TypeOK, CarsFit, NoPhantomCar, PlaceKept, Kinds
  <2>3. NoPhantomCar'
    BY DEF TypeOK, CarsFit, NoPhantomCar, CarsCounted, WithValet, Kinds
  <2>4. CarsCounted'
    BY DEF TypeOK, CarsCounted, WithValet, FlagFirst, OwnerKnows, Kinds
  <2>5. PlaceKept'
    BY DEF TypeOK, CarsFit, PlaceKept, Kinds
  <2>6. FlagFirst'
    BY DEF TypeOK, FlagFirst, Kinds
  <2>7. OwnerKnows'
    BY DEF TypeOK, OwnerKnows, PlaceKept, CarsFit, FlagFirst, Kinds
  <2> QED
    BY <2>1, <2>2, <2>3, <2>4, <2>5, <2>6, <2>7
<1>3. CASE CheckFull("check_auto", "auto", "check_pickup")
  <2> USE <1>3 DEF CheckFull
  <2>1. TypeOK'
    BY DEF TypeOK, Kinds, OwnerPoints, ValetPoints, HandlerPoints
  <2>2. CarsFit'
    BY DEF TypeOK, CarsFit, NoPhantomCar, PlaceKept, Kinds
  <2>3. NoPhantomCar'
    BY DEF TypeOK, CarsFit, NoPhantomCar, CarsCounted, WithValet, Kinds
  <2>4. CarsCounted'
    BY DEF TypeOK, CarsCounted, WithValet, FlagFirst, OwnerKnows, Kinds
  <2>5. PlaceKept'
    BY DEF TypeOK, CarsFit, PlaceKept, Kinds
  <2>6. FlagFirst'
    BY DEF TypeOK, FlagFirst, Kinds
  <2>7. OwnerKnows'
    BY DEF TypeOK, OwnerKnows, PlaceKept, CarsFit, FlagFirst, Kinds
  <2> QED
    BY <2>1, <2>2, <2>3, <2>4, <2>5, <2>6, <2>7
<1>4. CASE CheckFull("check_pickup", "pickup", "end")
  <2> USE <1>4 DEF CheckFull
  <2>1. TypeOK'
    BY DEF TypeOK, Kinds, OwnerPoints, ValetPoints, HandlerPoints
  <2>2. CarsFit'
    BY DEF TypeOK, CarsFit, NoPhantomCar, PlaceKept, Kinds
  <2>3. NoPhantomCar'
    BY DEF TypeOK, CarsFit, NoPhantomCar, CarsCounted, WithValet, Kinds
  <2>4. CarsCounted'
    BY DEF TypeOK, CarsCounted, WithValet, FlagFirst, OwnerKnows, Kinds
  <2>5. PlaceKept'
    BY DEF TypeOK, CarsFit, PlaceKept, Kinds
  <2>6. FlagFirst'
    BY DEF TypeOK, FlagFirst, Kinds
  <2>7. OwnerKnows'
    BY DEF TypeOK, OwnerKnows, PlaceKept, CarsFit, FlagFirst, Kinds
  <2> QED
    BY <2>1, <2>2, <2>3, <2>4, <2>5, <2>6, <2>7
<1>5. CASE OwnerEnds
  <2> USE <1>5 DEF OwnerEnds
  <2>1. TypeOK'
    BY DEF TypeOK, Kinds, OwnerPoints, ValetPoints, HandlerPoints
  <2>2. CarsFit'
    BY DEF TypeOK, CarsFit, NoPhantomCar, PlaceKept, Kinds
  <2>3. NoPhantomCar'
    BY DEF TypeOK, CarsFit, NoPhantomCar, CarsCounted, WithValet, Kinds
  <2>4. CarsCounted'
    BY DEF TypeOK, CarsCounted, WithValet, FlagFirst, OwnerKnows, Kinds
  <2>5. PlaceKept'
    BY DEF TypeOK, CarsFit, PlaceKept, Kinds
  <2>6. FlagFirst'
    BY DEF TypeOK, FlagFirst, Kinds
  <2>7. OwnerKnows'
    BY DEF TypeOK, OwnerKnows, PlaceKept, CarsFit, FlagFirst, Kinds
  <2> QED
    BY <2>1, <2>2, <2>3, <2>4, <2>5, <2>6, <2>7
<1>6. CASE OwnerPosts("end_auto", "auto", "end_pickup")
  <2> USE <1>6 DEF OwnerPosts, sem_post
  <2>1. TypeOK'
    BY DEF TypeOK, Kinds, OwnerPoints, ValetPoints, HandlerPoints
  <2>2. CarsFit'
    BY DEF TypeOK, CarsFit, NoPhantomCar, PlaceKept, Kinds
  <2>3. NoPhantomCar'
    BY DEF TypeOK, CarsFit, NoPhantomCar, CarsCounted, WithValet, Kinds
  <2>4. CarsCounted'
    BY DEF TypeOK, CarsCounted, WithValet, FlagFirst, OwnerKnows, Kinds
  <2>5. PlaceKept'
    BY DEF TypeOK, CarsFit, PlaceKept, Kinds
  <2>6. FlagFirst'
    BY DEF TypeOK, FlagFirst, Kinds
  <2>7. OwnerKnows'
    BY DEF TypeOK, OwnerKnows, PlaceKept, CarsFit, FlagFirst, Kinds
  <2> QED
    BY <2>1, <2>2, <2>3, <2>4, <2>5, <2>6, <2>7
<1>7. CASE OwnerPosts("end_pickup", "pickup", "returned")
  <2> USE <1>7 DEF OwnerPosts, sem_post
  <2>1. TypeOK'
    BY DEF TypeOK, Kinds, OwnerPoints, ValetPoints, HandlerPoints
  <2>2. CarsFit'
    BY DEF TypeOK, CarsFit, NoPhantomCar, PlaceKept, Kinds
  <2>3. NoPhantomCar'
    BY DEF TypeOK, CarsFit, NoPhantomCar, CarsCounted, WithValet, Kinds
  <2>4. CarsCounted'
    BY DEF TypeOK, CarsCounted, WithValet, FlagFirst, OwnerKnows, Kinds
  <2>5. PlaceKept'
    BY DEF TypeOK, CarsFit, PlaceKept, Kinds
  <2>6. FlagFirst'
    BY DEF TypeOK, FlagFirst, Kinds
  <2>7. OwnerKnows'
    BY DEF TypeOK, OwnerKnows, PlaceKept, CarsFit, FlagFirst, Kinds
  <2> QED
    BY <2>1, <2>2, <2>3, <2>4, <2>5, <2>6, <2>7
<1>8. CASE \E k \in Kinds : WaitNew(k)
  <2>0. PICK k \in Kinds : WaitNew(k)
    BY <1>8
  <2> USE <2>0 DEF WaitNew, ValetAt, ValetGoes
  <2>1. TypeOK'
    BY DEF TypeOK, Kinds, OwnerPoints, ValetPoints, HandlerPoints
  <2>2. CarsFit'
    BY DEF TypeOK, CarsFit, NoPhantomCar, PlaceKept, Kinds
  <2>3. NoPhantomCar'
    BY DEF TypeOK, CarsFit, NoPhantomCar, CarsCounted, WithValet, Kinds
  <2>4. CarsCounted'
    BY DEF TypeOK, CarsCounted, WithValet, FlagFirst, OwnerKnows, Kinds
  <2>5. PlaceKept'
    BY DEF TypeOK, CarsFit, PlaceKept, Kinds
  <2>6. FlagFirst'
    BY DEF TypeOK, FlagFirst, Kinds
  <2>7. OwnerKnows'
    BY DEF TypeOK, OwnerKnows, PlaceKept, CarsFit, FlagFirst, Kinds
  <2> QED
    BY <2>1, <2>2, <2>3, <2>4, <2>5, <2>6, <2>7
<1>9. CASE \E k \in Kinds : WaitCharge(k)
  <2>0. PICK k \in Kinds : WaitCharge(k)
    BY <1>9
  <2> USE <2>0 DEF WaitCharge, ValetAt, ValetGoes
  <2>1. TypeOK'
    BY DEF TypeOK, Kinds, OwnerPoints, ValetPoints, HandlerPoints
  <2>2. CarsFit'
    BY DEF TypeOK, CarsFit, NoPhantomCar, PlaceKept, Kinds
  <2>3. NoPhantomCar'
    BY DEF TypeOK, CarsFit, NoPhantomCar, CarsCounted, WithValet, Kinds
  <2>4. CarsCounted'
    BY DEF TypeOK, CarsCounted, WithValet, FlagFirst, OwnerKnows, Kinds
  <2>5. PlaceKept'
    BY DEF TypeOK, CarsFit, PlaceKept, Kinds
  <2>6. FlagFirst'
    BY DEF TypeOK, FlagFirst, Kinds
  <2>7. OwnerKnows'
    BY DEF TypeOK, OwnerKnows, PlaceKept, CarsFit, FlagFirst, Kinds
  <2> QED
    BY <2>1, <2>2, <2>3, <2>4, <2>5, <2>6, <2>7
<1>10. CASE \E k \in Kinds : TestEnd(k)
  <2>0. PICK k \in Kinds : TestEnd(k)
    BY <1>10
  <2> USE <2>0 DEF TestEnd, ValetAt, ValetGoes, sem_post
  <2>1. TypeOK'
    BY DEF TypeOK, Kinds, OwnerPoints, ValetPoints, HandlerPoints
  <2>2. CarsFit'
    BY DEF TypeOK, CarsFit, NoPhantomCar, PlaceKept, Kinds
  <2>3. NoPhantomCar'
    BY DEF TypeOK, CarsFit, NoPhantomCar, CarsCounted, WithValet, Kinds
  <2>4. CarsCounted'
    BY DEF TypeOK, CarsCounted, WithValet, FlagFirst, OwnerKnows, Kinds
  <2>5. PlaceKept'
    BY DEF TypeOK, CarsFit, PlaceKept, Kinds
  <2>6. FlagFirst'
    BY DEF TypeOK, FlagFirst, Kinds
  <2>7. OwnerKnows'
    BY DEF TypeOK, OwnerKnows, PlaceKept, CarsFit, FlagFirst, Kinds
  <2> QED
    BY <2>1, <2>2, <2>3, <2>4, <2>5, <2>6, <2>7
<1>11. CASE \E k \in Kinds : Park(k)
  <2>0. PICK k \in Kinds : Park(k)
    BY <1>11
  <2> USE <2>0 DEF Park, ValetAt, ValetGoes, sem_post
  <2>1. TypeOK'
    BY DEF TypeOK, Kinds, OwnerPoints, ValetPoints, HandlerPoints
  <2>2. CarsFit'
    BY DEF TypeOK, CarsFit, NoPhantomCar, PlaceKept, Kinds
  <2>3. NoPhantomCar'
    BY DEF TypeOK, CarsFit, NoPhantomCar, CarsCounted, WithValet, Kinds
  <2>4. CarsCounted'
    BY DEF TypeOK, CarsCounted, WithValet, FlagFirst, OwnerKnows, Kinds
  <2>5. PlaceKept'
    BY DEF TypeOK, CarsFit, PlaceKept, Kinds
  <2>6. FlagFirst'
    BY DEF TypeOK, FlagFirst, Kinds
  <2>7. OwnerKnows'
    BY DEF TypeOK, OwnerKnows, PlaceKept, CarsFit, FlagFirst, Kinds
  <2> QED
    BY <2>1, <2>2, <2>3, <2>4, <2>5, <2>6, <2>7
<1>12. CASE \E k \in Kinds : LeaveTemp(k)
  <2>0. PICK k \in Kinds : LeaveTemp(k)
    BY <1>12
  <2> USE <2>0 DEF LeaveTemp, ValetAt, ValetGoes
  <2>1. TypeOK'
    BY DEF TypeOK, Kinds, OwnerPoints, ValetPoints, HandlerPoints
  <2>2. CarsFit'
    BY DEF TypeOK, CarsFit, NoPhantomCar, PlaceKept, Kinds
  <2>3. NoPhantomCar'
    BY DEF TypeOK, CarsFit, NoPhantomCar, CarsCounted, WithValet, Kinds
  <2>4. CarsCounted'
    BY DEF TypeOK, CarsCounted, WithValet, FlagFirst, OwnerKnows, Kinds
  <2>5. PlaceKept'
    BY DEF TypeOK, CarsFit, PlaceKept, Kinds
  <2>6. FlagFirst'
    BY DEF TypeOK, FlagFirst, Kinds
  <2>7. OwnerKnows'
    BY DEF TypeOK, OwnerKnows, PlaceKept, CarsFit, FlagFirst, Kinds
  <2> QED
    BY <2>1, <2>2, <2>3, <2>4, <2>5, <2>6, <2>7
<1>13. CASE \E k \in Kinds : TakePlace(k)
  <2>0. PICK k \in Kinds : TakePlace(k)
    BY <1>13
  <2> USE <2>0 DEF TakePlace, ValetAt, ValetGoes
  <2>1. TypeOK'
    <3>1. mFree' \in [Kinds -> Int] /\ valet' \in [Kinds -> ValetPoints]
      BY DEF TypeOK, ValetPoints
    <3>2. mutexHeld' \in BOOLEAN
      OBVIOUS
    <3> QED
      BY <3>1, <3>2 DEF TypeOK
  <2>2. CarsFit'
    BY DEF TypeOK, CarsFit, NoPhantomCar, PlaceKept, Kinds
  <2>3. NoPhantomCar'
    BY DEF TypeOK, CarsFit, NoPhantomCar, CarsCounted, WithValet, Kinds
  <2>4. CarsCounted'
    BY DEF TypeOK, CarsCounted, WithValet, FlagFirst, OwnerKnows, Kinds
  <2>5. PlaceKept'
    BY DEF TypeOK, CarsFit, PlaceKept, Kinds
  <2>6. FlagFirst'
    BY DEF TypeOK, FlagFirst, Kinds
  <2>7. OwnerKnows'
    BY DEF TypeOK, OwnerKnows, PlaceKept, CarsFit, FlagFirst, Kinds
  <2> QED
    BY <2>1, <2>2, <2>3, <2>4, <2>5, <2>6, <2>7
<1>14. CASE SignalComes
  <2> USE <1>14 DEF SignalComes
  <2>1. TypeOK'
    BY DEF TypeOK, Kinds, OwnerPoints, ValetPoints, HandlerPoints
  <2>2. CarsFit'
    BY DEF TypeOK, CarsFit, NoPhantomCar, PlaceKept, Kinds
  <2>3. NoPhantomCar'
    BY DEF TypeOK, CarsFit, NoPhantomCar, CarsCounted, WithValet, Kinds
  <2>4. CarsCounted'
    BY DEF TypeOK, CarsCounted, WithValet, FlagFirst, OwnerKnows, Kinds
  <2>5. PlaceKept'
    BY DEF TypeOK, CarsFit, PlaceKept, Kinds
  <2>6. FlagFirst'
    BY DEF TypeOK, FlagFirst, Kinds
  <2>7. OwnerKnows'
    BY DEF TypeOK, OwnerKnows, PlaceKept, CarsFit, FlagFirst, Kinds
  <2> QED
    BY <2>1, <2>2, <2>3, <2>4, <2>5, <2>6, <2>7
<1>15. CASE HandlerFlag
  <2> USE <1>15 DEF HandlerFlag
  <2>1. TypeOK'
    BY DEF TypeOK, Kinds, OwnerPoints, ValetPoints, HandlerPoints
  <2>2. CarsFit'
    BY DEF TypeOK, CarsFit, NoPhantomCar, PlaceKept, Kinds
  <2>3. NoPhantomCar'
    BY DEF TypeOK, CarsFit, NoPhantomCar, CarsCounted, WithValet, Kinds
  <2>4. CarsCounted'
    BY DEF TypeOK, CarsCounted, WithValet, FlagFirst, OwnerKnows, Kinds
  <2>5. PlaceKept'
    BY DEF TypeOK, CarsFit, PlaceKept, Kinds
  <2>6. FlagFirst'
    BY DEF TypeOK, FlagFirst, Kinds
  <2>7. OwnerKnows'
    BY DEF TypeOK, OwnerKnows, PlaceKept, CarsFit, FlagFirst, Kinds
  <2> QED
    BY <2>1, <2>2, <2>3, <2>4, <2>5, <2>6, <2>7
<1>16. CASE HandlerPostsNew("auto", "pickup")
  <2> USE <1>16 DEF HandlerPostsNew, sem_post
  <2>1. TypeOK'
    BY DEF TypeOK, Kinds, OwnerPoints, ValetPoints, HandlerPoints
  <2>2. CarsFit'
    BY DEF TypeOK, CarsFit, NoPhantomCar, PlaceKept, Kinds
  <2>3. NoPhantomCar'
    BY DEF TypeOK, CarsFit, NoPhantomCar, CarsCounted, WithValet, Kinds
  <2>4. CarsCounted'
    BY DEF TypeOK, CarsCounted, WithValet, FlagFirst, OwnerKnows, Kinds
  <2>5. PlaceKept'
    BY DEF TypeOK, CarsFit, PlaceKept, Kinds
  <2>6. FlagFirst'
    BY DEF TypeOK, FlagFirst, Kinds
  <2>7. OwnerKnows'
    BY DEF TypeOK, OwnerKnows, PlaceKept, CarsFit, FlagFirst, Kinds
  <2> QED
    BY <2>1, <2>2, <2>3, <2>4, <2>5, <2>6, <2>7
<1>17. CASE HandlerPostsNew("pickup", "charge_auto")
  <2> USE <1>17 DEF HandlerPostsNew, sem_post
  <2>1. TypeOK'
    BY DEF TypeOK, Kinds, OwnerPoints, ValetPoints, HandlerPoints
  <2>2. CarsFit'
    BY DEF TypeOK, CarsFit, NoPhantomCar, PlaceKept, Kinds
  <2>3. NoPhantomCar'
    BY DEF TypeOK, CarsFit, NoPhantomCar, CarsCounted, WithValet, Kinds
  <2>4. CarsCounted'
    BY DEF TypeOK, CarsCounted, WithValet, FlagFirst, OwnerKnows, Kinds
  <2>5. PlaceKept'
    BY DEF TypeOK, CarsFit, PlaceKept, Kinds
  <2>6. FlagFirst'
    BY DEF TypeOK, FlagFirst, Kinds
  <2>7. OwnerKnows'
    BY DEF TypeOK, OwnerKnows, PlaceKept, CarsFit, FlagFirst, Kinds
  <2> QED
    BY <2>1, <2>2, <2>3, <2>4, <2>5, <2>6, <2>7
<1>18. CASE HandlerPostsCharge("charge_auto", "auto", "charge_pickup")
  <2> USE <1>18 DEF HandlerPostsCharge, sem_post
  <2>1. TypeOK'
    BY DEF TypeOK, Kinds, OwnerPoints, ValetPoints, HandlerPoints
  <2>2. CarsFit'
    BY DEF TypeOK, CarsFit, NoPhantomCar, PlaceKept, Kinds
  <2>3. NoPhantomCar'
    BY DEF TypeOK, CarsFit, NoPhantomCar, CarsCounted, WithValet, Kinds
  <2>4. CarsCounted'
    BY DEF TypeOK, CarsCounted, WithValet, FlagFirst, OwnerKnows, Kinds
  <2>5. PlaceKept'
    BY DEF TypeOK, CarsFit, PlaceKept, Kinds
  <2>6. FlagFirst'
    BY DEF TypeOK, FlagFirst, Kinds
  <2>7. OwnerKnows'
    BY DEF TypeOK, OwnerKnows, PlaceKept, CarsFit, FlagFirst, Kinds
  <2> QED
    BY <2>1, <2>2, <2>3, <2>4, <2>5, <2>6, <2>7
<1>19. CASE HandlerReturns
  <2> USE <1>19 DEF HandlerReturns, ValetGoes, sem_post
  <2>1. TypeOK'
    BY DEF TypeOK, Kinds, OwnerPoints, ValetPoints, HandlerPoints
  <2>2. CarsFit'
    BY DEF TypeOK, CarsFit, NoPhantomCar, PlaceKept, Kinds
  <2>3. NoPhantomCar'
    BY DEF TypeOK, CarsFit, NoPhantomCar, CarsCounted, WithValet, Kinds
  <2>4. CarsCounted'
    BY DEF TypeOK, CarsCounted, WithValet, FlagFirst, OwnerKnows, Kinds
  <2>5. PlaceKept'
    BY DEF TypeOK, CarsFit, PlaceKept, Kinds
  <2>6. FlagFirst'
    BY DEF TypeOK, FlagFirst, Kinds
  <2>7. OwnerKnows'
    BY DEF TypeOK, OwnerKnows, PlaceKept, CarsFit, FlagFirst, Kinds
  <2> QED
    BY <2>1, <2>2, <2>3, <2>4, <2>5, <2>6, <2>7
<1>20. CASE MainEnds
  <2> USE <1>20 DEF MainEnds
  <2>1. TypeOK'
    BY DEF TypeOK, Kinds, OwnerPoints, ValetPoints, HandlerPoints
  <2>2. CarsFit'
    BY DEF TypeOK, CarsFit, NoPhantomCar, PlaceKept, Kinds
  <2>3. NoPhantomCar'
    BY DEF TypeOK, CarsFit, NoPhantomCar, CarsCounted, WithValet, Kinds
  <2>4. CarsCounted'
    BY DEF TypeOK, CarsCounted, WithValet, FlagFirst, OwnerKnows, Kinds
  <2>5. PlaceKept'
    BY DEF TypeOK, CarsFit, PlaceKept, Kinds
  <2>6. FlagFirst'
    BY DEF TypeOK, FlagFirst, Kinds
  <2>7. OwnerKnows'
    BY DEF TypeOK, OwnerKnows, PlaceKept, CarsFit, FlagFirst, Kinds
  <2> QED
    BY <2>1, <2>2, <2>3, <2>4, <2>5, <2>6, <2>7
<1>21. CASE UNCHANGED vars
  <2> USE <1>21 DEF vars
  <2>1. TypeOK'
    BY DEF TypeOK, Kinds, OwnerPoints, ValetPoints, HandlerPoints
  <2>2. CarsFit'
    BY DEF TypeOK, CarsFit, NoPhantomCar, PlaceKept, Kinds
  <2>3. NoPhantomCar'
    BY DEF TypeOK, CarsFit, NoPhantomCar, CarsCounted, WithValet, Kinds
  <2>4. CarsCounted'
    BY DEF TypeOK, CarsCounted, WithValet, FlagFirst, OwnerKnows, Kinds
  <2>5. PlaceKept'
    BY DEF TypeOK, CarsFit, PlaceKept, Kinds
  <2>6. FlagFirst'
    BY DEF TypeOK, FlagFirst, Kinds
  <2>7. OwnerKnows'
    BY DEF TypeOK, OwnerKnows, PlaceKept, CarsFit, FlagFirst, Kinds
  <2> QED
    BY <2>1, <2>2, <2>3, <2>4, <2>5, <2>6, <2>7
<1> QED
  BY <1>1, <1>2, <1>3, <1>4, <1>5, <1>6, <1>7, <1>8, <1>9, <1>10, <1>11, <1>12, <1>13, <1>14, <1>15, <1>16, <1>17, <1>18, <1>19, <1>20, <1>21
     DEF Next, carOwner, carAttendant, signal_handler

(* The invariant holds whatever the lots' sizes and the signals.           *)
THEOREM LotInvariant == Spec => []LotInv
<1> QED
  BY InitInv, NextKeeps, PTL DEF Spec

(* Every car let into the temporary lot has a place in the permanent one,  *)
(* and no counter leaves its range.                                        *)
THEOREM CarsAlwaysFit == Spec => []CarsFit
<1>1. LotInv => CarsFit
  BY DEF LotInv
<1> QED
  BY <1>1, LotInvariant, PTL

(* A post that only ends the simulation is never taken for a car.          *)
THEOREM NoPhantomCars == Spec => []NoPhantomCar
<1>1. LotInv => NoPhantomCar
  BY DEF LotInv
<1> QED
  BY <1>1, LotInvariant, PTL

(* When the owner ends the simulation no car is left waiting, although it  *)
(* reads the two counters without the mutex.                               *)
THEOREM FullMeansParked == Spec => []AllParkedWhenFull
<1>1. LotInv => AllParkedWhenFull
  <2> SUFFICES ASSUME LotInv, owner \in {"end", "end_auto", "end_pickup"}, NEW k \in Kinds
               PROVE  mFree[k] = 0 /\ mFree_temp[k] = Max[k]
    BY DEF AllParkedWhenFull
  <2>1. mFree[k] = 0
    BY DEF LotInv, OwnerKnows, Kinds
  <2>2. Max[k] \in Nat /\ mFree_temp[k] \in 0..Max[k] /\ (Max[k] - mFree_temp[k]) + (Max[k] - mFree[k]) <= Max[k]
    BY MaxAssumption DEF LotInv, CarsFit
  <2> QED
    BY <2>1, <2>2
<1> QED
  BY <1>1, LotInvariant, PTL
=============================================================================
