----------------------------- MODULE ParkingLot -----------------------------
(***************************************************************************)
(* The parking lot simulation of HW3/src/main.c: the owner thread that     *)
(* lets cars into the temporary lot, one valet for each kind of car that   *)
(* moves them to the permanent lot, and the handler of SIGINT and SIGTSTP. *)
(*                                                                         *)
(* A section under parkingLotMutex is one step, except the valet's second  *)
(* one: its two assignments are apart, because the owner looks at the      *)
(* counters without the mutex.                                             *)
(***************************************************************************)
EXTENDS Integers

CONSTANTS
  Max,         \* MAX_AUTO_AMOUNT and MAX_PICKUP_AMOUNT
  MaxSignals   \* bound on the signals that come

Kinds == {"auto", "pickup"}

ASSUME MaxAssumption == Max \in [Kinds -> Nat \ {0}] /\ MaxSignals \in Nat

VARIABLES
  mFree_temp, mFree,   \* free spaces of each kind, temporary and permanent
  simulationEnd,
  newCar,              \* semaphores newAutomobile and newPickup
  inCharge,            \* semaphores inChargeforAutomobile and inChargeforPickup
  mutexHeld,           \* a valet is between its two assignments
  owner,               \* where carOwner is
  valet,               \* where the valet of each kind is
  ended,               \* main has joined the threads
  handler,             \* the next step of signal_handler, or "none"
  host,                \* the thread it runs on: "main", "owner" or a kind
  signals              \* signals so far

lotVars == <<mFree_temp, mFree>>
semVars == <<newCar, inCharge>>
handlerVars == <<handler, host, signals>>
vars == <<lotVars, simulationEnd, semVars, mutexHeld, owner, valet, ended, handlerVars>>

OwnerPoints == {"loop", "arrive", "check_auto", "check_pickup", "end", "end_auto", "end_pickup", "returned"}
ValetPoints == {"wait_new", "wait_charge", "test", "park", "lock", "locked", "returned"}
HandlerPoints == {"none", "flag", "auto", "pickup", "charge_auto", "charge_pickup"}

init ==
  /\ mFree_temp = Max /\ mFree = Max
  /\ simulationEnd = 0
  /\ newCar = [k \in Kinds |-> 0]
  /\ inCharge = [k \in Kinds |-> 1]
  /\ mutexHeld = FALSE
  /\ owner = "loop"
  /\ valet = [k \in Kinds |-> "wait_new"]
  /\ ended = FALSE
  /\ handler = "none" /\ host = "main" /\ signals = 0

sem_post(sem, k) == [sem EXCEPT ![k] = @ + 1]

(* A thread runs unless the handler runs on it.                            *)
Runs(t) == handler = "none" \/ host # t

-----------------------------------------------------------------------------
OwnerLoop ==
  /\ owner = "loop" /\ Runs("owner")
  /\ owner' = IF simulationEnd = 0 THEN "arrive" ELSE "returned"
  /\ UNCHANGED <<lotVars, simulationEnd, semVars, mutexHeld, valet, ended, handlerVars>>

(* Mutant: the cars already waiting are not counted.                       *)
ArriveNoSum(k) ==
  /\ owner = "arrive" /\ Runs("owner") /\ ~mutexHeld
  /\ IF mFree_temp[k] > 0 /\ mFree[k] > 0
     THEN /\ mFree_temp' = [mFree_temp EXCEPT ![k] = @ - 1]
          /\ newCar' = sem_post(newCar, k)
     ELSE UNCHANGED <<mFree_temp, newCar>>
  /\ owner' = "check_auto"
  /\ UNCHANGED <<mFree, simulationEnd, inCharge, mutexHeld, valet, ended, handlerVars>>

(* A car of kind k comes; it stays if the permanent lot has room for it    *)
(* and for every car of its kind that is already waiting.                  *)
Arrive(k) ==
  /\ owner = "arrive" /\ Runs("owner") /\ ~mutexHeld
  /\ IF mFree_temp[k] > 0 /\ mFree[k] > 0 /\ mFree[k] + mFree_temp[k] > Max[k]
     THEN /\ mFree_temp' = [mFree_temp EXCEPT ![k] = @ - 1]
          /\ newCar' = sem_post(newCar, k)
     ELSE UNCHANGED <<mFree_temp, newCar>>
  /\ owner' = "check_auto"
  /\ UNCHANGED <<mFree, simulationEnd, inCharge, mutexHeld, valet, ended, handlerVars>>

(* Mutant: the temporary lot is looked at in the place of the permanent.   *)
CheckFullTemp(at, k, next) ==
  /\ owner = at /\ Runs("owner")
  /\ owner' = IF mFree_temp[k] = 0 THEN next ELSE "loop"
  /\ UNCHANGED <<lotVars, simulationEnd, semVars, mutexHeld, valet, ended, handlerVars>>

(* Is the lot full?  Two reads, without the mutex.                         *)
CheckFull(at, k, next) ==
  /\ owner = at /\ Runs("owner")
  /\ owner' = IF mFree[k] = 0 THEN next ELSE "loop"
  /\ UNCHANGED <<lotVars, simulationEnd, semVars, mutexHeld, valet, ended, handlerVars>>

(* It is: the simulation ends, and the valets are told.                    *)
OwnerEnds ==
  /\ owner = "end" /\ Runs("owner") /\ ~mutexHeld
  /\ simulationEnd' = 1
  /\ owner' = "end_auto"
  /\ UNCHANGED <<lotVars, semVars, mutexHeld, valet, ended, handlerVars>>

(* Mutant: the valets are not told.                                        *)
OwnerPostsNone(at, k, next) ==
  /\ owner = at /\ Runs("owner")
  /\ owner' = next
  /\ UNCHANGED <<lotVars, simulationEnd, semVars, mutexHeld, valet, ended, handlerVars>>

OwnerPosts(at, k, next) ==
  /\ owner = at /\ Runs("owner")
  /\ newCar' = sem_post(newCar, k)
  /\ owner' = next
  /\ UNCHANGED <<lotVars, simulationEnd, inCharge, mutexHeld, valet, ended, handlerVars>>

carOwner ==
  \/ OwnerLoop
  \/ \E k \in Kinds : Arrive(k)
  \/ CheckFull("check_auto", "auto", "check_pickup")
  \/ CheckFull("check_pickup", "pickup", "end")
  \/ OwnerEnds
  \/ OwnerPosts("end_auto", "auto", "end_pickup")
  \/ OwnerPosts("end_pickup", "pickup", "returned")

-----------------------------------------------------------------------------
ValetAt(k, point) == valet[k] = point /\ Runs(k)
ValetGoes(k, point) == valet' = [valet EXCEPT ![k] = point]

WaitNew(k) ==
  /\ ValetAt(k, "wait_new") /\ newCar[k] > 0
  /\ newCar' = [newCar EXCEPT ![k] = @ - 1]
  /\ ValetGoes(k, "wait_charge")
  /\ UNCHANGED <<lotVars, simulationEnd, inCharge, mutexHeld, owner, ended, handlerVars>>

WaitCharge(k) ==
  /\ ValetAt(k, "wait_charge") /\ inCharge[k] > 0
  /\ inCharge' = [inCharge EXCEPT ![k] = @ - 1]
  /\ ValetGoes(k, "test")
  /\ UNCHANGED <<lotVars, simulationEnd, newCar, mutexHeld, owner, ended, handlerVars>>

TestEnd(k) ==
  /\ ValetAt(k, "test") /\ ~mutexHeld
  /\ \/ /\ simulationEnd = 1
        /\ inCharge' = sem_post(inCharge, k)
        /\ ValetGoes(k, "returned")
     \/ /\ simulationEnd = 0
        /\ ValetGoes(k, "park")
        /\ UNCHANGED inCharge
  /\ UNCHANGED <<lotVars, simulationEnd, newCar, mutexHeld, owner, ended, handlerVars>>

(* The car is driven over, and the valet free for the next one.            *)
Park(k) ==
  /\ ValetAt(k, "park")
  /\ inCharge' = sem_post(inCharge, k)
  /\ ValetGoes(k, "lock")
  /\ UNCHANGED <<lotVars, simulationEnd, newCar, mutexHeld, owner, ended, handlerVars>>

LeaveTemp(k) ==
  /\ ValetAt(k, "lock") /\ ~mutexHeld
  /\ mutexHeld' = TRUE
  /\ mFree_temp' = [mFree_temp EXCEPT ![k] = @ + 1]
  /\ ValetGoes(k, "locked")
  /\ UNCHANGED <<mFree, simulationEnd, semVars, owner, ended, handlerVars>>

TakePlace(k) ==
  /\ ValetAt(k, "locked")
  /\ mFree' = [mFree EXCEPT ![k] = @ - 1]
  /\ mutexHeld' = FALSE
  /\ ValetGoes(k, "wait_new")
  /\ UNCHANGED <<mFree_temp, simulationEnd, semVars, owner, ended, handlerVars>>

carAttendant(k) ==
  WaitNew(k) \/ WaitCharge(k) \/ TestEnd(k) \/ Park(k) \/ LeaveTemp(k) \/ TakePlace(k)

-----------------------------------------------------------------------------
(* A signal comes and its handler starts on one of the threads.            *)
SignalComes ==
  /\ handler = "none" /\ ~ended /\ signals < MaxSignals
  /\ signals' = signals + 1
  /\ host' \in {"main", "owner"} \cup Kinds
  /\ handler' = "flag"
  /\ UNCHANGED <<lotVars, simulationEnd, semVars, mutexHeld, owner, valet, ended>>

(* signal_handler: the flag first, then a post for everyone who may wait.  *)
HandlerFlag ==
  /\ handler = "flag"
  /\ simulationEnd' = 1
  /\ handler' = "auto"
  /\ UNCHANGED <<lotVars, semVars, mutexHeld, owner, valet, ended, host, signals>>

HandlerPostsNew(k, next) ==
  /\ handler = k
  /\ newCar' = sem_post(newCar, k)
  /\ handler' = next
  /\ UNCHANGED <<lotVars, simulationEnd, inCharge, mutexHeld, owner, valet, ended, host, signals>>

HandlerPostsCharge(at, k, next) ==
  /\ handler = at
  /\ inCharge' = sem_post(inCharge, k)
  /\ handler' = next
  /\ UNCHANGED <<lotVars, simulationEnd, newCar, mutexHeld, owner, valet, ended, host, signals>>

(* The last post, after which the handler returns.  A valet it interrupted *)
(* in sem_wait comes out of it without the permit (EINTR, not looked at).  *)
HandlerReturns ==
  /\ handler = "charge_pickup"
  /\ inCharge' = sem_post(inCharge, "pickup")
  /\ handler' = "none"
  /\ \/ UNCHANGED valet
     \/ /\ host \in Kinds
        /\ \/ valet[host] = "wait_new" /\ ValetGoes(host, "wait_charge")
           \/ valet[host] = "wait_charge" /\ ValetGoes(host, "test")
  /\ host' = "main"
  /\ UNCHANGED <<lotVars, simulationEnd, newCar, mutexHeld, owner, ended, signals>>

signal_handler ==
  \/ HandlerFlag
  \/ HandlerPostsNew("auto", "pickup")
  \/ HandlerPostsNew("pickup", "charge_auto")
  \/ HandlerPostsCharge("charge_auto", "auto", "charge_pickup")
  \/ HandlerReturns

(* main joins the three threads and cleans up.                             *)
MainEnds ==
  /\ Runs("main") /\ ~ended
  /\ owner = "returned" /\ \A k \in Kinds : valet[k] = "returned"
  /\ ended' = TRUE
  /\ UNCHANGED <<lotVars, simulationEnd, semVars, mutexHeld, owner, valet, handlerVars>>

Next ==
  \/ carOwner
  \/ \E k \in Kinds : carAttendant(k)
  \/ SignalComes \/ signal_handler
  \/ MainEnds
  \/ ended /\ UNCHANGED vars

Spec == init /\ [][Next]_vars

(***************************************************************************)
(* Every thread keeps running, and rand() % 2 does not bring one kind of   *)
(* car for ever.                                                           *)
(***************************************************************************)
FairSpec ==
  /\ Spec
  /\ WF_vars(carOwner)
  /\ \A k \in Kinds : WF_vars(carAttendant(k)) /\ SF_vars(Arrive(k))
  /\ WF_vars(signal_handler) /\ WF_vars(MainEnds)

-----------------------------------------------------------------------------
TypeOK ==
  /\ mFree_temp \in [Kinds -> Int] /\ mFree \in [Kinds -> Int]
  /\ simulationEnd \in {0, 1}
  /\ newCar \in [Kinds -> Nat] /\ inCharge \in [Kinds -> Nat]
  /\ mutexHeld \in BOOLEAN /\ ended \in BOOLEAN
  /\ owner \in OwnerPoints
  /\ valet \in [Kinds -> ValetPoints]
  /\ handler \in HandlerPoints
  /\ host \in {"main", "owner"} \cup Kinds
  /\ signals \in 0..MaxSignals

(***************************************************************************)
(* The report: "Cars in temp + cars in permanent cannot be bigger than max *)
(* automobile spots in permanent parking lot", so that every car let in    *)
(* can be parked; and no counter leaves its range.                         *)
(***************************************************************************)
CarsFit ==
  \A k \in Kinds :
    /\ mFree_temp[k] \in 0..Max[k] /\ mFree[k] \in 0..Max[k]
    /\ (Max[k] - mFree_temp[k]) + (Max[k] - mFree[k]) <= Max[k]

(***************************************************************************)
(* A valet who drives has a car: the posts that only end the simulation    *)
(* are never taken for a car, whichever thread the signal interrupts.      *)
(***************************************************************************)
NoPhantomCar ==
  \A k \in Kinds : valet[k] \in {"park", "lock"} => mFree_temp[k] < Max[k]

(***************************************************************************)
(* main.c 91: "parking lot is full and all cars are parked so simulation   *)
(* should be terminated".  When the owner finds both permanent lots full,  *)
(* by two reads at different times and without the mutex, no car is left   *)
(* in the temporary lot.                                                   *)
(***************************************************************************)
AllParkedWhenFull ==
  owner \in {"end", "end_auto", "end_pickup"} =>
    \A k \in Kinds : mFree[k] = 0 /\ mFree_temp[k] = Max[k]

(***************************************************************************)
(* The simulation ends: it fills the lot, or a signal ends it, and then no *)
(* thread stays behind in a sem_wait.                                      *)
(***************************************************************************)
Ends == <>ended

-----------------------------------------------------------------------------
(***************************************************************************)
(* The inductive invariant.  Until the end is announced every car in the   *)
(* temporary lot is a permit of newCar or with the valet; between its two  *)
(* assignments a valet, the only one there, has one place more than the    *)
(* cars need.                                                              *)
(***************************************************************************)
WithValet(k) == IF valet[k] \in {"wait_charge", "test", "park", "lock"} THEN 1 ELSE 0

CarsCounted ==
  simulationEnd = 0 =>
    \A k \in Kinds : Max[k] - mFree_temp[k] = newCar[k] + WithValet(k)

PlaceKept ==
  \A k \in Kinds : valet[k] = "locked" =>
    /\ mutexHeld /\ mFree[k] + mFree_temp[k] > Max[k]
    /\ \A j \in Kinds : valet[j] = "locked" => j = k

FlagFirst == handler \notin {"none", "flag"} => simulationEnd = 1

OwnerKnows ==
  /\ owner \in {"check_pickup", "end", "end_auto", "end_pickup"} => mFree["auto"] = 0
  /\ owner \in {"end", "end_auto", "end_pickup"} => mFree["pickup"] = 0
  /\ owner \in {"end_auto", "end_pickup"} => simulationEnd = 1

LotInv ==
  TypeOK /\ CarsFit /\ NoPhantomCar /\ CarsCounted /\ PlaceKept /\ FlagFirst /\ OwnerKnows
=============================================================================
