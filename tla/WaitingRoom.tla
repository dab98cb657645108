---------------------------- MODULE WaitingRoom ----------------------------
(***************************************************************************)
(* What the server promises its clients: no more than Places are served at *)
(* a time, and those who wait are served in the order in which they came;  *)
(* nobody who comes later is served before them.                           *)
(***************************************************************************)
EXTENDS Naturals, Sequences, FiniteSets

CONSTANTS Guests, Places

VARIABLES
  waiting,    \* who waits, in the order of coming
  active      \* who has a place

roomVars == <<waiting, active>>

RoomInit == waiting = << >> /\ active = {}

Free == Cardinality(active) < Places
Present(c) == c \in active \/ \E k \in DOMAIN waiting : waiting[k] = c

Enter(c) ==
  /\ ~Present(c) /\ waiting = << >> /\ Free
  /\ active' = active \cup {c} /\ UNCHANGED waiting
Wait(c) ==
  /\ ~Present(c)
  /\ waiting' = Append(waiting, c) /\ UNCHANGED active
Admit ==
  /\ waiting # << >> /\ Free
  /\ active' = active \cup {Head(waiting)}
  /\ waiting' = Tail(waiting)
Leave(c) ==
  /\ c \in active
  /\ active' = active \ {c} /\ UNCHANGED waiting

RoomNext == Admit \/ \E c \in Guests : Enter(c) \/ Wait(c) \/ Leave(c)
RoomSpec == RoomInit /\ [][RoomNext]_roomVars
=============================================================================
