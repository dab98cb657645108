------------------------------- MODULE Turns -------------------------------
(***************************************************************************)
(* What a session promises: the client asks, the server's child carries    *)
(* the command out once, the client gets the answer and asks again.        *)
(***************************************************************************)
EXTENDS Naturals

VARIABLES
  asked,      \* commands the client has sent
  done,       \* commands the child has carried out
  answered    \* answers the client has read to their end

turnVars == <<asked, done, answered>>

TurnInit == asked = 0 /\ done = 0 /\ answered = 0

Ask == asked = answered /\ asked' = asked + 1 /\ UNCHANGED <<done, answered>>
CarryOut == done < asked /\ done' = done + 1 /\ UNCHANGED <<asked, answered>>
Answer == answered < done /\ answered' = answered + 1 /\ UNCHANGED <<asked, done>>

Turn == Ask \/ CarryOut \/ Answer
TurnSpec == TurnInit /\ [][Turn]_turnVars
=============================================================================
