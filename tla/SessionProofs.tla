--------------------------- MODULE SessionProofs ---------------------------
(***************************************************************************)
(* The turns of a session, for any number of commands and any length of an *)
(* answer: the one FIFO that carries both is read by whom it is meant for. *)
(***************************************************************************)
EXTENDS Session, SequenceTheorems, TLAPS

(* Where the client and the child are, as long as no signal has been taken *)
(* and no descriptor has been leaked.  Nothing is asked, and the client    *)
(* may be leaving or gone:                                                 *)
Rest == asked = answered /\ done = answered
Idle ==
  /\ Rest /\ fifo.data = << >>
  /\ cpc \in {"top", "prompt", "open_w", "close_r", "gone"}
  /\ spc \in {"open_r", "read", "kill", "gone"}
  /\ spc \in {"kill", "gone"} => ~linked

(* the client opens the FIFO to send;                                      *)
Calling ==
  /\ Rest /\ fifo.data = << >> /\ linked
  /\ cpc = "write" /\ spc \in {"open_r", "read"}

(* the command is in the FIFO, or read and not yet carried out, or given   *)
(* up;                                                                     *)
Pending ==
  /\ asked = answered + 1 /\ done = answered
  /\ \/ cpc = "close_w" /\ linked
     \/ cpc \in {"open_r", "read"} /\ linked /\ typed # "quit"
     \/ cpc = "gone" /\ typed = "quit"
  /\ \/ spc = "read" /\ fifo.data = <<[no |-> asked, kind |-> typed]>>
     \/ spc = "close_r" /\ fifo.data = << >> /\ command.no = asked /\ command.kind = typed
     \/ spc \in {"gone", "stuck"} /\ fifo.data = << >> /\ typed = "long"

(* it is carried out and being answered;                                   *)
Told == asked = answered + 1 /\ done = asked
Answers == fifo.data \in Seq([no : {asked}, kind : {"answer"}])
Answering ==
  /\ Told /\ Answers /\ linked /\ typed # "quit" /\ command.no = asked
  /\ cpc \in {"close_w", "open_r", "read"} /\ spc \in {"open_w", "write"}

(* the answer is there, and the child listens for the next command or has  *)
(* ended after killServer;                                                 *)
Answered ==
  /\ Told /\ Answers
  /\ cpc = "read" /\ spc \in {"open_r", "read", "kill", "gone"}
  /\ spc \in {"kill", "gone"} => ~linked

(* the command was to quit.                                                *)
Quitting ==
  /\ Told /\ fifo.data = << >> /\ typed = "quit"
  /\ cpc \in {"close_w", "gone"} /\ spc = "gone"

(* Who has the FIFO open, and waits in his open, follows from where he is. *)
ClientWaits ==
  \/ cpc = "write" /\ spc = "open_r"
  \/ cpc = "read" /\ (done = answered \/ spc = "open_w")
ChildWaits ==
  \/ spc = "read" /\ done = asked /\ cpc # "write"
  \/ spc = "write" /\ cpc \in {"close_w", "open_r"}
Ends ==
  \A d :
    /\ d \in fifo.readers <=> \/ d = "client" /\ cpc \in {"read", "close_r"}
                              \/ d = "child" /\ spc \in {"read", "close_r"}
    /\ d \in fifo.writers <=> \/ d = "client" /\ cpc \in {"write", "close_w"}
                              \/ d = "child" /\ spc = "write"
    /\ d \in fifo.blocked <=> \/ d = "client" /\ ClientWaits
                              \/ d = "child" /\ ChildWaits

Calm == (Idle \/ Calling \/ Pending \/ Answering \/ Answered \/ Quitting) /\ Ends

(* After a descriptor has leaked the client reads for ever, and the child  *)
(* answers it, and what it reads of its own answers.                       *)
Leak ==
  /\ "leaked" \in fifo.writers /\ "client" \in fifo.readers \ fifo.blocked
  /\ fifo.data \in Seq([no : Nat, kind : {"answer"}])
  /\ command.no \in Nat /\ command.kind \in {"bareUpload", "short", "answer"}
  /\ cpc = "read" /\ spc \in {"open_r", "read", "close_r", "open_w", "write"} /\ linked

Messages ==
  [no : Nat, kind : {"none", "short", "long", "bareUpload", "killServer", "quit", "answer"}]

(* A FIFO is a FIFO, and who waits in an open has it open.                 *)
Pipe(f) ==
  /\ f = [readers |-> f.readers, writers |-> f.writers, blocked |-> f.blocked, data |-> f.data]
  /\ f.blocked \subseteq f.readers \cup f.writers

SessionTypeOK ==
  /\ Pipe(fifo) /\ fifo.data \in Seq(Messages)
  /\ asked \in Nat /\ done \in Nat /\ answered \in Nat
  /\ typed \in Kinds \cup {"none"} /\ command.no \in Nat

(***************************************************************************)
(* Until a signal is taken the two are in one of these places together.    *)
(***************************************************************************)
SessionInv ==
  sig # "taken" => hpc = "none" /\ SessionTypeOK /\ (Calm \/ Leak)

-----------------------------------------------------------------------------
(* What the calls make of a FIFO.                                          *)

LEMMA ReaderComes ==
  ASSUME NEW f, Pipe(f), NEW d, NEW g, g = OpenRead(f, d)
  PROVE  /\ Pipe(g) /\ g.data = f.data
         /\ g.readers = f.readers \cup {d} /\ g.writers = f.writers
         /\ g.blocked = (f.blocked \ f.writers) \cup {e \in {d} : f.writers = {}}
<1>1. /\ g.data = f.data
      /\ g.readers = f.readers \cup {d} /\ g.writers = f.writers
      /\ g.blocked = (f.blocked \ f.writers) \cup {e \in {d} : f.writers = {}}
      /\ g = [readers |-> g.readers, writers |-> g.writers, blocked |-> g.blocked, data |-> g.data]
  BY DEF Pipe, OpenRead
<1>2. g.blocked \subseteq g.readers \cup g.writers
  BY <1>1 DEF Pipe
<1> QED
  BY <1>1, <1>2 DEF Pipe

LEMMA WriterComes ==
  ASSUME NEW f, Pipe(f), NEW d, NEW g, g = OpenWrite(f, d)
  PROVE  /\ Pipe(g) /\ g.data = f.data
         /\ g.readers = f.readers /\ g.writers = f.writers \cup {d}
         /\ g.blocked = (f.blocked \ f.readers) \cup {e \in {d} : f.readers = {}}
<1>1. /\ g.data = f.data
      /\ g.readers = f.readers /\ g.writers = f.writers \cup {d}
      /\ g.blocked = (f.blocked \ f.readers) \cup {e \in {d} : f.readers = {}}
      /\ g = [readers |-> g.readers, writers |-> g.writers, blocked |-> g.blocked, data |-> g.data]
  BY DEF Pipe, OpenWrite
<1>2. g.blocked \subseteq g.readers \cup g.writers
  BY <1>1 DEF Pipe
<1> QED
  BY <1>1, <1>2 DEF Pipe

(* Data is lost with the last descriptor only.                             *)
LEMMA SomeClose ==
  ASSUME NEW f, Pipe(f), NEW D, NEW g, g = Closed(f, D)
  PROVE  /\ Pipe(g)
         /\ g.data = f.data \/ g.data = << >>
         /\ ~(f.readers \cup f.writers \subseteq D) => g.data = f.data
         /\ g.readers = f.readers \ D /\ g.writers = f.writers \ D
         /\ g.blocked = f.blocked \ D
<1>0. PICK h : h = [f EXCEPT !.readers = @ \ D, !.writers = @ \ D, !.blocked = @ \ D]
  OBVIOUS
<1>1. /\ h.data = f.data
      /\ h.readers = f.readers \ D /\ h.writers = f.writers \ D /\ h.blocked = f.blocked \ D
      /\ h = [readers |-> h.readers, writers |-> h.writers, blocked |-> h.blocked, data |-> h.data]
  <2> DEFINE R == f.readers
             W == f.writers
             B == f.blocked
             X == f.data
             P == R \ D
             Q == W \ D
             S == B \ D
  <2>1. f = [readers |-> R, writers |-> W, blocked |-> B, data |-> X]
    BY DEF Pipe
  <2>2. h = [f EXCEPT !.readers = P, !.writers = Q, !.blocked = S]
    BY <1>0, <2>1
  <2> HIDE DEF R, W, B, X, P, Q, S
  <2>3. h.readers = P /\ h.writers = Q /\ h.blocked = S /\ h.data = X
    BY <2>1, <2>2
  <2>4. h = [readers |-> h.readers, writers |-> h.writers, blocked |-> h.blocked, data |-> h.data]
    BY <2>1, <2>2
  <2> QED
    BY <2>3, <2>4 DEF R, W, B, X, P, Q, S
<1>2. Pipe(h)
  BY <1>1 DEF Pipe
<1>3. g = IF h.readers \cup h.writers = {} THEN EmptyFifo ELSE h
  BY <1>0 DEF Closed
<1>4. CASE h.readers \cup h.writers = {}
  <2>1. h.readers = {} /\ h.writers = {} /\ h.blocked = {}
    BY <1>2, <1>4 DEF Pipe
  <2>2. /\ g.readers = {} /\ g.writers = {} /\ g.blocked = {} /\ g.data = << >>
        /\ g = [readers |-> {}, writers |-> {}, blocked |-> {}, data |-> << >>]
    BY <1>3, <1>4 DEF EmptyFifo
  <2>3. f.readers \cup f.writers \subseteq D
    BY <1>1, <2>1
  <2> QED
    BY <1>1, <2>1, <2>2, <2>3 DEF Pipe
<1>5. CASE h.readers \cup h.writers # {}
  BY <1>1, <1>2, <1>3, <1>5
<1> QED
  BY <1>4, <1>5

LEMMA Refilled ==
  ASSUME NEW f, Pipe(f), NEW x, NEW g, g = [f EXCEPT !.data = x]
  PROVE  /\ Pipe(g) /\ g.data = x
         /\ g.readers = f.readers /\ g.writers = f.writers /\ g.blocked = f.blocked
BY DEF Pipe

LEMMA WriteAdds ==
  ASSUME NEW f, Pipe(f), NEW x, NEW g, g = Written(f, x)
  PROVE  /\ Pipe(g) /\ g.data = Append(f.data, x)
         /\ g.readers = f.readers /\ g.writers = f.writers /\ g.blocked = f.blocked
<1> DEFINE y == Append(f.data, x)
<1>1. g = [f EXCEPT !.data = y]
  BY DEF Written
<1> HIDE DEF y
<1>2. Pipe(g) /\ g.data = y /\ g.readers = f.readers /\ g.writers = f.writers /\ g.blocked = f.blocked
  BY <1>1, Refilled
<1> QED
  BY <1>2 DEF y

LEMMA ReadTakes ==
  ASSUME NEW f, Pipe(f), NEW g, g = Drained(f)
  PROVE  /\ Pipe(g) /\ g.data = << >>
         /\ g.readers = f.readers /\ g.writers = f.writers /\ g.blocked = f.blocked
BY Refilled DEF Drained

-----------------------------------------------------------------------------
(* The invariant holds at the beginning; a signal that is taken ends it.   *)

LEMMA SessionBegins == SessionInit => SessionInv
<1> SUFFICES ASSUME SessionInit PROVE SessionInv
  OBVIOUS
<1>1. /\ fifo = [readers |-> {}, writers |-> {}, blocked |-> {}, data |-> << >>]
      /\ fifo.readers = {} /\ fifo.writers = {} /\ fifo.blocked = {} /\ fifo.data = << >>
  BY DEF SessionInit, EmptyFifo
<1>2. SessionTypeOK
  BY <1>1 DEF SessionInit, SessionTypeOK, Pipe
<1>3. Idle /\ Ends
  BY <1>1 DEF SessionInit, Idle, Rest, Ends, ClientWaits, ChildWaits
<1> QED
  BY <1>2, <1>3 DEF SessionInit, SessionInv, Calm

LEMMA TakenForGood == sig = "taken" /\ [SessionNext]_sessionVars => sig' = "taken"
<1> SUFFICES ASSUME sig = "taken", [SessionNext]_sessionVars PROVE sig' = "taken"
  OBVIOUS
<1>1. ~SignalComes /\ ~TakeSignal
  BY DEF SignalComes, TakeSignal
<1>2. CASE MainStep
  BY <1>2 DEF MainStep, CheckServer, EndOfInput, Type, OpenToSend, Send, Sent, OpenToReceive, Receive,
       Received, Fails, ClientOpens, ClientEnds, ClientGoes, clientVars
<1>3. CASE HandlerStep
  BY <1>1, <1>3 DEF HandlerStep, HandlerStat, HandlerOpen, HandlerWrite, HandlerClose, HandlerUnlink,
       HandlerGoes, ClientEnds
<1>4. CASE ChildStep
  BY <1>4 DEF ChildStep, OpenCommand, ReadCommand, Dispatch, GiveUp, OpenAnswer, WriteAnswer,
       CloseAnswer, KillServer, ChildOpens, UnchangedClient, clientVars
<1>5. CASE ServerEnds \/ UNCHANGED sessionVars
  BY <1>5 DEF ServerEnds, sessionVars, clientVars
<1> QED
  BY <1>1, <1>2, <1>3, <1>4, <1>5 DEF SessionNext

(* Only its own handler, which does not run, could interfere with a calm   *)
(* session.                                                                *)
LEMMA NoHandler ==
  ASSUME hpc = "none", HandlerStep
  PROVE  sig' = "taken"
BY DEF HandlerStep, TakeSignal, HandlerStat, HandlerOpen, HandlerWrite, HandlerClose, HandlerUnlink

-----------------------------------------------------------------------------
(* The client's main, in a calm session.                                   *)

Together == hpc = "none" /\ SessionTypeOK

(* A client that is at nothing leaves, and the child stays where it is.    *)
LEMMA IdleLeaves ==
  ASSUME Together, Idle, Ends, NEW u, ClientEnds(u), UNCHANGED <<childVars, turns>>
  PROVE  Together' /\ Calm'
<1> USE DEF Together
<1>1. /\ Pipe(fifo') /\ fifo'.data = << >>
      /\ fifo'.readers = fifo.readers \ {"client", "handler"}
      /\ fifo'.writers = fifo.writers \ {"client", "handler"}
      /\ fifo'.blocked = fifo.blocked \ {"client", "handler"}
  BY SomeClose DEF ClientEnds, Idle, SessionTypeOK
<1>2. /\ cpc' = "gone" /\ hpc' = "none" /\ linked' = (linked /\ ~u)
      /\ UNCHANGED <<typed, spc, command, asked, done, answered>>
  BY DEF ClientEnds, childVars, turns
<1>3. SessionTypeOK'
  BY <1>1, <1>2 DEF SessionTypeOK
<1>4. Idle'
  BY <1>1, <1>2 DEF Idle, Rest
<1>5. Ends'
  BY <1>1, <1>2 DEF Ends, Idle, Rest, ClientWaits, ChildWaits
<1> QED
  BY <1>2, <1>3, <1>4, <1>5 DEF Calm

LEMMA AtTop ==
  ASSUME Together, Calm, CheckServer
  PROVE  Together' /\ Calm' /\ UNCHANGED turns
<1> USE DEF Together
<1>0. /\ cpc = "top" /\ Idle /\ Ends /\ UNCHANGED <<spc, command, asked, done, answered>>
  BY DEF CheckServer, Main, Calm, Idle, Calling, Pending, Answering, Answered, Quitting, childVars, turns
<1>1. CASE ClientEnds(TRUE)
  BY <1>0, <1>1, IdleLeaves DEF CheckServer
<1>2. CASE cpc' = "prompt" /\ UNCHANGED <<fifo, linked, hpc, typed>>
  <2>1. SessionTypeOK' /\ Idle'
    BY <1>0, <1>2 DEF SessionTypeOK, Idle, Rest
  <2>2. Ends'
    BY <1>0, <1>2 DEF Ends, ClientWaits, ChildWaits
  <2> QED
    BY <1>2, <2>1, <2>2 DEF CheckServer, Calm
<1> QED
  BY <1>1, <1>2 DEF CheckServer, ClientGoes

LEMMA AtPromptTypes ==
  ASSUME Together, Calm, NEW k \in Kinds, Type(k)
  PROVE  Together' /\ Calm' /\ UNCHANGED turns
<1> USE DEF Together
<1>0. /\ cpc = "prompt" /\ Idle /\ Ends /\ UNCHANGED <<spc, command, asked, done, answered>>
  BY DEF Type, Main, Calm, Idle, Calling, Pending, Answering, Answered, Quitting, childVars, turns
<1>1. CASE ClientEnds(TRUE)
  BY <1>0, <1>1, IdleLeaves DEF Type
<1>2. CASE cpc' = "open_w" /\ typed' = k /\ UNCHANGED <<fifo, linked, hpc>>
  <2>1. SessionTypeOK' /\ Idle'
    BY <1>0, <1>2 DEF SessionTypeOK, Idle, Rest
  <2>2. Ends'
    BY <1>0, <1>2 DEF Ends, ClientWaits, ChildWaits
  <2> QED
    BY <1>2, <2>1, <2>2 DEF Type, Calm
<1> QED
  BY <1>1, <1>2 DEF Type

LEMMA AtPromptStops ==
  ASSUME Together, Calm, EndOfInput
  PROVE  Together' /\ Calm' /\ UNCHANGED turns
<1>0. Idle /\ Ends
  BY DEF EndOfInput, Main, Calm, Idle, Calling, Pending, Answering, Answered, Quitting
<1> QED
  BY <1>0, IdleLeaves DEF EndOfInput

LEMMA ClientCalls ==
  ASSUME Together, Calm, OpenToSend
  PROVE  Together' /\ Calm' /\ UNCHANGED turns
<1> USE DEF Together
<1>0. /\ cpc = "open_w" /\ Idle /\ Ends /\ UNCHANGED <<spc, command, asked, done, answered>>
  BY DEF OpenToSend, ClientOpens, Main, Calm, Idle, Calling, Pending, Answering, Answered, Quitting, childVars, turns
<1>1. CASE ClientEnds(TRUE)
  BY <1>0, <1>1, IdleLeaves DEF OpenToSend, ClientOpens
<1>2. CASE /\ linked /\ cpc' = "write" /\ UNCHANGED <<hpc, typed, linked>>
           /\ fifo' = OpenWrite(fifo, "client")
  <2>1. /\ Pipe(fifo') /\ fifo'.data = fifo.data
        /\ fifo'.readers = fifo.readers /\ fifo'.writers = fifo.writers \cup {"client"}
        /\ fifo'.blocked = (fifo.blocked \ fifo.readers) \cup {e \in {"client"} : fifo.readers = {}}
    BY <1>2, WriterComes DEF SessionTypeOK
  <2>2. SessionTypeOK'
    BY <1>0, <1>2, <2>1 DEF SessionTypeOK
  <2>3. Calling'
    BY <1>0, <1>2, <2>1 DEF Idle, Calling, Rest
  <2>4. fifo.readers = {} <=> spc = "open_r"
    <3>1. \A d : d \in fifo.readers <=> d = "child" /\ spc = "read"
      BY <1>0 DEF Ends, Idle
    <3> QED
      BY <1>0, <1>2, <3>1 DEF Idle
  <2>5. Ends'
    BY <1>0, <1>2, <2>1, <2>4 DEF Ends, Idle, Rest, ClientWaits, ChildWaits
  <2> QED
    BY <1>2, <2>2, <2>3, <2>5 DEF OpenToSend, ClientOpens, Calm
<1> QED
  BY <1>1, <1>2 DEF OpenToSend, ClientOpens, ClientGoes

LEMMA ClientSends ==
  ASSUME Together, Calm, Send
  PROVE  Together' /\ Calm' /\ T!Turn
<1> USE DEF Together
<1>0. /\ cpc = "write" /\ Calling /\ Ends /\ "client" \notin fifo.blocked
      /\ UNCHANGED <<spc, command, done, answered>>
  BY DEF Send, Main, Blocked, Calm, Idle, Calling, Pending, Answering, Answered, Quitting, childVars, turns
<1>1. spc = "read" /\ "child" \in fifo.readers
  BY <1>0 DEF Calling, Ends, ClientWaits
<1>2. /\ asked' = asked + 1 /\ cpc' = "close_w" /\ UNCHANGED <<hpc, typed, linked>>
      /\ fifo' = Written(fifo, [no |-> asked + 1, kind |-> typed])
  BY <1>1 DEF Send, Broken, ClientGoes
<1>3. /\ Pipe(fifo') /\ fifo'.data = Append(fifo.data, [no |-> asked + 1, kind |-> typed])
      /\ fifo'.readers = fifo.readers /\ fifo'.writers = fifo.writers /\ fifo'.blocked = fifo.blocked
  BY <1>2, WriteAdds DEF SessionTypeOK
<1>4. fifo'.data = <<[no |-> asked', kind |-> typed']>>
  BY <1>0, <1>2, <1>3 DEF Calling
<1>5. SessionTypeOK'
  <2>1. [no |-> asked', kind |-> typed'] \in Messages
    BY <1>2, SessionAssumption DEF SessionTypeOK, SessionAssumption, Messages
  <2>2. fifo'.data \in Seq(Messages)
    BY <1>4, <2>1
  <2> QED
    BY <1>0, <1>2, <1>3, <2>2 DEF SessionTypeOK
<1>6. Pending'
  BY <1>0, <1>1, <1>2, <1>4 DEF Calling, Rest, Pending, SessionTypeOK
<1>7. Ends'
  BY <1>0, <1>1, <1>2, <1>3 DEF Ends, Calling, Rest, ClientWaits, ChildWaits, SessionTypeOK
<1>8. T!Turn
  BY <1>0, <1>2 DEF Calling, Rest, T!Turn, T!Ask
<1> QED
  BY <1>2, <1>5, <1>6, <1>7, <1>8 DEF Calm

LEMMA ClientHasSent ==
  ASSUME Together, Calm, Sent
  PROVE  Together' /\ Calm' /\ UNCHANGED turns
<1> USE DEF Together
<1>0. /\ cpc = "close_w" /\ (Pending \/ Answering \/ Quitting) /\ Ends
      /\ UNCHANGED <<spc, command, asked, done, answered>>
  BY DEF Sent, Main, Calm, Idle, Calling, Pending, Answering, Answered, Quitting, childVars, turns
<1>1. CASE typed = "quit"
  <2>1. ClientEnds(TRUE) /\ (Pending \/ Quitting)
    BY <1>0, <1>1 DEF Sent, Answering
  <2>2. /\ Pipe(fifo') /\ (fifo'.data = fifo.data \/ fifo'.data = << >>)
        /\ ~(fifo.readers \cup fifo.writers \subseteq {"client", "handler"}) => fifo'.data = fifo.data
        /\ fifo'.readers = fifo.readers \ {"client", "handler"}
        /\ fifo'.writers = fifo.writers \ {"client", "handler"}
        /\ fifo'.blocked = fifo.blocked \ {"client", "handler"}
    BY <2>1, SomeClose DEF ClientEnds, SessionTypeOK
  <2>3. cpc' = "gone" /\ hpc' = "none" /\ UNCHANGED typed
    BY <2>1 DEF ClientEnds
  <2>4. SessionTypeOK'
    <3>1. fifo'.data \in Seq(Messages)
      BY <2>2, EmptySeq DEF SessionTypeOK
    <3> QED
      BY <1>0, <2>2, <2>3, <3>1 DEF SessionTypeOK
  <2>5. CASE Pending
    <3>1. "child" \in fifo.readers
      BY <1>0, <1>1, <2>5 DEF Pending, Ends
    <3>2. fifo'.data = fifo.data
      BY <2>2, <3>1
    <3>3. Pending'
      BY <1>0, <1>1, <2>3, <2>5, <3>2 DEF Pending
    <3>4. Ends'
      BY <1>0, <2>2, <2>3, <2>5 DEF Ends, Pending, ClientWaits, ChildWaits, SessionTypeOK
    <3> QED
      BY <2>3, <2>4, <3>3, <3>4, <1>0 DEF Calm, turns
  <2>6. CASE Quitting
    <3>1. Quitting'
      BY <1>0, <2>2, <2>3, <2>6 DEF Quitting, Told
    <3>2. Ends'
      BY <1>0, <2>2, <2>3, <2>6 DEF Ends, Quitting, ClientWaits, ChildWaits
    <3> QED
      BY <2>3, <2>4, <3>1, <3>2, <1>0 DEF Calm, turns
  <2> QED
    BY <2>1, <2>5, <2>6
<1>2. CASE typed # "quit"
  <2>1. /\ fifo' = Closed(fifo, {"client"}) /\ cpc' = "open_r" /\ UNCHANGED <<hpc, typed, linked>>
        /\ Pending \/ Answering
    BY <1>0, <1>2 DEF Sent, CloseClient, ClientGoes, Quitting
  <2>2. /\ Pipe(fifo') /\ (fifo'.data = fifo.data \/ fifo'.data = << >>)
        /\ ~(fifo.readers \cup fifo.writers \subseteq {"client"}) => fifo'.data = fifo.data
        /\ fifo'.readers = fifo.readers \ {"client"}
        /\ fifo'.writers = fifo.writers \ {"client"}
        /\ fifo'.blocked = fifo.blocked \ {"client"}
    BY <2>1, SomeClose DEF SessionTypeOK
  <2>3. SessionTypeOK'
    <3>1. fifo'.data \in Seq(Messages)
      BY <2>2, EmptySeq DEF SessionTypeOK
    <3> QED
      BY <1>0, <2>1, <2>2, <3>1 DEF SessionTypeOK
  <2>4. CASE Pending
    <3>1. "child" \in fifo.readers \/ fifo.data = << >>
      BY <1>0, <2>4 DEF Pending, Ends
    <3>2. fifo'.data = fifo.data
      BY <2>2, <3>1
    <3>3. Pending'
      BY <1>0, <1>2, <2>1, <2>4, <3>2 DEF Pending
    <3>4. Ends'
      BY <1>0, <2>1, <2>2, <2>4 DEF Ends, Pending, ClientWaits, ChildWaits, SessionTypeOK
    <3> QED
      BY <2>1, <2>3, <3>3, <3>4, <1>0 DEF Calm, turns
  <2>5. CASE Answering
    <3>0. fifo'.data \in Seq([no : {asked}, kind : {"answer"}])
      BY <2>2, <2>5, EmptySeq DEF Answering, Answers
    <3>1. Answering'
      BY <1>0, <2>1, <2>5, <3>0 DEF Answering, Answers, Told
    <3>2. Ends'
      BY <1>0, <2>1, <2>2, <2>5 DEF Ends, Answering, Told, ClientWaits, ChildWaits, SessionTypeOK
    <3> QED
      BY <2>1, <2>3, <3>1, <3>2, <1>0 DEF Calm, turns
  <2> QED
    BY <2>1, <2>4, <2>5
<1> QED
  BY <1>1, <1>2

LEMMA ClientListens ==
  ASSUME Together, Calm, OpenToReceive
  PROVE  Together' /\ Calm' /\ UNCHANGED turns
<1> USE DEF Together
<1>0. /\ cpc = "open_r" /\ linked /\ (Pending \/ Answering) /\ Ends
      /\ UNCHANGED <<spc, command, asked, done, answered>>
  BY DEF OpenToReceive, ClientOpens, Main, Calm, Idle, Calling, Pending, Answering, Answered, Quitting,
         childVars, turns
<1>1. cpc' = "read" /\ UNCHANGED <<hpc, typed, linked>> /\ fifo' = OpenRead(fifo, "client")
  BY <1>0 DEF OpenToReceive, ClientOpens, ClientGoes
<1>2. /\ Pipe(fifo') /\ fifo'.data = fifo.data
      /\ fifo'.readers = fifo.readers \cup {"client"} /\ fifo'.writers = fifo.writers
      /\ fifo'.blocked = (fifo.blocked \ fifo.writers) \cup {e \in {"client"} : fifo.writers = {}}
  BY <1>1, ReaderComes DEF SessionTypeOK
<1>3. SessionTypeOK'
  BY <1>0, <1>1, <1>2 DEF SessionTypeOK
<1>4. Pending' \/ Answering'
  BY <1>0, <1>1, <1>2 DEF Pending, Answering, Answers, Told
<1>5. fifo.writers = {} <=> spc # "write"
  <2>1. \A d : d \in fifo.writers <=> d = "child" /\ spc = "write"
    BY <1>0 DEF Ends
  <2> QED
    BY <2>1
<1>6. Ends'
  <2>1. CASE Pending
    BY <1>0, <1>1, <1>2, <1>5, <2>1 DEF Ends, Pending, ClientWaits, ChildWaits, SessionTypeOK
  <2>2. CASE Answering
    BY <1>0, <1>1, <1>2, <1>5, <2>2 DEF Ends, Answering, Told, ClientWaits, ChildWaits, SessionTypeOK
  <2> QED
    BY <1>0, <2>1, <2>2
<1> QED
  BY <1>0, <1>1, <1>3, <1>4, <1>6 DEF Calm, turns

(* The end of the answer is read when the child has closed.                *)
LEMMA ClientReceives ==
  ASSUME Together, Calm, Receive
  PROVE  Together' /\ Calm' /\ (T!Turn \/ UNCHANGED turns)
<1> USE DEF Together
<1>0. /\ cpc = "read" /\ (Pending \/ Answering \/ Answered) /\ Ends
      /\ "client" \notin fifo.blocked /\ (fifo.data # << >> \/ fifo.writers = {})
      /\ fifo' = Drained(fifo)
      /\ UNCHANGED <<linked, spc, command, asked, done>>
  BY DEF Receive, Main, Blocked, Readable, Calm, Idle, Calling, Pending, Answering, Answered, Quitting, childVars
<1>1. ~Pending /\ (Answering => spc = "write" /\ "child" \in fifo.writers)
  BY <1>0 DEF Ends, ClientWaits, Pending, Answering
<1>2. /\ Pipe(fifo') /\ fifo'.data = << >>
      /\ fifo'.readers = fifo.readers /\ fifo'.writers = fifo.writers /\ fifo'.blocked = fifo.blocked
  BY <1>0, ReadTakes DEF SessionTypeOK
<1>3. CASE fifo.data = << >>
  <2>1. Answered
    BY <1>0, <1>1, <1>3
  <2>2. cpc' = "close_r" /\ answered' = answered + 1 /\ UNCHANGED <<hpc, typed>>
    BY <1>3 DEF Receive, ClientGoes
  <2>3. SessionTypeOK'
    BY <1>0, <1>2, <2>2 DEF SessionTypeOK
  <2>4. Idle'
    BY <1>0, <1>2, <2>1, <2>2 DEF Answered, Told, Idle, Rest, SessionTypeOK
  <2>5. Ends'
    BY <1>0, <1>2, <2>1, <2>2 DEF Ends, Answered, Told, ClientWaits, ChildWaits, SessionTypeOK
  <2>6. T!Turn
    BY <1>0, <2>1, <2>2 DEF Answered, Told, T!Turn, T!Answer, SessionTypeOK
  <2> QED
    BY <2>2, <2>3, <2>4, <2>5, <2>6 DEF Calm
<1>4. CASE fifo.data # << >>
  <2>1. UNCHANGED <<cpc, hpc, typed, answered>>
    BY <1>4 DEF Receive, clientVars
  <2>2. SessionTypeOK'
    BY <1>0, <1>2, <2>1 DEF SessionTypeOK
  <2>3. Answering' \/ Answered'
    BY <1>0, <1>1, <1>2, <2>1 DEF Answering, Answered, Answers, Told
  <2>4. Ends'
    BY <1>0, <1>2, <2>1 DEF Ends, ClientWaits, ChildWaits
  <2> QED
    BY <1>0, <2>1, <2>2, <2>3, <2>4 DEF Calm, turns
<1> QED
  BY <1>3, <1>4

LEMMA ClientHasReceived ==
  ASSUME Together, Calm, Received
  PROVE  Together' /\ Calm' /\ UNCHANGED turns
<1> USE DEF Together
<1>0. /\ cpc = "close_r" /\ Idle /\ Ends
      /\ UNCHANGED <<linked, spc, command, asked, done, answered>>
      /\ fifo' = Closed(fifo, {"client"}) /\ cpc' = "top" /\ UNCHANGED <<hpc, typed>>
  BY DEF Received, Main, CloseClient, ClientGoes, Calm, Idle, Calling, Pending, Answering, Answered,
         Quitting, childVars, turns
<1>1. /\ Pipe(fifo') /\ fifo'.data = << >>
      /\ fifo'.readers = fifo.readers \ {"client"}
      /\ fifo'.writers = fifo.writers \ {"client"}
      /\ fifo'.blocked = fifo.blocked \ {"client"}
  BY <1>0, SomeClose DEF Idle, SessionTypeOK
<1>2. SessionTypeOK' /\ Idle'
  BY <1>0, <1>1 DEF SessionTypeOK, Idle, Rest
<1>3. Ends'
  BY <1>0, <1>1 DEF Ends, Idle, Rest, ClientWaits, ChildWaits
<1> QED
  BY <1>0, <1>2, <1>3 DEF Calm, turns

LEMMA CalmMain ==
  ASSUME Together, Calm, MainStep
  PROVE  Together' /\ Calm' /\ (T!Turn \/ UNCHANGED turns)
<1>1. ~Fails
  BY DEF Fails, Main, Calm, Idle, Calling, Pending, Answering, Answered, Quitting
<1> QED
  BY <1>1, AtTop, AtPromptTypes, AtPromptStops, ClientCalls, ClientSends, ClientHasSent, ClientListens,
     ClientReceives, ClientHasReceived
  DEF MainStep

-----------------------------------------------------------------------------
(* The child, in a calm session.                                           *)

ClientStill == UNCHANGED <<cpc, hpc, typed, asked, answered>>

LEMMA ChildListens ==
  ASSUME Together, Calm, OpenCommand
  PROVE  Together' /\ Calm' /\ UNCHANGED turns
<1> USE DEF Together
<1>0. /\ spc = "open_r" /\ (Idle \/ Calling \/ Answered) /\ Ends
      /\ ClientStill /\ UNCHANGED <<linked, done, command>>
  BY DEF OpenCommand, ChildOpens, ChildGoes, ChildEnds, UnchangedClient, clientVars, ClientStill,
         Calm, Idle, Calling, Pending, Answering, Answered, Quitting
<1>1. CASE linked
  <2>1. spc' = "read" /\ fifo' = OpenRead(fifo, "child")
    BY <1>1 DEF OpenCommand, ChildOpens, ChildGoes
  <2>2. /\ Pipe(fifo') /\ fifo'.data = fifo.data
        /\ fifo'.readers = fifo.readers \cup {"child"} /\ fifo'.writers = fifo.writers
        /\ fifo'.blocked = (fifo.blocked \ fifo.writers) \cup {e \in {"child"} : fifo.writers = {}}
    BY <2>1, ReaderComes DEF SessionTypeOK
  <2>3. SessionTypeOK'
    BY <1>0, <2>2 DEF SessionTypeOK, ClientStill
  <2>4. Idle' \/ Calling' \/ Answered'
    BY <1>0, <1>1, <2>1, <2>2 DEF ClientStill, Idle, Rest, Calling, Answered, Answers, Told
  <2>5. fifo.writers = {} <=> cpc \notin {"write", "close_w"}
    <3>1. \A d : d \in fifo.writers <=> d = "client" /\ cpc \in {"write", "close_w"}
      BY <1>0 DEF Ends
    <3> QED
      BY <3>1
  <2>6. Ends'
    BY <1>0, <2>1, <2>2, <2>5
    DEF ClientStill, Ends, Idle, Calling, Rest, Answered, Told, ClientWaits, ChildWaits, SessionTypeOK
  <2> QED
    BY <1>0, <2>3, <2>4, <2>6 DEF Calm, turns, ClientStill
<1>2. CASE ~linked
  <2>1. spc' = "gone" /\ fifo' = Closed(fifo, {"child", "leaked"}) /\ (Idle \/ Answered)
    BY <1>0, <1>2 DEF OpenCommand, ChildOpens, ChildEnds, Calling
  <2>2. /\ Pipe(fifo') /\ (fifo'.data = fifo.data \/ fifo'.data = << >>)
        /\ fifo'.readers = fifo.readers \ {"child", "leaked"}
        /\ fifo'.writers = fifo.writers \ {"child", "leaked"}
        /\ fifo'.blocked = fifo.blocked \ {"child", "leaked"}
    BY <2>1, SomeClose DEF SessionTypeOK
  <2>3. SessionTypeOK'
    <3>1. fifo'.data \in Seq(Messages)
      BY <2>2, EmptySeq DEF SessionTypeOK
    <3> QED
      BY <1>0, <2>2, <3>1 DEF SessionTypeOK, ClientStill
  <2>4. CASE Idle
    <3>1. Idle'
      BY <1>0, <1>2, <2>1, <2>2, <2>4 DEF ClientStill, Idle, Rest
    <3>2. Ends'
      BY <1>0, <2>1, <2>2, <2>4 DEF ClientStill, Ends, Idle, Rest, ClientWaits, ChildWaits
    <3> QED
      BY <1>0, <2>3, <3>1, <3>2 DEF Calm, turns, ClientStill
  <2>5. CASE Answered
    <3>1. fifo'.data \in Seq([no : {asked}, kind : {"answer"}])
      BY <2>2, <2>5, EmptySeq DEF Answered, Answers
    <3>2. Answered'
      BY <1>0, <1>2, <2>1, <2>5, <3>1 DEF ClientStill, Answered, Answers, Told
    <3>3. Ends'
      BY <1>0, <2>1, <2>2, <2>5
      DEF ClientStill, Ends, Answered, Told, ClientWaits, ChildWaits, SessionTypeOK
    <3> QED
      BY <1>0, <2>3, <3>2, <3>3 DEF Calm, turns, ClientStill
  <2> QED
    BY <2>1, <2>4, <2>5
<1> QED
  BY <1>1, <1>2

(* There is something to read only when it is a command.                   *)
LEMMA ChildReads ==
  ASSUME Together, Calm, ReadCommand
  PROVE  Together' /\ Calm' /\ UNCHANGED turns
<1> USE DEF Together
<1>0. /\ spc = "read" /\ spc' = "close_r" /\ Ends /\ "child" \notin fifo.blocked
      /\ (fifo.data # << >> \/ fifo.writers = {}) /\ fifo' = Drained(fifo)
      /\ command' = IF fifo.data = << >> THEN command ELSE Parsed(fifo.data[1])
      /\ ClientStill /\ UNCHANGED <<linked, done>>
  BY DEF ReadCommand, Blocked, Readable, UnchangedClient, clientVars, ClientStill, Calm
<1>1. Pending
  <2>1. ~ChildWaits
    BY <1>0 DEF Ends
  <2>2. ~Calling
    BY <1>0 DEF Ends, Calling
  <2> QED
    BY <1>0, <2>1, <2>2 DEF Calm, Idle, Rest, Answering, Answered, Told, Quitting, ChildWaits
<1>2. /\ Pipe(fifo') /\ fifo'.data = << >>
      /\ fifo'.readers = fifo.readers /\ fifo'.writers = fifo.writers /\ fifo'.blocked = fifo.blocked
  BY <1>0, ReadTakes DEF SessionTypeOK
<1>3. command'.no = asked /\ command'.kind = typed
  <2>1. fifo.data = <<[no |-> asked, kind |-> typed]>> /\ typed # "quit4"
    BY <1>0, <1>1, SessionAssumption DEF Pending, SessionTypeOK, SessionAssumption
  <2> QED
    BY <1>0, <2>1 DEF Parsed
<1>4. SessionTypeOK'
  BY <1>0, <1>2, <1>3 DEF SessionTypeOK, ClientStill
<1>5. Pending'
  BY <1>0, <1>1, <1>2, <1>3 DEF Pending, ClientStill
<1>6. Ends'
  BY <1>0, <1>1, <1>2 DEF ClientStill, Ends, Pending, ClientWaits, ChildWaits, SessionTypeOK
<1> QED
  BY <1>0, <1>4, <1>5, <1>6 DEF Calm, turns, ClientStill

LEMMA ChildGivesUp ==
  ASSUME Together, Calm, GiveUp
  PROVE  Together' /\ Calm' /\ UNCHANGED turns
<1> USE DEF Together
<1>0. /\ spc = "close_r" /\ command.kind = "long" /\ Pending /\ Ends
      /\ ClientStill /\ UNCHANGED <<linked, command, done>>
      /\ spc' \in {"gone", "stuck"}
      /\ \E D \in {{"child"}, {"child", "leaked"}} : fifo' = Closed(fifo, D)
  BY DEF GiveUp, ChildEnds, UnchangedClient, clientVars, ClientStill,
         Calm, Idle, Calling, Answering, Answered, Quitting
<1>1. PICK D \in {{"child"}, {"child", "leaked"}} : fifo' = Closed(fifo, D)
  BY <1>0
<1>2. /\ Pipe(fifo') /\ fifo'.data = << >>
      /\ fifo'.readers = fifo.readers \ D
      /\ fifo'.writers = fifo.writers \ D
      /\ fifo'.blocked = fifo.blocked \ D
  BY <1>0, <1>1, SomeClose DEF SessionTypeOK, Pending
<1>3. SessionTypeOK'
  BY <1>0, <1>2, EmptySeq DEF SessionTypeOK, ClientStill
<1>4. Pending'
  BY <1>0, <1>2 DEF Pending, ClientStill
<1>5. Ends'
  BY <1>0, <1>1, <1>2 DEF ClientStill, Ends, Pending, ClientWaits, ChildWaits, SessionTypeOK
<1> QED
  BY <1>0, <1>3, <1>4, <1>5 DEF Calm, turns, ClientStill

LEMMA ChildCarriesOut ==
  ASSUME Together, Calm, Dispatch
  PROVE  Together' /\ Calm' /\ T!Turn
<1> USE DEF Together
<1>0. /\ spc = "close_r" /\ Pending /\ Ends
      /\ ClientStill /\ UNCHANGED <<linked, command>>
  BY DEF Dispatch, ChildEnds, UnchangedClient, clientVars, ClientStill,
         Calm, Idle, Calling, Answering, Answered, Quitting
<1>1. done' = done + 1 /\ done' = asked /\ done < asked
  BY <1>0 DEF Dispatch, Counted, Pending, SessionTypeOK
<1>2. T!Turn
  BY <1>0, <1>1 DEF T!Turn, T!CarryOut, ClientStill
<1>3. CASE typed = "quit"
  <2>1. spc' = "gone" /\ fifo' = Closed(fifo, {"child", "leaked"})
    BY <1>0, <1>3 DEF Dispatch, ChildEnds, Pending
  <2>2. /\ Pipe(fifo') /\ fifo'.data = << >>
        /\ fifo'.readers = fifo.readers \ {"child", "leaked"}
        /\ fifo'.writers = fifo.writers \ {"child", "leaked"}
        /\ fifo'.blocked = fifo.blocked \ {"child", "leaked"}
    BY <1>0, <2>1, SomeClose DEF SessionTypeOK, Pending
  <2>3. SessionTypeOK'
    BY <1>0, <1>1, <2>2 DEF SessionTypeOK, ClientStill
  <2>4. Quitting'
    BY <1>0, <1>1, <1>3, <2>1, <2>2 DEF Pending, Quitting, Told, ClientStill
  <2>5. Ends'
    BY <1>0, <1>3, <2>1, <2>2 DEF ClientStill, Ends, Pending, ClientWaits, ChildWaits
  <2> QED
    BY <1>0, <1>2, <2>3, <2>4, <2>5 DEF Calm, ClientStill
<1>4. CASE typed # "quit"
  <2>1. spc' = "open_w" /\ fifo' = Closed(fifo, {"child"})
    BY <1>0, <1>4 DEF Dispatch, Pending
  <2>2. /\ Pipe(fifo') /\ fifo'.data = << >>
        /\ fifo'.readers = fifo.readers \ {"child"}
        /\ fifo'.writers = fifo.writers \ {"child"}
        /\ fifo'.blocked = fifo.blocked \ {"child"}
    BY <1>0, <2>1, SomeClose DEF SessionTypeOK, Pending
  <2>3. SessionTypeOK'
    BY <1>0, <1>1, <2>2 DEF SessionTypeOK, ClientStill
  <2>4. Answering'
    BY <1>0, <1>1, <1>4, <2>1, <2>2, EmptySeq DEF Pending, Answering, Answers, Told, ClientStill
  <2>5. Ends'
    BY <1>0, <1>1, <1>4, <2>1, <2>2 DEF ClientStill, Ends, Pending, ClientWaits, ChildWaits
  <2> QED
    BY <1>0, <1>2, <2>3, <2>4, <2>5 DEF Calm, ClientStill
<1> QED
  BY <1>3, <1>4

LEMMA ChildBeginsAnswer ==
  ASSUME Together, Calm, OpenAnswer
  PROVE  Together' /\ Calm' /\ UNCHANGED turns
<1> USE DEF Together
<1>0. /\ spc = "open_w" /\ Answering /\ Ends
      /\ ClientStill /\ UNCHANGED <<linked, done>>
  BY DEF OpenAnswer, ChildOpens, UnchangedClient, clientVars, ClientStill,
         Calm, Idle, Calling, Pending, Answering, Answered, Quitting
<1>1. spc' = "write" /\ fifo' = OpenWrite(fifo, "child") /\ UNCHANGED command
  BY <1>0 DEF OpenAnswer, ChildOpens, ChildGoes, Answering
<1>2. /\ Pipe(fifo') /\ fifo'.data = fifo.data
      /\ fifo'.readers = fifo.readers /\ fifo'.writers = fifo.writers \cup {"child"}
      /\ fifo'.blocked = (fifo.blocked \ fifo.readers) \cup {e \in {"child"} : fifo.readers = {}}
  BY <1>1, WriterComes DEF SessionTypeOK
<1>3. SessionTypeOK'
  BY <1>0, <1>1, <1>2 DEF SessionTypeOK, ClientStill
<1>4. Answering'
  BY <1>0, <1>1, <1>2 DEF Answering, Answers, Told, ClientStill
<1>5. fifo.readers = {} <=> cpc # "read"
  <2>1. \A d : d \in fifo.readers <=> d = "client" /\ cpc = "read"
    BY <1>0 DEF Ends, Answering
  <2> QED
    BY <2>1
<1>6. Ends'
  BY <1>0, <1>1, <1>2, <1>5
  DEF ClientStill, Ends, Answering, Told, ClientWaits, ChildWaits, SessionTypeOK
<1> QED
  BY <1>0, <1>3, <1>4, <1>6 DEF Calm, turns, ClientStill

LEMMA ChildWrites ==
  ASSUME Together, Calm, WriteAnswer
  PROVE  Together' /\ Calm' /\ UNCHANGED turns
<1> USE DEF Together
<1>0. /\ spc = "write" /\ Answering /\ Ends /\ "child" \notin fifo.blocked
      /\ ClientStill /\ UNCHANGED <<linked, done>>
  BY DEF WriteAnswer, Blocked, UnchangedClient, clientVars, ClientStill,
         Calm, Idle, Calling, Pending, Answering, Answered, Quitting
<1>1. "client" \in fifo.readers
  BY <1>0 DEF Ends, Answering, ChildWaits
<1> DEFINE m == [no |-> asked, kind |-> "answer"]
<1>2. UNCHANGED <<spc, command>> /\ fifo' = Written(fifo, m)
  BY <1>0, <1>1 DEF WriteAnswer, Broken, Answering
<1>3. /\ m \in Messages /\ m \in [no : {asked}, kind : {"answer"}]
  BY DEF Messages, SessionTypeOK
<1> HIDE DEF m
<1>4. /\ Pipe(fifo') /\ fifo'.data = Append(fifo.data, m)
      /\ fifo'.readers = fifo.readers /\ fifo'.writers = fifo.writers /\ fifo'.blocked = fifo.blocked
  BY <1>2, WriteAdds DEF SessionTypeOK
<1>5. fifo'.data \in Seq(Messages) /\ fifo'.data \in Seq([no : {asked}, kind : {"answer"}])
  BY <1>0, <1>3, <1>4, AppendProperties DEF SessionTypeOK, Answering, Answers
<1>6. SessionTypeOK'
  BY <1>0, <1>2, <1>4, <1>5 DEF SessionTypeOK, ClientStill
<1>7. Answering'
  BY <1>0, <1>2, <1>5 DEF Answering, Answers, Told, ClientStill
<1>8. Ends'
  BY <1>0, <1>2, <1>4 DEF ClientStill, Ends, ClientWaits, ChildWaits
<1> QED
  BY <1>0, <1>6, <1>7, <1>8 DEF Calm, turns, ClientStill

LEMMA ChildHasAnswered ==
  ASSUME Together, Calm, CloseAnswer
  PROVE  Together' /\ (Calm' \/ Leak') /\ UNCHANGED turns
<1> USE DEF Together
<1>0. /\ spc = "write" /\ Answering /\ Ends /\ "child" \notin fifo.blocked
      /\ ClientStill /\ UNCHANGED <<command, done>>
      /\ spc' = IF command.kind = "killServer" THEN "kill" ELSE "open_r"
      /\ linked' = (linked /\ command.kind # "killServer")
  BY DEF CloseAnswer, Blocked, ChildGoes, UnchangedClient, clientVars, ClientStill,
         Calm, Idle, Calling, Pending, Answering, Answered, Quitting
<1>1. cpc = "read" /\ "client" \in fifo.readers /\ "client" \notin fifo.blocked
  BY <1>0 DEF Ends, Answering, Told, ChildWaits, ClientWaits, SessionTypeOK
<1>2. CASE /\ command.kind \in {"bareUpload", "short"}
           /\ fifo' = [fifo EXCEPT !.writers = (@ \ {"child"}) \cup {"leaked"}]
  <2>1. fifo' = [fifo EXCEPT !.writers = (@ \ {"child"}) \cup {"leaked"}]
    BY <1>2
  <2>2. /\ fifo'.data = fifo.data /\ fifo'.readers = fifo.readers /\ fifo'.blocked = fifo.blocked
        /\ fifo'.writers = (fifo.writers \ {"child"}) \cup {"leaked"}
        /\ fifo' = [readers |-> fifo'.readers, writers |-> fifo'.writers,
                    blocked |-> fifo'.blocked, data |-> fifo'.data]
    BY <2>1 DEF SessionTypeOK, Pipe
  <2>3. Pipe(fifo')
    <3>1. \A d : d \notin fifo.blocked
      BY <1>0, <1>1 DEF Ends
    <3> QED
      BY <2>2, <3>1 DEF Pipe
  <2>4. SessionTypeOK'
    BY <1>0, <2>2, <2>3 DEF SessionTypeOK, ClientStill
  <2>5. fifo.data \in Seq([no : Nat, kind : {"answer"}])
    <3> DEFINE S == [no : {asked}, kind : {"answer"}]
               R == [no : Nat, kind : {"answer"}]
               data == fifo.data
    <3>1. S \subseteq R
      BY DEF SessionTypeOK
    <3>2. data \in Seq(S)
      BY <1>0 DEF Answering, Answers
    <3> HIDE DEF S, R, data
    <3>3. data \in Seq(R)
      BY <3>1, <3>2, SeqMonotonic
    <3> QED
      BY <3>3 DEF R, data
  <2>6. Leak'
    BY <1>0, <1>1, <1>2, <2>2, <2>5 DEF Leak, Answering, ClientStill, SessionTypeOK
  <2> QED
    BY <1>0, <2>4, <2>6 DEF turns, ClientStill
<1>3. CASE fifo' = Closed(fifo, {"child"})
  <2>1. fifo' = Closed(fifo, {"child"})
    BY <1>3
  <2>2. /\ Pipe(fifo') /\ fifo'.data = fifo.data
        /\ fifo'.readers = fifo.readers \ {"child"}
        /\ fifo'.writers = fifo.writers \ {"child"}
        /\ fifo'.blocked = fifo.blocked \ {"child"}
    BY <1>1, <2>1, SomeClose DEF SessionTypeOK
  <2>3. SessionTypeOK'
    BY <1>0, <2>2 DEF SessionTypeOK, ClientStill
  <2>4. Answered'
    BY <1>0, <1>1, <2>2 DEF Answering, Answered, Answers, Told, ClientStill
  <2>5. Ends'
    BY <1>0, <1>1, <2>2 DEF ClientStill, Ends, Answering, Told, ClientWaits, ChildWaits, SessionTypeOK
  <2> QED
    BY <1>0, <2>3, <2>4, <2>5 DEF Calm, turns, ClientStill
<1> QED
  BY <1>2, <1>3 DEF CloseAnswer

LEMMA ChildKills ==
  ASSUME Together, Calm, KillServer
  PROVE  Together' /\ Calm' /\ UNCHANGED turns
<1> USE DEF Together
<1>0. /\ spc = "kill" /\ spc' = "open_r" /\ (Idle \/ Answered) /\ Ends
      /\ ClientStill /\ UNCHANGED <<linked, fifo, command, done>>
  BY DEF KillServer, ChildGoes, clientVars, turns, ClientStill,
         Calm, Idle, Calling, Pending, Answering, Answered, Quitting
<1>1. SessionTypeOK' /\ (Idle' \/ Answered')
  BY <1>0 DEF SessionTypeOK, ClientStill, Idle, Rest, Answered, Answers, Told
<1>2. Ends'
  BY <1>0 DEF ClientStill, Ends, Idle, Rest, Answered, Told, ClientWaits, ChildWaits, SessionTypeOK
<1> QED
  BY <1>0, <1>1, <1>2 DEF Calm, turns, ClientStill

LEMMA CalmChild ==
  ASSUME Together, Calm, ChildStep
  PROVE  Together' /\ (Calm' \/ Leak') /\ (T!Turn \/ UNCHANGED turns)
BY ChildListens, ChildReads, ChildGivesUp, ChildCarriesOut, ChildBeginsAnswer, ChildWrites, ChildHasAnswered, ChildKills
DEF ChildStep

-----------------------------------------------------------------------------
(* A leak is for good.                                                     *)

LEMMA LeakMain ==
  ASSUME Together, Leak, MainStep
  PROVE  Together' /\ Leak'
<1> USE DEF Together
<1>0. Receive
  BY DEF MainStep, CheckServer, EndOfInput, Type, OpenToSend, Send, Sent, OpenToReceive, Received, Fails,
         ClientOpens, Main, Leak
<1>1. fifo' = Drained(fifo) /\ fifo.data # << >>
  BY <1>0 DEF Receive, Readable, Leak
<1>2. UNCHANGED <<cpc, hpc, typed, linked, spc, command, asked, done, answered>>
  BY <1>0, <1>1 DEF Receive, clientVars, childVars
<1>3. /\ Pipe(fifo') /\ fifo'.data = << >>
      /\ fifo'.readers = fifo.readers /\ fifo'.writers = fifo.writers /\ fifo'.blocked = fifo.blocked
  BY <1>1, ReadTakes DEF SessionTypeOK
<1> QED
  BY <1>2, <1>3, EmptySeq DEF SessionTypeOK, Leak

LEMMA LeakChild ==
  ASSUME Together, Leak, ChildStep
  PROVE  Together' /\ Leak'
<1> USE DEF Together
<1>0. ~KillServer /\ ~GiveUp /\ ClientStill
  BY DEF ChildStep, OpenCommand, ReadCommand, Dispatch, GiveUp, OpenAnswer, WriteAnswer, CloseAnswer, KillServer,
         ChildOpens, UnchangedClient, clientVars, ClientStill, Leak
<1>1. CASE OpenCommand
  <2>1. /\ fifo' = OpenRead(fifo, "child") /\ spc' = "read" /\ UNCHANGED <<command, linked, done>>
    BY <1>1 DEF OpenCommand, ChildOpens, ChildGoes, Leak
  <2>2. /\ Pipe(fifo') /\ fifo'.data = fifo.data
        /\ fifo'.readers = fifo.readers \cup {"child"} /\ fifo'.writers = fifo.writers
        /\ fifo'.blocked = (fifo.blocked \ fifo.writers) \cup {e \in {"child"} : fifo.writers = {}}
    BY <2>1, ReaderComes DEF SessionTypeOK
  <2> QED
    BY <1>0, <2>1, <2>2 DEF SessionTypeOK, Leak, ClientStill
<1>2. CASE ReadCommand
  <2>1. /\ fifo' = Drained(fifo) /\ spc' = "close_r" /\ UNCHANGED <<linked, done>>
        /\ fifo.data # << >> /\ command' = Parsed(fifo.data[1])
    BY <1>2 DEF ReadCommand, Readable, Leak
  <2>2. fifo.data[1] \in [no : Nat, kind : {"answer"}]
    <3> DEFINE S == [no : Nat, kind : {"answer"}]
               data == fifo.data
    <3>1. data \in Seq(S) /\ data # << >>
      BY <2>1 DEF Leak
    <3> HIDE DEF S, data
    <3>2. Head(data) \in S /\ Head(data) = data[1]
      BY <3>1, HeadTailProperties
    <3> QED
      BY <3>2 DEF S, data
  <2>3. command'.no \in Nat /\ command'.kind = "answer"
    BY <2>1, <2>2 DEF Parsed
  <2>4. /\ Pipe(fifo') /\ fifo'.data = << >>
        /\ fifo'.readers = fifo.readers /\ fifo'.writers = fifo.writers /\ fifo'.blocked = fifo.blocked
    BY <2>1, ReadTakes DEF SessionTypeOK
  <2> QED
    BY <1>0, <2>1, <2>3, <2>4, EmptySeq DEF SessionTypeOK, Leak, ClientStill
<1>3. CASE Dispatch
  <2>1. /\ fifo' = Closed(fifo, {"child"}) /\ spc' = "open_w" /\ UNCHANGED <<command, linked>>
        /\ done' \in Nat
    BY <1>3 DEF Dispatch, Leak, Counted, SessionTypeOK
  <2>2. /\ Pipe(fifo') /\ fifo'.data = fifo.data
        /\ fifo'.readers = fifo.readers \ {"child"}
        /\ fifo'.writers = fifo.writers \ {"child"}
        /\ fifo'.blocked = fifo.blocked \ {"child"}
    BY <2>1, SomeClose DEF SessionTypeOK, Leak
  <2> QED
    BY <1>0, <2>1, <2>2 DEF SessionTypeOK, Leak, ClientStill
<1>4. CASE OpenAnswer
  <2>1. /\ fifo' = OpenWrite(fifo, "child") /\ spc' = "write" /\ UNCHANGED <<command, linked, done>>
    BY <1>4 DEF OpenAnswer, ChildOpens, ChildGoes, Leak
  <2>2. /\ Pipe(fifo') /\ fifo'.data = fifo.data
        /\ fifo'.readers = fifo.readers /\ fifo'.writers = fifo.writers \cup {"child"}
        /\ fifo'.blocked = (fifo.blocked \ fifo.readers) \cup {e \in {"child"} : fifo.readers = {}}
    BY <2>1, WriterComes DEF SessionTypeOK
  <2> QED
    BY <1>0, <2>1, <2>2 DEF SessionTypeOK, Leak, ClientStill
<1>5. CASE WriteAnswer
  <2> DEFINE m == [no |-> command.no, kind |-> "answer"]
  <2>1. fifo' = Written(fifo, m) /\ UNCHANGED <<spc, command, linked, done>>
    BY <1>5 DEF WriteAnswer, Broken, Leak
  <2>2. m \in Messages /\ m \in [no : Nat, kind : {"answer"}]
    BY DEF Messages, SessionTypeOK
  <2> HIDE DEF m
  <2>3. /\ Pipe(fifo') /\ fifo'.data = Append(fifo.data, m)
        /\ fifo'.readers = fifo.readers /\ fifo'.writers = fifo.writers /\ fifo'.blocked = fifo.blocked
    BY <2>1, WriteAdds DEF SessionTypeOK
  <2>4. fifo'.data \in Seq(Messages) /\ fifo'.data \in Seq([no : Nat, kind : {"answer"}])
    BY <2>2, <2>3, AppendProperties DEF SessionTypeOK, Leak
  <2> QED
    BY <1>0, <2>1, <2>3, <2>4 DEF SessionTypeOK, Leak, ClientStill
<1>6. CASE CloseAnswer
  <2>0. spc' = "open_r" /\ UNCHANGED <<command, linked, done>>
    BY <1>6 DEF CloseAnswer, ChildGoes, Leak
  <2>1. CASE fifo' = [fifo EXCEPT !.writers = (@ \ {"child"}) \cup {"leaked"}]
    <3>1. fifo' = [fifo EXCEPT !.writers = (@ \ {"child"}) \cup {"leaked"}]
          /\ "child" \notin fifo.blocked
      BY <1>6, <2>1 DEF CloseAnswer, Blocked
    <3>2. /\ fifo'.data = fifo.data /\ fifo'.readers = fifo.readers /\ fifo'.blocked = fifo.blocked
          /\ fifo'.writers = (fifo.writers \ {"child"}) \cup {"leaked"}
          /\ fifo' = [readers |-> fifo'.readers, writers |-> fifo'.writers,
                      blocked |-> fifo'.blocked, data |-> fifo'.data]
      BY <3>1 DEF SessionTypeOK, Pipe
    <3>3. Pipe(fifo')
      BY <3>1, <3>2 DEF Pipe, SessionTypeOK
    <3> QED
      BY <1>0, <2>0, <3>2, <3>3 DEF SessionTypeOK, Leak, ClientStill
  <2>2. CASE fifo' = Closed(fifo, {"child"})
    <3>1. fifo' = Closed(fifo, {"child"})
      BY <2>2
    <3>2. /\ Pipe(fifo') /\ fifo'.data = fifo.data
          /\ fifo'.readers = fifo.readers \ {"child"}
          /\ fifo'.writers = fifo.writers \ {"child"}
          /\ fifo'.blocked = fifo.blocked \ {"child"}
      BY <3>1, SomeClose DEF SessionTypeOK, Leak
    <3> QED
      BY <1>0, <2>0, <3>2 DEF SessionTypeOK, Leak, ClientStill
  <2> QED
    BY <1>6, <2>1, <2>2 DEF CloseAnswer
<1> QED
  BY <1>0, <1>1, <1>2, <1>3, <1>4, <1>5, <1>6 DEF ChildStep

-----------------------------------------------------------------------------
(* A signal that comes, or the end of the server, moves neither.           *)
LEMMA Unmoved ==
  ASSUME Together, Calm \/ Leak,
         UNCHANGED <<fifo, linked, cpc, hpc, typed, spc, command, asked, done, answered>>
  PROVE  Together' /\ (Calm => Calm') /\ (Leak => Leak') /\ UNCHANGED turns
BY DEF Together, SessionTypeOK, Calm, Idle, Rest, Calling, Pending, Told, Answers, Answering, Answered,
       Quitting, Ends, ClientWaits, ChildWaits, Leak, turns

LEMMA SessionSteps ==
  ASSUME SessionInv, [SessionNext]_sessionVars, sig' # "taken"
  PROVE  /\ Together /\ Together' /\ (Calm \/ Leak)
         /\ Calm => (Calm' \/ Leak') /\ (T!Turn \/ UNCHANGED turns)
         /\ Leak => Leak'
<1>1. Together /\ (Calm \/ Leak)
  BY TakenForGood DEF SessionInv, Together
<1>2. ~HandlerStep
  BY <1>1, NoHandler DEF Together
<1>3. CASE MainStep
  BY <1>1, <1>3, CalmMain, LeakMain
<1>4. CASE ChildStep
  BY <1>1, <1>4, CalmChild, LeakChild
<1>5. CASE SignalComes \/ ServerEnds \/ UNCHANGED sessionVars
  <2>1. UNCHANGED <<fifo, linked, cpc, hpc, typed, spc, command, asked, done, answered>>
    BY <1>5 DEF SignalComes, ServerEnds, sessionVars, clientVars, childVars, turns
  <2> QED
    BY <1>1, <2>1, Unmoved
<1> QED
  BY <1>1, <1>2, <1>3, <1>4, <1>5 DEF SessionNext

(***************************************************************************)
(* Until a signal is taken the client and request are in one of the places *)
(* of Calm together, or, after a descriptor was left open, in Leak for     *)
(* ever.                                                                   *)
(***************************************************************************)
THEOREM SessionInvariant == SessionSpec => []SessionInv
<1>1. SessionInv /\ [SessionNext]_sessionVars => SessionInv'
  BY SessionSteps DEF SessionInv, Together
<1> QED
  BY <1>1, SessionBegins, PTL DEF SessionSpec

(***************************************************************************)
(* The one FIFO between the client and request is read by whom what is in  *)
(* it is meant for, and holds nothing of an earlier command.               *)
(***************************************************************************)
THEOREM ReaderIsRight == SessionSpec => []RightReader
<1>1. SessionInv => RightReader
  <2> SUFFICES ASSUME SessionInv, Sound, NEW k \in DOMAIN fifo.data
               PROVE  /\ fifo.data[k].no = asked
                      /\ fifo.readers \ fifo.blocked
                           \subseteq {IF fifo.data[k].kind = "answer" THEN "client" ELSE "child"}
    BY DEF RightReader
  <2>1. SessionTypeOK /\ Calm /\ Ends
    BY DEF SessionInv, Sound, Calm, Leak
  <2>2. fifo.data # << >>
    OBVIOUS
  <2>3. CASE Pending
    <3>1. fifo.data = <<[no |-> asked, kind |-> typed]>> /\ spc = "read"
      BY <2>2, <2>3 DEF Pending
    <3>2. fifo.data[k].no = asked /\ fifo.data[k].kind = typed
      BY <3>1
    <3>3. typed # "answer"
      BY <2>1, SessionAssumption DEF SessionTypeOK, SessionAssumption
    <3>4. fifo.readers \ fifo.blocked \subseteq {"child"}
      BY <2>1, <2>3 DEF Ends, Pending, ClientWaits
    <3> QED
      BY <3>2, <3>3, <3>4
  <2>4. CASE Answering \/ Answered
    <3>1. fifo.data[k] \in [no : {asked}, kind : {"answer"}]
      <4> DEFINE S == [no : {asked}, kind : {"answer"}]
                 data == fifo.data
      <4>1. data \in Seq(S) /\ k \in DOMAIN data
        BY <2>4 DEF Answering, Answered, Answers
      <4> HIDE DEF S, data
      <4>2. k \in 1..Len(data)
        BY <4>1, LenProperties
      <4>3. data[k] \in S
        BY <4>1, <4>2, ElementOfSeq
      <4> QED
        BY <4>3 DEF S, data
    <3>2. fifo.readers \ fifo.blocked \subseteq {"client"}
      BY <2>1, <2>4 DEF Ends, Answering, Answered, Told, ChildWaits
    <3> QED
      BY <3>1, <3>2
  <2> QED
    BY <2>1, <2>2, <2>3, <2>4 DEF Calm, Idle, Calling, Quitting
<1> QED
  BY <1>1, SessionInvariant, PTL

(***************************************************************************)
(* A command is carried out once, and answered before the next one is      *)
(* sent (the loops of client.c and of request).                            *)
(***************************************************************************)
THEOREM TurnsAreKept == SessionSpec => KeepsTurns
<1>1. SessionInv /\ [SessionNext]_sessionVars => [Sound' => T!Turn]_turns
  <2> SUFFICES ASSUME SessionInv, [SessionNext]_sessionVars, Sound'
               PROVE  T!Turn \/ UNCHANGED turns
    OBVIOUS
  <2>1. sig' # "taken" /\ ~Leak'
    BY DEF Sound, Leak
  <2> QED
    BY <2>1, SessionSteps
<1>2. SessionInit => T!TurnInit
  BY DEF SessionInit, T!TurnInit
<1> QED
  BY <1>1, <1>2, SessionInvariant, PTL DEF SessionSpec, KeepsTurns
=============================================================================
