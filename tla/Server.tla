------------------------------- MODULE Server -------------------------------
(***************************************************************************)
(* Midterm: the server's parent (accept_connections, child_process, the    *)
(* handlers of SIGCHLD and SIGINT), its two queues, and the part of a      *)
(* client that concerns it: connecting, waiting, leaving.  What a client   *)
(* and its child say to each other is in Session.                          *)
(***************************************************************************)
EXTENDS ClientQueue, Integers, FiniteSets, Functions

CONSTANTS
  Clients,        \* numbered as they come: a client connects once
  MaxClients      \* max_clients, the server's second argument

ASSUME ServerAssumption ==
  /\ IsFiniteSet(Clients) /\ Clients \subseteq Nat
  /\ MaxClients \in Nat

VARIABLES
  ppc, cur,                \* the parent, and the client it is at
  server,                  \* "up", or how the parent ended
  num_clients, reg,        \* the counter, and its copy while ++ runs
  chld,                    \* is a SIGCHLD pending?  Several are one.
  client_fd,               \* never assigned before it is read: -1 or not
  clients, wait_que,       \* every client ever served; those who wait
  requests,                \* the server's FIFO
  fifo_linked,             \* its name
  cstate, full, linked,    \* each client; its variable full; its FIFO's name
  tryConnect,              \* the clients whose tryConnect is not answered yet
  signalled,               \* clients the server has sent SIGINT
  child                    \* the child of each client

parentVars == <<ppc, cur, server, num_clients, reg, chld, client_fd, clients, wait_que, fifo_linked>>
clientVars == <<cstate, full, linked, tryConnect>>
serverVars == <<parentVars, requests, clientVars, signalled, child>>

Nobody == Null
Up == server = "up"

(* Mapped memory, log file and directory are there; the queues are empty.  *)
ServerInit ==
  /\ ppc = "loop" /\ cur = Nobody /\ server = "up"
  /\ num_clients = 0 /\ reg = 0 /\ chld = FALSE
  /\ client_fd \in {"-1", "open"}
  /\ clients = queue_constructor /\ wait_que = queue_constructor
  /\ requests = << >> /\ fifo_linked = TRUE
  /\ cstate = [c \in Clients |-> "new"]
  /\ full = [c \in Clients |-> "unset"]
  /\ linked = [c \in Clients |-> FALSE]
  /\ tryConnect = {}
  /\ signalled = {}
  /\ child = [c \in Clients |-> "none"]

(* The children that live: forked, or already reading their client's FIFO. *)
Living == {c \in Clients : child[c] \in {"forked", "serving"}}

-----------------------------------------------------------------------------
(* The parent: accept_connections.                                         *)

Parent(l) == ppc = l /\ Up
ParentGoes(l) == ppc' = l /\ UNCHANGED <<server, fifo_linked>>

(* exitFailure: nobody is told, and the server's FIFO keeps its name.      *)
ExitFailure == ppc' = "gone" /\ server' = "failed" /\ UNCHANGED fifo_linked

(* Mutant: one place too many.                                             *)
TakeWaitingAny ==
  /\ Parent("loop")
  /\ IF num_clients <= MaxClients /\ wait_que.size > 0
     THEN cur' = first(wait_que) /\ wait_que' = dequeue(wait_que) /\ ParentGoes("load")
     ELSE ParentGoes("read") /\ UNCHANGED <<cur, wait_que>>
  /\ UNCHANGED <<num_clients, reg, chld, client_fd, clients, requests, clientVars, signalled, child>>

TakeWaiting ==
  /\ Parent("loop")
  /\ IF num_clients < MaxClients /\ wait_que.size > 0
     THEN cur' = first(wait_que) /\ wait_que' = dequeue(wait_que) /\ ParentGoes("load")
     ELSE ParentGoes("read") /\ UNCHANGED <<cur, wait_que>>
  /\ UNCHANGED <<num_clients, reg, chld, client_fd, clients, requests, clientVars, signalled, child>>

(* Mutant: the FIFO is opened without O_NONBLOCK.                          *)
ReadNothingWaits == Parent("read") /\ FALSE /\ UNCHANGED serverVars

(* The FIFO is read without waiting; with nothing there the loop goes on.  *)
ReadNothing ==
  /\ Parent("read") /\ requests = << >> /\ ParentGoes("loop")
  /\ UNCHANGED <<cur, num_clients, reg, chld, client_fd, clients, wait_que,
                 requests, clientVars, signalled, child>>

(* Mutant: a newcomer is not put behind those who wait.                    *)
WelcomeUnfair == num_clients < MaxClients
(* Is there a place for a newcomer?                                        *)
Welcome == num_clients < MaxClients /\ wait_que.size = 0

(* A client's request; with client_fd at -1 it is dropped.                 *)
ReadRequest ==
  /\ Parent("read") /\ requests # << >>
  /\ cur' = Head(requests) /\ requests' = Tail(requests)
  /\ IF client_fd = "-1"
     THEN ParentGoes("loop") /\ UNCHANGED wait_que
     ELSE IF Welcome
     THEN ParentGoes("load") /\ UNCHANGED wait_que
     ELSE IF cur' \in tryConnect
     THEN ParentGoes("refuse") /\ UNCHANGED wait_que
     ELSE ParentGoes("loop") /\ wait_que' = enqueue(wait_que, cur')
  /\ UNCHANGED <<num_clients, reg, chld, client_fd, clients, clientVars, signalled, child>>

(* num_clients++ is a load and a store.  Only a newcomer's tryConnect is   *)
(* told: one who waited has none.                                          *)
Load ==
  /\ Parent("load") /\ reg' = num_clients /\ ParentGoes("store")
  /\ UNCHANGED <<cur, num_clients, chld, client_fd, clients, wait_que, requests, clientVars, signalled, child>>

Store ==
  /\ Parent("store") /\ num_clients' = reg + 1 /\ reg' = 0
  /\ ParentGoes(IF cur \in tryConnect THEN "accept" ELSE "fork")
  /\ UNCHANGED <<cur, chld, client_fd, clients, wait_que, requests, clientVars, signalled, child>>

(* A tryConnect is answered over its FIFO, where the parent waits for the  *)
(* client.  Accepted, it is sent nothing; refused, a 1.                    *)
Tell(l, then, word) ==
  /\ Parent(l)
  /\ IF ~linked[cur]
     THEN ExitFailure /\ UNCHANGED <<client_fd, cstate, full>>
     ELSE /\ cstate[cur] = "try_open"
          /\ cstate' = [cstate EXCEPT ![cur] = "try_read"]
          /\ full' = [full EXCEPT ![cur] = word]
          /\ client_fd' = "open"
          /\ ParentGoes(then)
  /\ UNCHANGED <<cur, num_clients, reg, chld, clients, wait_que, requests, linked, tryConnect, signalled, child>>
Accept == Tell("accept", "fork", "unset")
Refuse == Tell("refuse", "loop", "1")

Fork ==
  /\ Parent("fork")
  /\ child' = [child EXCEPT ![cur] = "forked"] /\ ParentGoes("enqueue")
  /\ UNCHANGED <<cur, num_clients, reg, chld, client_fd, clients, wait_que, requests, clientVars, signalled>>

ForkFails ==
  /\ Parent("fork") /\ ExitFailure
  /\ UNCHANGED <<cur, num_clients, reg, chld, client_fd, clients, wait_que, requests, clientVars, signalled, child>>

Remember ==
  /\ Parent("enqueue") /\ clients' = enqueue(clients, cur) /\ ParentGoes("loop")
  /\ UNCHANGED <<cur, num_clients, reg, chld, client_fd, wait_que, requests, clientVars, signalled, child>>

ParentStep ==
  \/ TakeWaiting \/ ReadNothing \/ ReadRequest \/ Load \/ Store \/ Accept \/ Refuse
  \/ Fork \/ Remember

-----------------------------------------------------------------------------
(* The handlers.                                                           *)

(* client_termination_handler: one call for any number of dead children,   *)
(* also between the load and the store of num_clients++.                   *)
SigChld ==
  /\ Up /\ chld
  /\ num_clients' = num_clients - 1 /\ chld' = FALSE
  /\ UNCHANGED <<ppc, cur, server, reg, client_fd, clients, wait_que, fifo_linked,
                 requests, clientVars, signalled, child>>

(* Mutant: the server's FIFO is left behind.                               *)
StopKeepsFifo(outcome) == server' = outcome /\ UNCHANGED fifo_linked

Stop(outcome) == server' = outcome /\ fifo_linked' = (outcome = "crashed")

(* exitParent, on SIGINT, SIGTSTP or a client's killServer.  The queues    *)
(* are destroyed before the name goes: freeing a slot that was never       *)
(* assigned may end the process there.                                     *)
ExitParent ==
  /\ Up
  /\ signalled' = signalled \cup {Contents(clients)[k] : k \in 1..clients.size}
  /\ \/ Stop("stopped")
     \/ ~(Destroyable(clients) /\ Destroyable(wait_que)) /\ Stop("crashed")
  /\ UNCHANGED <<ppc, cur, num_clients, reg, chld, client_fd, clients, wait_que,
                 requests, clientVars, child>>

-----------------------------------------------------------------------------
(* The clients and their children.                                         *)

(* The FIFO is made and the request sent.  Clients differ in their pids    *)
(* alone: the first to come is the first of Clients.                       *)
Connect(c) ==
  /\ cstate[c] = "new" /\ Up
  /\ \A d \in Clients : d < c => cstate[d] # "new"
  /\ linked' = [linked EXCEPT ![c] = TRUE]
  /\ requests' = Append(requests, c)
  /\ \/ cstate' = [cstate EXCEPT ![c] = "in_loop"] /\ UNCHANGED tryConnect
     \/ cstate' = [cstate EXCEPT ![c] = "try_open"] /\ tryConnect' = tryConnect \cup {c}
  /\ UNCHANGED <<parentVars, full, signalled, child>>

ClientGone(c, unlink) ==
  /\ cstate' = [cstate EXCEPT ![c] = "gone"]
  /\ linked' = [linked EXCEPT ![c] = @ /\ ~unlink]

(* An accepted client reads nothing, and tests a variable that was never   *)
(* assigned, and whose scope ends here.                                    *)
TryRead(c) ==
  /\ cstate[c] = "try_read"
  /\ \/ ClientGone(c, TRUE)
     \/ /\ full[c] = "unset"
        /\ cstate' = [cstate EXCEPT ![c] = "in_loop"] /\ UNCHANGED linked
  /\ full' = [full EXCEPT ![c] = "unset"] /\ tryConnect' = tryConnect \ {c}
  /\ UNCHANGED <<parentVars, requests, signalled, child>>

(* A signal at the open of a tryConnect: kill_child waits there for ever.  *)
InterruptTry(c) ==
  /\ cstate[c] = "try_open" /\ fifo_linked
  /\ cstate' = [cstate EXCEPT ![c] = "stuck"]
  /\ UNCHANGED <<parentVars, requests, full, linked, tryConnect, signalled, child>>

(* End of input: the child is not told.                                    *)
Vanish(c) ==
  /\ cstate[c] = "in_loop" /\ ClientGone(c, FALSE)
  /\ UNCHANGED <<parentVars, requests, full, tryConnect, signalled, child>>

(* A command typed with no child to read it: past both looks at the        *)
(* server's FIFO, the client waits in open.  So does a signal's quit.      *)
TypeAhead(c) ==
  /\ cstate[c] = "in_loop" /\ fifo_linked /\ child[c] # "serving"
  /\ cstate' = [cstate EXCEPT ![c] = "sending"]
  /\ UNCHANGED <<parentVars, requests, full, linked, tryConnect, signalled, child>>

(* Its child reads and answers it.  With the child there from the start    *)
(* a command leaves no trace here.                                         *)
Answered(c) ==
  /\ cstate[c] = "sending" /\ child[c] = "serving"
  /\ cstate' = [cstate EXCEPT ![c] = "in_loop"]
  /\ UNCHANGED <<parentVars, requests, full, linked, tryConnect, signalled, child>>

(* The client finds the server's FIFO gone, before a prompt or behind it.  *)
SeeDeadServer(c) ==
  /\ cstate[c] = "in_loop" /\ ~fifo_linked /\ ClientGone(c, TRUE)
  /\ UNCHANGED <<parentVars, requests, full, tryConnect, signalled, child>>

ChildEnds(c) ==
  /\ child' = [child EXCEPT ![c] = "gone"] /\ chld' = TRUE
  /\ UNCHANGED <<ppc, cur, server, num_clients, reg, client_fd, clients, wait_que, fifo_linked>>

(* request: the child opens its client's FIFO.                             *)
ChildOpens(c) ==
  /\ child[c] = "forked"
  /\ IF linked[c]
     THEN child' = [child EXCEPT ![c] = "serving"] /\ UNCHANGED parentVars
     ELSE ChildEnds(c)
  /\ UNCHANGED <<requests, clientVars, signalled>>

(* Has the client a command under way that its child reads?                *)
Commands(c) ==
  /\ child[c] = "serving"
  /\ (cstate[c] = "in_loop" /\ fifo_linked) \/ cstate[c] = "sending"

(* The child exits in the middle of a command: its client waits for an     *)
(* answer for ever (GiveUp of Session).                                    *)
GiveUp(c) ==
  /\ Commands(c) /\ ChildEnds(c)
  /\ cstate' = [cstate EXCEPT ![c] = "stuck"]
  /\ UNCHANGED <<requests, full, linked, tryConnect, signalled>>

(* The client quits and its child ends (Session).                          *)
Quit(c) ==
  /\ Commands(c)
  /\ ClientGone(c, TRUE) /\ ChildEnds(c)
  /\ UNCHANGED <<requests, full, tryConnect, signalled>>

ClientStep(c) ==
  \/ Connect(c) \/ TryRead(c) \/ InterruptTry(c) \/ Vanish(c) \/ TypeAhead(c) \/ Answered(c)
  \/ SeeDeadServer(c) \/ ChildOpens(c) \/ GiveUp(c) \/ Quit(c)

ServerNext ==
  ParentStep \/ ForkFails \/ SigChld \/ ExitParent \/ \E c \in Clients : ClientStep(c)

ServerSpec == ServerInit /\ [][ServerNext]_serverVars

(* The parent runs, signals are delivered, and every user gives up in the  *)
(* end: who is served quits, who finds the server dead leaves.  Nobody     *)
(* need type ahead.                                                        *)
GoesOn(c) == TryRead(c) \/ ChildOpens(c) \/ Answered(c) \/ Quit(c) \/ SeeDeadServer(c)
ServerFair ==
  /\ ServerSpec
  /\ WF_serverVars(ParentStep) /\ WF_serverVars(SigChld)
  /\ \A c \in Clients : WF_serverVars(GoesOn(c))

-----------------------------------------------------------------------------
ServerTypeOK ==
  /\ ppc \in {"loop", "read", "load", "store", "accept", "refuse", "fork", "enqueue", "gone"}
  /\ server \in {"up", "failed", "stopped", "crashed"}
  /\ num_clients \in Nat /\ reg \in Nat /\ chld \in BOOLEAN
  /\ child \in [Clients -> {"none", "forked", "serving", "gone"}]

One(b) == IF b THEN 1 ELSE 0

(* The counter is never below the children that live or are about to be    *)
(* forked, and a death that was not yet counted: a SIGCHLD lost in ++, or  *)
(* two that become one, err on this side.                                  *)
CountCovers ==
  /\ num_clients >= Cardinality(Living) + One(chld) + One(ppc \in {"accept", "fork"})
  /\ ppc = "store" => reg >= Cardinality(Living) + One(chld)

CountBounded ==
  /\ num_clients <= MaxClients
  /\ ppc = "load" => num_clients < MaxClients
  /\ ppc = "store" => reg < MaxClients

(***************************************************************************)
(* No more than max_clients children live at a time, although the counter  *)
(* that guards the fork is changed by a handler in the middle of its ++,   *)
(* and SIGCHLDs are not queued.                                            *)
(***************************************************************************)
PlacesRespected == Cardinality(Living) <= MaxClients

(* What makes it inductive.                                                *)
PlacesInv == ServerTypeOK /\ (Up => CountCovers /\ CountBounded) /\ PlacesRespected

(***************************************************************************)
(* When SIGINT ends the server every client with a child is told, but the  *)
(* one whose child is forked and not yet entered in clients.               *)
(***************************************************************************)
EveryoneTold ==
  server \in {"stopped", "crashed"}
    => \A c \in Living : c \in signalled \/ (ppc = "enqueue" /\ c = cur)

(* The client that has been given a place, and whose child is not yet      *)
(* forked.                                                                 *)
Coming == {c \in {cur} : Up /\ ppc \in {"load", "store", "accept", "fork"}}

RoomTypeOK ==
  /\ cstate \in [Clients -> {"new", "in_loop", "sending", "try_open", "try_read", "stuck", "gone"}]
  /\ requests \in Seq(Clients)
  /\ RingOK(wait_que) /\ Contents(wait_que) \in Seq(Clients)
  /\ RingOK(clients)

(* A client is asking, waiting, coming, or has had its child: one of these *)
(* at a time, and in a queue once.                                         *)
OneWay ==
  /\ IsInjective(requests) /\ IsInjective(Contents(wait_que))
  /\ Range(requests) \cap Range(Contents(wait_que)) = {}
  /\ Coming \cap (Range(requests) \cup Range(Contents(wait_que))) = {}
  /\ \A c \in Range(requests) \cup Range(Contents(wait_que)) \cup Coming :
       c \in Clients /\ cstate[c] # "new" /\ child[c] = "none"
  /\ \A c \in Clients : cstate[c] = "new" => child[c] = "none"

(* While the parent runs it knows every client whose child lives, but the  *)
(* one it is about to enter.                                               *)
AllKnown ==
  Up => \A c \in Living : c \in Range(Contents(clients)) \/ (ppc = "enqueue" /\ c = cur)

(***************************************************************************)
(* What EveryoneTold and ImplementsRoom rest on: nobody is in two places   *)
(* of the server at a time, or twice in a ring, and clients has all whose  *)
(* child lives, however the rings wrap and grow.                           *)
(***************************************************************************)
RoomInv == RoomTypeOK /\ OneWay /\ AllKnown /\ EveryoneTold

(***************************************************************************)
(* The server is the waiting room of WaitingRoom: those who wait come in   *)
(* in their order, and no newcomer before them, whatever the ring does     *)
(* when it wraps and grows.                                                *)
(***************************************************************************)
Room == INSTANCE WaitingRoom WITH
  Guests <- Clients,
  Places <- MaxClients,
  waiting <- Contents(wait_que),
  active <- Living \cup Coming

ImplementsRoom == Room!RoomSpec

(* The places that are counted for a client that is there or on its way    *)
(* out; a place counted for nobody is lost for good.                       *)
Here(c) == cstate[c] \in {"try_read", "in_loop", "sending"}
Held == {c \in Living : Here(c) \/ (child[c] = "forked" /\ ~linked[c])}
PlaceLost ==
  \/ num_clients > Cardinality(Held) + One(chld) + One(ppc \in {"accept", "fork"})
  \/ ppc = "store" /\ reg # num_clients

(***************************************************************************)
(* Section 1.1 of Document.pdf: "Whenever an active client is terminated,  *)
(* if there is a queue, the front of the queue is dequeued".  All who wait *)
(* are served, if users quit, unless the server ends, a place is lost (a   *)
(* client vanished, or a SIGCHLD was), or the parent waits for a           *)
(* tryConnect that was interrupted.                                        *)
(***************************************************************************)
WaitersServed ==
  wait_que.size > 0
    ~> \/ wait_que.size = 0 \/ ~Up \/ PlaceLost
       \/ ppc \in {"accept", "refuse"} /\ cstate[cur] = "stuck"

(* Who may wait for ever once the server has stopped: in the open of a     *)
(* command that no child will read, in that of a tryConnect, in the open   *)
(* for the answer of a child that gave up, or in kill_child's.             *)
Stranded(c) ==
  \/ cstate[c] = "sending" /\ c \notin Living
  \/ cstate[c] \in {"try_open", "stuck"}

(***************************************************************************)
(* Section 2.7: after killServer "all clients and server are terminated",  *)
(* and client.c:128 of one in the queue: "If client didn't termminate when *)
(* server is killed, terminate it".  Every client ends that was not at an  *)
(* open nobody will answer; those who had typed a command ahead, and are   *)
(* in the queue, do not, against both.                                     *)
(***************************************************************************)
NoneLeftInLoop ==
  server = "stopped" ~> \A c \in Clients : cstate[c] \in {"new", "gone"} \/ Stranded(c)
=============================================================================
