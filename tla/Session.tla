------------------------------ MODULE Session ------------------------------
(***************************************************************************)
(* Midterm: a connected client (client.c) and the server's child that      *)
(* serves it (request of server.c), which share one FIFO for commands and  *)
(* answers; the client's handler of SIGINT and SIGTSTP; the end of the     *)
(* server.  What a command does to files is in FileCommands.               *)
(***************************************************************************)
EXTENDS Fifo

CONSTANTS
  Kinds,         \* "short": a word of four letters, such as list; "long": any
                 \* other with an answer; "bareUpload": no file name; "killServer";
                 \* "quit"
  MaxCommands,   \* bound on what the user types
  MaxPieces      \* bound on the writes of one answer

ASSUME SessionAssumption ==
  /\ Kinds \subseteq {"short", "long", "bareUpload", "killServer", "quit"}
  /\ MaxCommands \in Nat /\ MaxPieces \in Nat

VARIABLES
  fifo, linked,            \* the client's FIFO, and its name
  server,                  \* is the server's FIFO there?
  cpc, hpc,                \* the client: its main, its handler
  typed,                   \* the command main has read
  sig,                     \* the signal: "none", "pending", "taken"
  restart,                 \* sa_flags, never assigned: is a call restarted?
  spc, command, left,      \* the child, its buffer, the pieces to write
  asked, done, answered    \* how many commands came how far

clientVars == <<cpc, hpc, typed, sig, restart>>
childVars == <<spc, command, left>>
turns == <<asked, done, answered>>
sessionVars == <<fifo, linked, server, clientVars, childVars, turns>>

(* command was never assigned; short says that its byte 4 is a NUL.        *)
SessionInit ==
  /\ fifo = EmptyFifo /\ linked = TRUE /\ server = TRUE
  /\ cpc = "top" /\ hpc = "none" /\ typed = "none" /\ sig = "none"
  /\ restart \in BOOLEAN
  /\ spc = "open_r" /\ left = 0
  /\ command \in [no : {0}, kind : {"garbled"}, short : BOOLEAN]
  /\ asked = 0 /\ done = 0 /\ answered = 0

-----------------------------------------------------------------------------
(* The client's main.                                                      *)

Main(l) == cpc = l /\ hpc = "none"
CloseClient == fifo' = Closed(fifo, {"client"})

ClientEnds(unlink) ==
  /\ cpc' = "gone" /\ hpc' = "none"
  /\ linked' = (linked /\ ~unlink)
  /\ fifo' = Closed(fifo, {"client", "handler"})
  /\ UNCHANGED <<typed, sig, restart>>

ClientGoes(l) == cpc' = l /\ UNCHANGED <<hpc, typed, sig, restart>>

CheckServer ==
  /\ Main("top")
  /\ IF server THEN ClientGoes("prompt") /\ UNCHANGED <<fifo, linked>> ELSE ClientEnds(TRUE)
  /\ UNCHANGED <<server, childVars, turns>>

(* A command is typed, and the server's FIFO looked for again.             *)
Type(k) ==
  /\ Main("prompt") /\ asked < MaxCommands
  /\ IF server
     THEN /\ cpc' = "open_w" /\ typed' = k
          /\ UNCHANGED <<hpc, sig, restart, fifo, linked>>
     ELSE ClientEnds(TRUE)
  /\ UNCHANGED <<server, childVars, turns>>

(* End of file, or fgets cut short by the signal: the FIFO is left behind. *)
EndOfInput ==
  /\ Main("prompt") \/ Main("interrupted")
  /\ ClientEnds(FALSE)
  /\ UNCHANGED <<server, childVars, turns>>

ClientOpens(l, Open(_, _), then) ==
  /\ Main(l)
  /\ IF linked
     THEN ClientGoes(then) /\ fifo' = Open(fifo, "client") /\ UNCHANGED linked
     ELSE ClientEnds(TRUE)
  /\ UNCHANGED <<server, childVars, turns>>
OpenToSend == ClientOpens("open_w", OpenWrite, "write")
OpenToReceive == ClientOpens("open_r", OpenRead, "read")

Send ==
  /\ Main("write") /\ ~Blocked(fifo, "client")
  /\ IF Broken(fifo)
     THEN ClientEnds(FALSE) /\ UNCHANGED asked
     ELSE /\ asked' = asked + 1
          /\ fifo' = Written(fifo, [no |-> asked + 1, kind |-> typed])
          /\ ClientGoes("close_w") /\ UNCHANGED linked
  /\ UNCHANGED <<server, childVars, done, answered>>

(* Mutant: the client reads the answer before it has closed.               *)
SentNotClosed ==
  /\ Main("close_w")
  /\ IF typed = "quit" THEN ClientEnds(TRUE) ELSE ClientGoes("open_r") /\ UNCHANGED <<fifo, linked>>
  /\ UNCHANGED <<server, childVars, turns>>

Sent ==
  /\ Main("close_w")
  /\ IF typed = "quit"
     THEN ClientEnds(TRUE)
     ELSE CloseClient /\ ClientGoes("open_r") /\ UNCHANGED linked
  /\ UNCHANGED <<server, childVars, turns>>

(* The answer is read until the last writer has closed.                    *)
Receive ==
  /\ Main("read") /\ ~Blocked(fifo, "client") /\ Readable(fifo)
  /\ fifo' = Drained(fifo)
  /\ IF fifo.data = << >>
     THEN ClientGoes("close_r") /\ answered' = answered + 1
     ELSE UNCHANGED <<clientVars, answered>>
  /\ UNCHANGED <<linked, server, childVars, asked, done>>

Received ==
  /\ Main("close_r") /\ CloseClient /\ ClientGoes("top")
  /\ UNCHANGED <<linked, server, childVars, turns>>

Fails == Main("fail") /\ ClientEnds(TRUE) /\ UNCHANGED <<server, childVars, turns>>

MainStep ==
  \/ CheckServer \/ EndOfInput \/ (\E k \in Kinds : Type(k))
  \/ OpenToSend \/ Send \/ Sent \/ OpenToReceive \/ Receive \/ Received \/ Fails

-----------------------------------------------------------------------------
(* The client's handler, kill_child.                                       *)

(* A signal, from the keyboard or from the server's exitParent: at most    *)
(* one here.                                                               *)
SignalComes ==
  /\ sig = "none" /\ cpc # "gone"
  /\ sig' = "pending"
  /\ UNCHANGED <<fifo, linked, server, cpc, hpc, typed, restart, childVars, turns>>

(* Where main goes on when the handler has returned: a call that waited is *)
(* made again, or has failed.                                              *)
Resumed ==
  LET cut(call, failed) == IF restart THEN call ELSE failed
  IN  CASE Blocked(fifo, "client") -> cut(IF cpc = "write" THEN "open_w" ELSE "open_r", "fail")
        [] cpc = "prompt" -> cut("prompt", "interrupted")
        [] cpc = "read" /\ ~Readable(fifo) -> cut("read", "close_r")
        [] OTHER -> cpc

TakeSignal ==
  /\ sig = "pending" /\ hpc = "none" /\ cpc # "gone"
  /\ sig' = "taken" /\ hpc' = "stat"
  /\ cpc' = Resumed
  /\ fifo' = IF Blocked(fifo, "client") THEN Closed(fifo, {"client"}) ELSE fifo
  /\ UNCHANGED <<linked, server, typed, restart, childVars, turns>>

HandlerGoes(l) == hpc' = l /\ UNCHANGED <<cpc, typed, sig, restart>>
UnchangedChild == UNCHANGED <<server, childVars, turns>>

HandlerStat ==
  /\ hpc = "stat" /\ HandlerGoes(IF server THEN "open" ELSE "unlink")
  /\ UNCHANGED <<fifo, linked>> /\ UnchangedChild

HandlerOpen ==
  /\ hpc = "open"
  /\ IF linked
     THEN HandlerGoes("write") /\ fifo' = OpenWrite(fifo, "handler") /\ UNCHANGED linked
     ELSE ClientEnds(TRUE)
  /\ UnchangedChild

(* Four bytes: "quit" without the NUL that the child's strcmp looks for.   *)
HandlerWrite ==
  /\ hpc = "write" /\ ~Blocked(fifo, "handler")
  /\ IF Broken(fifo)
     THEN ClientEnds(FALSE)
     ELSE /\ HandlerGoes("close")
          /\ fifo' = Written(fifo, [no |-> asked, kind |-> "quit4"])
          /\ UNCHANGED linked
  /\ UnchangedChild

HandlerClose ==
  /\ hpc = "close" /\ HandlerGoes("unlink")
  /\ fifo' = Closed(fifo, {"handler"})
  /\ UNCHANGED linked /\ UnchangedChild


HandlerUnlink ==
  /\ hpc = "unlink" /\ HandlerGoes("none")
  /\ linked' = FALSE
  /\ UNCHANGED fifo /\ UnchangedChild

HandlerStep ==
  TakeSignal \/ HandlerStat \/ HandlerOpen \/ HandlerWrite \/ HandlerClose \/ HandlerUnlink

-----------------------------------------------------------------------------
(* The server's child: request.                                            *)

UnchangedClient == UNCHANGED <<server, clientVars, asked, answered>>
ChildGoes(l) == spc' = l /\ UNCHANGED <<command, left>>
ChildEnds ==
  /\ spc' = "gone" /\ fifo' = Closed(fifo, {"child", "leaked"})
  /\ UNCHANGED <<command, left>>

ChildOpens(l, Open(_, _), then) ==
  /\ spc = l
  /\ IF linked THEN ChildGoes(then) /\ fifo' = Open(fifo, "child") ELSE ChildEnds
  /\ UNCHANGED <<linked, done>> /\ UnchangedClient
OpenCommand == ChildOpens("open_r", OpenRead, "read")
OpenAnswer == ChildOpens("open_w", OpenWrite, "write")

(* What strcmp makes of the buffer: its first string.  A read of nothing,  *)
(* at the end of file, leaves the last command there; four letters without *)
(* a NUL are "quit" only when the last command had four letters too.       *)
Parsed(m) ==
  IF m.kind = "quit4"
  THEN [command EXCEPT !.kind = IF command.short THEN "quit" ELSE "garbled"]
  ELSE [no |-> m.no, kind |-> m.kind, short |-> m.kind = "short"]


(* Mutant: the FIFO is opened and read without waiting (O_NONBLOCK).       *)
ReadCommandAtOnce ==
  /\ spc = "read"
  /\ command' = IF fifo.data = << >> THEN command ELSE Parsed(fifo.data[1])
  /\ fifo' = Drained(fifo)
  /\ spc' = "close_r"
  /\ UNCHANGED <<linked, left, done>> /\ UnchangedClient

ReadCommand ==
  /\ spc = "read" /\ ~Blocked(fifo, "child") /\ Readable(fifo)
  /\ command' = IF fifo.data = << >> THEN command ELSE Parsed(fifo.data[1])
  /\ fifo' = Drained(fifo)
  /\ spc' = "close_r"
  /\ UNCHANGED <<linked, left, done>> /\ UnchangedClient

(* An answer is written in pieces; a file's, in as many as the file takes. *)
Pieces == IF command.kind = "long" THEN 0..MaxPieces ELSE {1}

(* The count stops one past what was asked for, where it is wrong anyhow.  *)
Counted == IF done > asked THEN done ELSE done + 1

(* The command is carried out (module FileCommands); the answer follows.   *)
Dispatch ==
  /\ spc = "close_r"
  /\ done' = Counted
  /\ IF command.kind = "quit"
     THEN ChildEnds
     ELSE /\ spc' = "open_w" /\ left' \in Pieces
          /\ fifo' = Closed(fifo, {"child"}) /\ UNCHANGED command
  /\ UNCHANGED linked /\ UnchangedClient

(* Or it never gets that far: the child exits on the way (the table of     *)
(* files is full, a replaced line is NULL, the fork for tar fails), or it  *)
(* waits for ever for a file that another session holds (FileCommands).    *)
GiveUp ==
  /\ spc = "close_r" /\ command.kind = "long"
  /\ \/ ChildEnds
     \/ /\ spc' = "stuck" /\ fifo' = Closed(fifo, {"child"})
        /\ UNCHANGED <<command, left>>
  /\ UNCHANGED <<linked, done>> /\ UnchangedClient

WriteAnswer ==
  /\ spc = "write" /\ ~Blocked(fifo, "child") /\ left > 0
  /\ IF Broken(fifo)
     THEN ChildEnds
     ELSE /\ left' = left - 1
          /\ fifo' = Written(fifo, [no |-> command.no, kind |-> "answer"])
          /\ UNCHANGED <<spc, command>>
  /\ UNCHANGED <<linked, done>> /\ UnchangedClient

(* Mutant: no answer's descriptor is closed.                               *)
CloseAnswerKept ==
  /\ spc = "write" /\ ~Blocked(fifo, "child") /\ left = 0
  /\ ChildGoes(IF command.kind = "killServer" THEN "kill" ELSE "open_r")
  /\ linked' = (linked /\ command.kind # "killServer")
  /\ UNCHANGED <<fifo, done>> /\ UnchangedClient

(* The descriptor is closed, but after an upload without a name it is not; *)
(* nor is the first of the two of a list whose opendir has failed.         *)
CloseAnswer ==
  /\ spc = "write" /\ ~Blocked(fifo, "child") /\ left = 0
  /\ \/ command.kind # "bareUpload" /\ fifo' = Closed(fifo, {"child"})
     \/ /\ command.kind \in {"bareUpload", "short"}
        /\ fifo' = [fifo EXCEPT !.writers = (@ \ {"child"}) \cup {"leaked"}]
  /\ ChildGoes(IF command.kind = "killServer" THEN "kill" ELSE "open_r")
  /\ linked' = (linked /\ command.kind # "killServer")
  /\ UNCHANGED done /\ UnchangedClient

(* The parent gets a SIGINT, and signals every client (SignalComes).       *)
KillServer ==
  /\ spc = "kill" /\ ChildGoes("open_r")
  /\ server' = FALSE
  /\ UNCHANGED <<fifo, linked, clientVars, turns>>

ChildStep ==
  \/ OpenCommand \/ ReadCommand \/ Dispatch \/ GiveUp
  \/ OpenAnswer \/ WriteAnswer \/ CloseAnswer \/ KillServer

(* Another client, or Ctrl+C, ends the server.                             *)
ServerEnds ==
  /\ server /\ server' = FALSE
  /\ UNCHANGED <<fifo, linked, clientVars, childVars, turns>>

SessionNext == MainStep \/ SignalComes \/ HandlerStep \/ ChildStep \/ ServerEnds

(* Both processes run, and the user types on, or closes the terminal.      *)
SessionSpec ==
  /\ SessionInit /\ [][SessionNext]_sessionVars
  /\ WF_sessionVars(MainStep) /\ WF_sessionVars(HandlerStep) /\ WF_sessionVars(ChildStep)

-----------------------------------------------------------------------------
(* No signal has come, and no descriptor has been leaked.                  *)
Sound == sig # "taken" /\ "leaked" \notin fifo.writers

(***************************************************************************)
(* The FIFO carries commands one way and answers the other, and nothing in *)
(* it says which: whoever has it open to read when something is there is   *)
(* who it is meant for, and it belongs to the latest command.              *)
(***************************************************************************)
RightReader ==
  Sound =>
    \A k \in DOMAIN fifo.data :
      /\ fifo.data[k].no = asked
      /\ fifo.readers \ fifo.blocked \subseteq {IF fifo.data[k].kind = "answer" THEN "client" ELSE "child"}

(***************************************************************************)
(* Until a signal the session keeps the turns of module Turns: a command   *)
(* is carried out once, and answered before the next one is sent.          *)
(***************************************************************************)
T == INSTANCE Turns
KeepsTurns == T!TurnInit /\ [][Sound' => T!Turn]_turns

(***************************************************************************)
(* A command that is sent is answered to its end, and the client is back   *)
(* at its loop, or was told to quit.  The exceptions: the child gives the  *)
(* command up, and then the client waits for ever in its open (line 177),  *)
(* and what Sound leaves out: a signal, and a descriptor left open.        *)
(***************************************************************************)
GivenUp ==
  command.kind = "long" /\ command.no = asked /\ done < asked /\ spc \in {"gone", "stuck"}
CommandAnswered ==
  asked > answered ~> (asked = answered \/ cpc = "gone" \/ GivenUp \/ ~Sound)

(***************************************************************************)
(* A client that is signalled while it waits for its user ends, and while  *)
(* the server lives its child ends too if the last command had four        *)
(* letters ("Terminating..", kill_child).                                  *)
(***************************************************************************)
AtPrompt == cpc \in {"prompt", "interrupted"} /\ hpc = "stat" /\ "leaked" \notin fifo.writers
=============================================================================
