---------------------------- MODULE FileCommands ----------------------------
(***************************************************************************)
(* The file commands of the Midterm server, as its child processes run     *)
(* them: readF, writeT, upload and download of Midterm/src/server.c, with  *)
(* the table of File records in shared memory (init_file and get_file of   *)
(* Midterm/src/sync.c) and the calls of the reader/writer lock.            *)
(*                                                                         *)
(* at[p] is where process p stands in its command, pc[p] (of ReaderWriter) *)
(* where it stands in a lock routine: calling a routine sets pc to the     *)
(* routine's first point and at to where the command goes on, which waits  *)
(* for pc to say that the routine has returned.                            *)
(*                                                                         *)
(* A file is a sequence of lines, or NoFile.  One line is one read or one  *)
(* write of the copying loops.                                             *)
(***************************************************************************)
EXTENDS ReaderWriter, SequencesExt

CONSTANTS
  Names,       \* file names
  NoFile,      \* what a directory holds under a name with no file
  Capacity,    \* sdir->capacity
  Registered,  \* the names initialize() found, in the order of their slots
  Cwd0, Srv0,  \* initial contents of the working and the server directory
  Ops,         \* the commands the clients send
  LineNumbers, \* the line numbers they give
  Failures,    \* calls that may fail: "open", "read", "write", "tmpfile", "fputs",
               \* "string" (fputs of a string the client has not given), "client"
  MaxOps       \* bound on the commands of one client

CommandNames ==
  {"readF", "readF_line", "readF_invalid", "writeT", "writeT_line", "upload", "download"}
Lines == {"old", "new"} \cup Procs
Contents == Seq(Lines)
Commands == [op : CommandNames \cup {"none"}, file : Names, line : LineNumbers \cup {0}]

(* initialize() has given every name it found a slot of its own.           *)
ASSUME FileAssumption ==
  /\ Names # {}
  /\ Capacity \in Nat /\ Slots \subseteq Nat /\ 0..Capacity - 1 \subseteq Slots /\ 0 \in Slots
  /\ Registered \in Seq(Names) /\ Len(Registered) <= Capacity
  /\ \A j, k \in DOMAIN Registered : Registered[j] = Registered[k] => j = k
  /\ NoFile \notin Contents
  /\ Cwd0 \in [Names -> {NoFile} \cup Contents] /\ Srv0 \in [Names -> {NoFile} \cup Contents]
  /\ Ops \subseteq CommandNames
  /\ MaxOps \in Nat

VARIABLES
  size,   \* sdir->size
  name,   \* sdir->files[s].name
  cwd,    \* files of the server's working directory
  srv,    \* files of server_dir
  at,     \* where a process is in request()
  cmd,    \* the command it handles: its name, the file and the line
  buf,    \* lines it has sent (readF), copied (upload, download) or kept in
          \* the temporary file (writeT with a line)
  seen,   \* sdir->size as init_file loaded it for "size += 1"
  acked,  \* <<file, process>>: an append reported as written, and not
          \* replaced by a later writeT with its line
  ops     \* commands sent so far

fileVars == <<cwd, srv>>
tableVars == <<size, name>>
cmdVars == <<cmd, buf, acked, ops>>
allVars == <<vars, fileVars, tableVars, cmdVars, at, seen>>

NoCmd == [op |-> "none", file |-> CHOOSE n \in Names : TRUE, line |-> 0]

FileInit ==
  /\ size = Len(Registered)
  /\ name = [s \in Slots |-> IF s < Len(Registered) THEN Registered[s + 1] ELSE ""]
  /\ reader_count = [s \in Slots |-> 0]
  /\ reader_mutex = [s \in Slots |-> IF s < Len(Registered) THEN 1 ELSE 0]
  /\ writer_mutex = [s \in Slots |-> IF s < Len(Registered) THEN 1 ELSE 0]
  /\ pc = [p \in Procs |-> "idle"]
  /\ sfile = [p \in Procs |-> 0]
  /\ cwd = Cwd0
  /\ srv = Srv0
  /\ at = [p \in Procs |-> "ready"]
  /\ cmd = [p \in Procs |-> NoCmd]
  /\ buf = [p \in Procs |-> << >>]
  /\ seen = [p \in Procs |-> 0]
  /\ acked = {}
  /\ ops = [p \in Procs |-> 0]

-----------------------------------------------------------------------------
Op(p) == cmd[p].op
File(p) == cmd[p].file
Go(p, label) == at' = [at EXCEPT ![p] = label]
In(p, label, point) == at[p] = label /\ pc[p] = point
Fails(call) == call \in Failures

(* A routine is called and the command goes on at label once it returns.   *)
Call(p, point, label) == Goto(p, point) /\ Go(p, label)
Reads(op) == op \in {"readF", "readF_line", "readF_invalid", "writeT_line", "upload"}
Leave(p, label) == Call(p, IF pc[p] = "reading" THEN "rx_wait" ELSE "wx_reader", label)

(* A response is written to the client's FIFO; when that fails the process *)
(* calls exitFailure and is gone, with whatever it holds.                  *)
Gone(p) == Fails("client") /\ Go(p, "dead") /\ UNCHANGED <<pc, acked>>

(* A response after the lock is released ends the command.                 *)
Finish(p) ==
  \/ Go(p, "ready") /\ UNCHANGED <<pc, acked>>
  \/ Gone(p)

(* Mutant: an error path that forgets to leave the section.                *)
AbortKeepsLock(p) ==
  \/ Go(p, "ready") /\ UNCHANGED <<pc, acked>>
  \/ Gone(p)

(* An error response inside a section: respond, leave, next command.       *)
Abort(p) ==
  \/ Leave(p, "ready") /\ UNCHANGED acked
  \/ Gone(p)

-----------------------------------------------------------------------------
(* The command is read from the client's FIFO and parsed.                  *)
Request(p) ==
  /\ at[p] = "ready" /\ pc[p] \in {"idle", "reading"}
  /\ ops[p] < MaxOps
  /\ \E op \in Ops, n \in Names :
     \E k \in IF op \in {"readF_line", "writeT_line"} THEN LineNumbers ELSE {0} :
       /\ cmd' = [cmd EXCEPT ![p] = [op |-> op, file |-> n, line |-> k]]
       /\ Go(p, IF op = "download" THEN "dl_server" ELSE "get_file")
  /\ ops' = [ops EXCEPT ![p] = @ + 1]
  /\ buf' = [buf EXCEPT ![p] = << >>]
  /\ UNCHANGED <<lockVars, pc, sfile, fileVars, tableVars, acked, seen>>

(* get_file: the File of that name among the first sdir->size, if any.     *)
GetFile(p) ==
  LET found == {s \in Slots : s < size /\ name[s] = File(p)} IN
  /\ at[p] = "get_file"
  /\ IF found # {}
     THEN /\ sfile' = [sfile EXCEPT ![p] = CHOOSE s \in found : \A t \in found : s <= t]
          /\ Go(p, "enter")
     ELSE UNCHANGED sfile /\ Go(p, "init_check")
  /\ UNCHANGED <<lockVars, pc, fileVars, tableVars, cmdVars, seen>>

(* Mutant: the capacity is not looked at.                                  *)
InitFileCheckNone(p) ==
  /\ at[p] = "init_check"
  /\ Go(p, "init_slot")
  /\ UNCHANGED <<vars, fileVars, tableVars, cmdVars, seen>>

(* init_file: a full table makes the process give up (exitFailure).        *)
InitFileCheck(p) ==
  /\ at[p] = "init_check"
  /\ Go(p, IF size = Capacity THEN "dead" ELSE "init_slot")
  /\ UNCHANGED <<vars, fileVars, tableVars, cmdVars, seen>>

(* The slot at sdir->size gets the name and a fresh lock.                  *)
InitFileSlot(p) ==
  /\ at[p] = "init_slot"
  /\ size \in Slots
  /\ sfile' = [sfile EXCEPT ![p] = size]
  /\ name' = [name EXCEPT ![size] = File(p)]
  /\ reader_mutex' = [reader_mutex EXCEPT ![size] = 1]
  /\ writer_mutex' = [writer_mutex EXCEPT ![size] = 1]
  /\ reader_count' = [reader_count EXCEPT ![size] = 0]
  /\ Go(p, "init_load")
  /\ UNCHANGED <<pc, fileVars, size, cmdVars, seen>>

(* sdir->size += 1 is a load and a store.                                  *)
InitFileLoad(p) ==
  /\ at[p] = "init_load"
  /\ seen' = [seen EXCEPT ![p] = size]
  /\ Go(p, "init_store")
  /\ UNCHANGED <<vars, fileVars, tableVars, cmdVars>>

InitFileStore(p) ==
  /\ at[p] = "init_store"
  /\ size' = seen[p] + 1
  /\ Go(p, "enter")
  /\ UNCHANGED <<vars, fileVars, name, cmdVars, seen>>

Enter(p) ==
  /\ at[p] = "enter"
  /\ Call(p, IF Reads(Op(p)) THEN "re_wait" ELSE "we_writer",
          CASE Op(p) \in {"readF", "readF_line", "readF_invalid"} -> "rd_open"
            [] Op(p) = "writeT" -> "wa_open"
            [] Op(p) = "writeT_line" -> "wl_open"
            [] Op(p) = "upload" -> "up_open"
            [] Op(p) = "download" -> "dl_create")
  /\ UNCHANGED <<lockVars, sfile, fileVars, tableVars, cmdVars, seen>>

-----------------------------------------------------------------------------
(* readF: the file is opened in the read section.                          *)
ReadFOpen(p) ==
  /\ In(p, "rd_open", "reading")
  /\ \/ /\ cwd[File(p)] = NoFile \/ Fails("open")
        /\ Abort(p)
     \/ /\ cwd[File(p)] # NoFile
        /\ CASE Op(p) = "readF" -> Go(p, "rd_copy") /\ UNCHANGED <<pc, acked>>
             [] Op(p) = "readF_line" -> Go(p, "rd_line") /\ UNCHANGED <<pc, acked>>
             [] Op(p) = "readF_invalid" -> Abort(p)
  /\ UNCHANGED <<lockVars, sfile, fileVars, tableVars, cmd, buf, ops, seen>>

(* readF of a whole file: read and send until the end, or until a read     *)
(* fails, then reader_exit.                                                *)
ReadFCopy(p) ==
  /\ In(p, "rd_copy", "reading")
  /\ \/ /\ Len(buf[p]) < Len(cwd[File(p)])
        /\ buf' = [buf EXCEPT ![p] = Append(@, cwd[File(p)][Len(@) + 1])]
        /\ UNCHANGED <<pc, at, acked>>
     \/ /\ Len(buf[p]) >= Len(cwd[File(p)]) \/ Fails("read")
        /\ Leave(p, "ready")
        /\ UNCHANGED <<buf, acked>>
     \/ Gone(p) /\ UNCHANGED buf
  /\ UNCHANGED <<lockVars, sfile, fileVars, tableVars, cmd, ops, seen>>

(* readF with a line number.  The line found is sent and reader_exit       *)
(* called; a line that is not there is answered with an error or nothing.   *)
ReadFLine(p) ==
  /\ In(p, "rd_line", "reading")
  /\ \/ /\ Leave(p, IF cmd[p].line \in 1..Len(cwd[File(p)]) THEN "rd_exit" ELSE "ready")
        /\ UNCHANGED acked
     \/ /\ Fails("read")
        /\ Leave(p, "ready")
        /\ UNCHANGED acked
     \/ Gone(p)
  /\ UNCHANGED <<lockVars, sfile, fileVars, tableVars, cmd, buf, ops, seen>>

(* After the loop reader_exit is called, also when the loop has called it. *)
ReadFLineExit(p) ==
  /\ In(p, "rd_exit", "idle")
  /\ Call(p, "rx_wait", "ready")
  /\ UNCHANGED <<lockVars, sfile, fileVars, tableVars, cmdVars, seen>>

-----------------------------------------------------------------------------
(* writeT without a line: open with O_APPEND | O_CREAT, write, exit, and   *)
(* only then the response.                                                 *)
WriteTOpen(p) ==
  /\ In(p, "wa_open", "writing")
  /\ \/ /\ cwd' = [cwd EXCEPT ![File(p)] = IF @ = NoFile THEN << >> ELSE @]
        /\ Go(p, "wa_write")
        /\ UNCHANGED <<pc, acked>>
     \/ Fails("open") /\ Abort(p) /\ UNCHANGED cwd
  /\ UNCHANGED <<lockVars, sfile, srv, tableVars, cmd, buf, ops, seen>>

(* The string and its newline are two writes: when the second fails the    *)
(* string is in the file all the same.                                     *)
WriteTAppend(p) ==
  LET appended == [cwd EXCEPT ![File(p)] = Append(@, p)] IN
  /\ In(p, "wa_write", "writing")
  /\ \/ /\ cwd' = appended
        /\ Leave(p, "wa_ack")
        /\ UNCHANGED acked
     \/ Fails("write") /\ Abort(p) /\ cwd' \in {cwd, appended}
  /\ UNCHANGED <<lockVars, sfile, srv, tableVars, cmd, buf, ops, seen>>

WriteTAck(p) ==
  /\ In(p, "wa_ack", "idle")
  /\ \/ Go(p, "ready") /\ acked' = acked \cup {<<File(p), p>>}
        /\ UNCHANGED pc
     \/ Gone(p)
  /\ UNCHANGED <<lockVars, sfile, fileVars, tableVars, cmd, buf, ops, seen>>

(* writeT with a line: under the read lock the file is copied to a         *)
(* temporary file with that line replaced.  Without a temporary file the   *)
(* command ends here, in the read section; and when the command had no     *)
(* string after the line number, so does the process, in fputs(NULL).      *)
WriteTLineCopy(p) ==
  LET placed == cmd[p].line \in 1..Len(cwd[File(p)]) IN
  /\ In(p, "wl_open", "reading")
  /\ \/ /\ cwd[File(p)] = NoFile \/ Fails("open")
        /\ Abort(p)
        /\ UNCHANGED buf
     \/ /\ cwd[File(p)] # NoFile
        /\ Fails("tmpfile")
        /\ Finish(p)
        /\ UNCHANGED buf
     \/ /\ cwd[File(p)] # NoFile
        /\ placed /\ Fails("string")
        /\ Go(p, "dead")
        /\ UNCHANGED <<pc, acked, buf>>
     \/ /\ cwd[File(p)] # NoFile
        /\ buf' = [buf EXCEPT ![p] = IF placed THEN [cwd[File(p)] EXCEPT ![cmd[p].line] = "new"]
                                     ELSE cwd[File(p)]]
        /\ Leave(p, IF placed THEN "wl_enter" ELSE "wl_short")
        /\ acked' = IF placed THEN acked \ {<<File(p), cwd[File(p)][cmd[p].line]>>} ELSE acked
  /\ UNCHANGED <<lockVars, sfile, fileVars, tableVars, cmd, ops, seen>>

WriteTLineShort(p) ==
  /\ In(p, "wl_short", "idle")
  /\ Finish(p)
  /\ UNCHANGED <<lockVars, sfile, fileVars, tableVars, cmd, buf, ops, seen>>

WriteTLineEnter(p) ==
  /\ In(p, "wl_enter", "idle")
  /\ Call(p, "we_writer", "wl_trunc")
  /\ UNCHANGED <<lockVars, sfile, fileVars, tableVars, cmdVars, seen>>

(* fopen "w+" empties the file, then the temporary file is copied back.    *)
WriteTLineTrunc(p) ==
  /\ In(p, "wl_trunc", "writing")
  /\ \/ /\ cwd' = [cwd EXCEPT ![File(p)] = << >>]
        /\ Go(p, "wl_back")
        /\ UNCHANGED <<pc, acked>>
     \/ Fails("open") /\ Abort(p) /\ UNCHANGED cwd
  /\ UNCHANGED <<lockVars, sfile, srv, tableVars, cmd, buf, ops, seen>>

(* Mutant: the temporary file is not rewound, so nothing is copied back.   *)
WriteTLineBackNoRewind(p) ==
  /\ In(p, "wl_back", "writing")
  /\ Leave(p, "wl_ack")
  /\ UNCHANGED <<lockVars, sfile, fileVars, tableVars, cmdVars, seen>>

(* Nobody looks at what fputs returns.                                     *)
WriteTLineBack(p) ==
  /\ In(p, "wl_back", "writing")
  /\ \/ cwd' = [cwd EXCEPT ![File(p)] = buf[p]]
     \/ Fails("fputs") /\ UNCHANGED cwd
  /\ Leave(p, "wl_ack")
  /\ UNCHANGED <<lockVars, sfile, srv, tableVars, cmdVars, seen>>

WriteTLineAck(p) ==
  /\ In(p, "wl_ack", "idle")
  /\ Finish(p)
  /\ UNCHANGED <<lockVars, sfile, fileVars, tableVars, cmd, buf, ops, seen>>

-----------------------------------------------------------------------------
(* upload: the file must be there, and not yet in the server directory.    *)
UploadOpen(p) ==
  /\ In(p, "up_open", "reading")
  /\ \/ /\ cwd[File(p)] = NoFile \/ srv[File(p)] # NoFile \/ Fails("open")
        /\ Abort(p)
     \/ /\ cwd[File(p)] # NoFile /\ srv[File(p)] = NoFile
        /\ Go(p, "up_create")
        /\ UNCHANGED <<pc, acked>>
  /\ UNCHANGED <<lockVars, sfile, fileVars, tableVars, cmd, buf, ops, seen>>

(* Mutant: open with O_CREAT alone, as download does.                      *)
UploadCreateShares(p) ==
  /\ In(p, "up_create", "reading")
  /\ srv' = [srv EXCEPT ![File(p)] = IF @ = NoFile THEN << >> ELSE @]
  /\ Go(p, "up_copy")
  /\ UNCHANGED <<pc, acked>>
  /\ UNCHANGED <<lockVars, sfile, cwd, tableVars, cmd, buf, ops, seen>>

(* open with O_CREAT | O_EXCL.                                             *)
UploadCreate(p) ==
  /\ In(p, "up_create", "reading")
  /\ \/ /\ srv[File(p)] = NoFile
        /\ srv' = [srv EXCEPT ![File(p)] = << >>]
        /\ Go(p, "up_copy")
        /\ UNCHANGED <<pc, acked>>
     \/ /\ srv[File(p)] # NoFile \/ Fails("open")
        /\ Abort(p)
        /\ UNCHANGED srv
  /\ UNCHANGED <<lockVars, sfile, cwd, tableVars, cmd, buf, ops, seen>>

(* Line buf + 1 is copied, or the end is reached and reader_exit called; a *)
(* read that fails looks like the end.                                     *)
UploadCopy(p) ==
  LET from == cwd[File(p)]
      k == Len(buf[p]) + 1 IN
  /\ In(p, "up_copy", "reading")
  /\ \/ /\ k <= Len(from)
        /\ buf' = [buf EXCEPT ![p] = Append(@, from[k])]
        /\ srv' = [srv EXCEPT ![File(p)] = Append(@, from[k])]
        /\ UNCHANGED <<pc, at, acked>>
     \/ /\ k > Len(from) \/ Fails("read")
        /\ Leave(p, "up_ack")
        /\ UNCHANGED <<buf, srv, acked>>
     \/ /\ k <= Len(from)
        /\ Fails("write")
        /\ Abort(p)
        /\ UNCHANGED <<buf, srv>>
  /\ UNCHANGED <<lockVars, sfile, cwd, tableVars, cmd, ops, seen>>

(* Mutant: reader_exit a second time, as after the loop of readF.          *)
UploadAckExits(p) ==
  /\ In(p, "up_ack", "idle")
  /\ Call(p, "rx_wait", "ready") /\ UNCHANGED acked
  /\ UNCHANGED <<lockVars, sfile, fileVars, tableVars, cmd, buf, ops, seen>>

UploadAck(p) ==
  /\ In(p, "up_ack", "idle")
  /\ Finish(p)
  /\ UNCHANGED <<lockVars, sfile, fileVars, tableVars, cmd, buf, ops, seen>>

-----------------------------------------------------------------------------
(* download: the file must be in the server directory,                     *)
DownloadServer(p) ==
  /\ at[p] = "dl_server"
  /\ \/ srv[File(p)] = NoFile /\ Finish(p)
     \/ Fails("open") /\ Finish(p)
     \/ srv[File(p)] # NoFile /\ Go(p, "dl_local") /\ UNCHANGED <<pc, acked>>
  /\ UNCHANGED <<lockVars, sfile, fileVars, tableVars, cmd, buf, ops, seen>>

(* and not in the working directory, as far as access() can tell before    *)
(* any lock is taken.                                                      *)
DownloadLocal(p) ==
  /\ at[p] = "dl_local"
  /\ \/ cwd[File(p)] # NoFile /\ Finish(p)
     \/ cwd[File(p)] = NoFile /\ Go(p, "get_file") /\ UNCHANGED <<pc, acked>>
  /\ UNCHANGED <<lockVars, sfile, fileVars, tableVars, cmd, buf, ops, seen>>

(* open with O_CREAT, neither O_EXCL nor O_TRUNC.                          *)
DownloadCreate(p) ==
  /\ In(p, "dl_create", "writing")
  /\ \/ /\ cwd' = [cwd EXCEPT ![File(p)] = IF @ = NoFile THEN << >> ELSE @]
        /\ Go(p, "dl_copy")
        /\ UNCHANGED <<pc, acked>>
     \/ Fails("open") /\ Abort(p) /\ UNCHANGED cwd
  /\ UNCHANGED <<lockVars, sfile, srv, tableVars, cmd, buf, ops, seen>>

(* Line k of the server's file goes to position k of the new file.         *)
DownloadCopy(p) ==
  LET from == srv[File(p)]
      k == Len(buf[p]) + 1 IN
  /\ In(p, "dl_copy", "writing")
  /\ \/ /\ k <= Len(from)
        /\ buf' = [buf EXCEPT ![p] = Append(@, from[k])]
        /\ cwd' = [cwd EXCEPT ![File(p)] = IF k <= Len(@) THEN [@ EXCEPT ![k] = from[k]]
                                           ELSE Append(@, from[k])]
        /\ UNCHANGED <<pc, at, acked>>
     \/ /\ k > Len(from) \/ Fails("read")
        /\ Leave(p, "dl_ack")
        /\ UNCHANGED <<buf, cwd, acked>>
     \/ /\ k <= Len(from)
        /\ Fails("write")
        /\ Abort(p)
        /\ UNCHANGED <<buf, cwd>>
  /\ UNCHANGED <<lockVars, sfile, srv, tableVars, cmd, ops, seen>>

DownloadAck(p) ==
  /\ In(p, "dl_ack", "idle")
  /\ Finish(p)
  /\ UNCHANGED <<lockVars, sfile, fileVars, tableVars, cmd, buf, ops, seen>>

-----------------------------------------------------------------------------
(* A step inside a lock routine changes nothing of the command.            *)
LockStep(p) ==
  /\ RoutineStep(p)
  /\ UNCHANGED <<fileVars, tableVars, cmdVars, at, seen>>

ReadF(p) == ReadFOpen(p) \/ ReadFCopy(p) \/ ReadFLine(p) \/ ReadFLineExit(p)
WriteT(p) ==
  \/ WriteTOpen(p) \/ WriteTAppend(p) \/ WriteTAck(p)
  \/ WriteTLineCopy(p) \/ WriteTLineShort(p) \/ WriteTLineEnter(p)
  \/ WriteTLineTrunc(p) \/ WriteTLineBack(p) \/ WriteTLineAck(p)
Upload(p) == UploadOpen(p) \/ UploadCreate(p) \/ UploadCopy(p) \/ UploadAck(p)
Download(p) ==
  \/ DownloadServer(p) \/ DownloadLocal(p) \/ DownloadCreate(p)
  \/ DownloadCopy(p) \/ DownloadAck(p)
Table(p) ==
  \/ GetFile(p) \/ InitFileCheck(p) \/ InitFileSlot(p)
  \/ InitFileLoad(p) \/ InitFileStore(p)

FileNext ==
  \E p \in Procs :
    \/ Request(p) \/ Table(p) \/ Enter(p) \/ LockStep(p)
    \/ ReadF(p) \/ WriteT(p) \/ Upload(p) \/ Download(p)

FileSpec == FileInit /\ [][FileNext]_allVars

-----------------------------------------------------------------------------
Labels ==
  {"ready", "dead", "get_file", "init_check", "init_slot", "init_load", "init_store", "enter",
   "rd_open", "rd_copy", "rd_line", "rd_exit", "wa_open", "wa_write", "wa_ack", "wl_open",
   "wl_short", "wl_enter", "wl_trunc", "wl_back", "wl_ack", "up_open", "up_create", "up_copy",
   "up_ack", "dl_server", "dl_local", "dl_create", "dl_copy", "dl_ack"}

FileTypeOK ==
  /\ LockTypeOK
  /\ size \in Nat /\ name \in [Slots -> Names \cup {""}]
  /\ cwd \in [Names -> {NoFile} \cup Contents]
  /\ srv \in [Names -> {NoFile} \cup Contents]
  /\ at \in [Procs -> Labels]
  /\ cmd \in [Procs -> Commands]
  /\ buf \in [Procs -> Contents]
  /\ seen \in [Procs -> Nat]
  /\ acked \subseteq Names \X Procs
  /\ ops \in [Procs -> 0..MaxOps]

(***************************************************************************)
(* Document.pdf 3: "If there is a writer, there can't be any more writers  *)
(* or readers."  While one process is in a write section for a file, no    *)
(* other is in a section for the same file, whatever slot it found for it. *)
(***************************************************************************)
FileExclusion ==
  \A p, q \in Procs :
    p # q /\ File(p) = File(q) /\ pc[p] = "writing" /\ at[p] # "dead" /\ at[q] # "dead"
      => pc[q] \notin {"reading", "writing"}

(***************************************************************************)
(* sync.c 58: "Shared memory file capacity reached, cant add more".  The   *)
(* table never counts more records than it has room for.                   *)
(***************************************************************************)
TableWithinCapacity == size <= Capacity

(***************************************************************************)
(* Neither end of a copy changes under the command that copies: what readF *)
(* has sent, upload has stored and download has fetched so far is the      *)
(* beginning of the file it reads, and of the file it writes, as they are  *)
(* now.                                                                    *)
(***************************************************************************)
Stable(p) ==
  /\ at[p] = "rd_copy" => IsPrefix(buf[p], cwd[File(p)])
  /\ at[p] = "up_copy" => /\ IsPrefix(buf[p], cwd[File(p)])
                          /\ srv[File(p)] = buf[p]
  /\ at[p] = "dl_copy" => /\ IsPrefix(buf[p], srv[File(p)])
                          /\ IsPrefix(buf[p], cwd[File(p)])
ReadersSeeStableFile == \A p \in Procs : Stable(p)

(***************************************************************************)
(* A line writeT reported as "Succesfully written into the file" at the    *)
(* end of a file, and that no later command replaced, is in the file,      *)
(* unless the file is being rewritten right now.                           *)
(***************************************************************************)
AckedAppendsKept ==
  \A n \in Names, p \in Procs :
    <<n, p>> \in acked =>
      \/ \E i \in DOMAIN cwd[n] : cwd[n][i] = p
      \/ \E q \in Procs : at[q] = "wl_back" /\ File(q) = n

(***************************************************************************)
(* sync.c 39: "Last reader, allow writers".  When no process is handling a *)
(* command and none has given up, every File's lock is free again.         *)
(***************************************************************************)
FreeBetweenCommands ==
  (\A p \in Procs : at[p] = "ready" /\ pc[p] \in {"idle", "reading"})
    => \A s \in Slots : s < size =>
         reader_count[s] = 0 /\ reader_mutex[s] = 1 /\ writer_mutex[s] = 1

-----------------------------------------------------------------------------
(* What makes that inductive, when every file of the table was registered  *)
(* by initialize() and no command leaves a section twice (readF of a line) *)
(* or not at all (writeT of a line without a temporary file).              *)
AllRegistered ==
  Slots = 0..Len(Registered) - 1 /\ \A n \in Names : \E k \in DOMAIN Registered : Registered[k] = n
Paired == "readF_line" \notin Ops /\ "tmpfile" \notin Failures

Outside == {"get_file", "enter", "dl_server", "dl_local"}
ReadEntry == {"rd_open", "wl_open", "up_open"}
ReadBody == {"rd_copy", "up_create", "up_copy"}
WriteEntry == {"wa_open", "wl_trunc", "dl_create"}
WriteBody == {"wa_write", "wl_back", "dl_copy"}
Left == {"ready", "wa_ack", "wl_short", "wl_enter", "wl_ack", "up_ack", "dl_ack"}
Copies == ReadBody \cup WriteBody
HasSlot == {"enter", "wl_enter"} \cup ReadEntry \cup WriteEntry \cup Copies
NothingCopied == Outside \cup {"rd_open", "up_open", "up_create", "dl_create"}
Downloading == {"dl_local", "get_file", "enter", "dl_create", "dl_copy"}

(* Where a command is tells where it is in the lock; a command in, or on   *)
(* its way into, a section has the slot of its file.                       *)
Placed(label, point, command, found) ==
  /\ label \in Outside \/ label \in HasSlot \/ label \in Left \/ label = "dead"
  /\ label \in Outside => point = "idle"
  /\ label \in ReadEntry => point \in {"re_wait", "re_block", "re_post", "reading"}
  /\ label \in ReadBody => point = "reading"
  /\ label \in WriteEntry => point \in {"we_writer", "we_reader", "writing"}
  /\ label \in WriteBody => point = "writing"
  /\ label \in Left => point \in {"idle", "rx_wait", "rx_post", "wx_reader", "wx_writer"}
  /\ label \in HasSlot => found = command.file
  /\ label \notin {"ready", "dead"} => command.op \in Ops
  /\ label = "rd_open" => command.op \in {"readF", "readF_invalid"}
  /\ label \in {"dl_server", "dl_local", "dl_create", "dl_copy"} => command.op = "download"

PlacesOK ==
  /\ size = Len(Registered) /\ name = [s \in Slots |-> Registered[s + 1]]
  /\ \A p \in Procs : Placed(at[p], pc[p], cmd[p], name[sfile[p]])

(* The files a command copies from and to exist, it begins with nothing    *)
(* copied, and two uploads of a file do not meet.                          *)
Copying(p) ==
  /\ at[p] \in NothingCopied => buf[p] = << >>
  /\ at[p] \in Copies => cwd[File(p)] # NoFile
  /\ at[p] \in Downloading /\ Op(p) = "download" => srv[File(p)] # NoFile

CopiesOK ==
  /\ \A p \in Procs : Copying(p)
  /\ \A p, q \in Procs :
       at[p] = "up_copy" /\ at[q] = "up_copy" /\ File(p) = File(q) => p = q

(***************************************************************************)
(* The inductive invariant of the commands, with LockInv for the lock and  *)
(* ReadersSeeStableFile for what has been copied.                          *)
(***************************************************************************)
CommandInv == FileTypeOK /\ PlacesOK /\ CopiesOK
=============================================================================
