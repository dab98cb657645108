--------------------------- MODULE StudentGrades ---------------------------
(***************************************************************************)
(* HW1: the shell of student grades.  Each command is run by a child for   *)
(* which the shell waits, so a command is one step.  A file is a sequence  *)
(* of cells: the text of an entry, and what ends it.  Names and grades are *)
(* numbers, in the order of strcmp.                                        *)
(***************************************************************************)
EXTENDS Integers, SequencesExt

CONSTANTS
  Files, NoFile,
  NL, NUL,         \* what can follow an entry: a newline, a 0
  DefaultFile,     \* "default.txt"
  Names, Grades,   \* what the user enters
  LongNames,       \* names of 30 characters: the line has no room for its end
  Numbers,         \* of entries and of pages
  MaxEntries,      \* bound: a user's entries in a file
  MaxFaults,       \* bound on the calls that fail on a file that is there
  Demo             \* the entries that defaultTest adds

VARIABLES
  files,           \* the cells of each file, or NoFile
  filename,        \* the file that addStudentGrade and searchStudent use
  call,            \* what was done last, or Refused: an error was printed
  shown,           \* the cells the last child printed
  shell,           \* "prompt", "sort" (which order?), "exited"
  demo,            \* the calls of defaultTest still to come
  faults           \* how many calls have failed so

gradesVars == <<files, filename, call, shown, shell, demo, faults>>

IsEntry(cell) == cell \notin {NL, NUL}
Refused == <<"refused">>

GradesInit ==
  /\ files = [f \in Files |-> NoFile] /\ filename = NoFile
  /\ call = Refused /\ shown = << >> /\ shell = "prompt"
  /\ demo = << >> /\ faults = 0

Exists(f) == f # NoFile /\ files[f] # NoFile

-----------------------------------------------------------------------------
(* What the children do to the file f.  Each opens it first.               *)

Prints(command, cells) == call' = command /\ shown' = cells
Error == Prints(Refused, << >>) /\ UNCHANGED files
Fails(f) ==
  /\ Error
  /\ Exists(f) => faults < MaxFaults
  /\ faults' = faults + (IF Exists(f) THEN 1 ELSE 0)

Reads(f, command, cells) ==
  \/ Exists(f) /\ Prints(command, cells) /\ UNCHANGED <<files, faults>>
  \/ Fails(f)

createFile(f) ==
  \/ /\ files' = [files EXCEPT ![f] = IF @ = NoFile THEN << >> ELSE @]
     /\ Prints(<<"create", f>>, << >>) /\ UNCHANGED faults
  \/ Fails(f)

(* The buffer cuts off the end of a line with a long name, and the 0 that  *)
(* snprintf puts there is written in its place.                            *)
Line(s) == <<s, IF s.name \in LongNames THEN NUL ELSE NL>>

(* The write fails with nothing written, or the file is not there.         *)
addStudentGrade(f, s) ==
  \/ /\ Exists(f) /\ files' = [files EXCEPT ![f] = @ \o Line(s)]
     /\ Prints(<<"add", f, s>>, << >>) /\ UNCHANGED faults
  \/ Fails(f)

(* The readers' lines: a full buffer ends one, whatever comes next.        *)
Students(f) == SelectSeq(files[f], IsEntry)

searchStudent(f, name) ==
  LET found == SelectSeq(Students(f), LAMBDA s : s.name = name)
  IN  Reads(f, <<"search", f, name>>, SubSeq(found, 1, IF found = << >> THEN 0 ELSE 1))

(* Is the pair of neighbours exchanged?  "Ascending" puts the last first.  *)
Exchanged(choice, s, t) ==
  CASE choice = 1 -> s.name < t.name
    [] choice = 2 -> s.name > t.name
    [] choice = 3 -> s.grade < t.grade
    [] choice = 4 -> s.grade > t.grade

(* The bubble sorts: pass i goes over the first length - i neighbours.     *)
Compared(data, choice, j) ==
  IF Exchanged(choice, data[j], data[j + 1])
  THEN [data EXCEPT ![j] = data[j + 1], ![j + 1] = data[j]] ELSE data
Sorted(data, choice) ==
  LET Pass(d, i) ==
        LET to[j \in 0..(Len(d) - i)] == IF j = 0 THEN d ELSE Compared(to[j - 1], choice, j)
        IN  to[Len(d) - i]
      after[i \in 0..Len(data)] == IF i = 0 THEN data ELSE Pass(after[i - 1], i)
  IN  after[Len(data)]

(* Of a long name strncpy takes 29 characters: the name right before it.   *)
Cut(name) == IF name \in LongNames THEN name - 1 ELSE name

sortAll(f, choice) ==
  LET Copied(students, s) == Append(students, [s EXCEPT !.name = Cut(@)])
      students == FoldLeft(Copied, << >>, Students(f))
  IN  Reads(f, <<"sort", f, choice>>, Sorted(students, choice))

showAll(f) == Reads(f, <<"all", f>>, files[f])

(* The loop goes on up to the line upto, and prints some of what it reads. *)
Chosen(cells, From(_), upto) ==
  LET Seen(at, cell) ==
        LET line == at.line + (IF cell = NL THEN 1 ELSE 0) IN
          IF at.line >= upto THEN at
          ELSE [line |-> line, printed |-> IF From(line) THEN Append(at.printed, cell) ELSE at.printed]
      upTo[k \in 0..Len(cells)] ==
        IF k = 0 THEN [line |-> 0, printed |-> << >>] ELSE Seen(upTo[k - 1], cells[k])
  IN  upTo[Len(cells)].printed

(* The first page, of five lines.                                          *)
listGrades(f) == Reads(f, <<"page", f, 5, 1>>, Chosen(files[f], LAMBDA line : TRUE, 5))

(* Mutant: the page begins one line late.                                  *)
FromPageLate(line, n, p) == line > n * p - n
(* The page begins with the newline before its first line.                 *)
FromPage(line, n, p) == line >= n * p - n

listSome(n, p, f) ==
  Reads(f, <<"page", f, n, p>>, Chosen(files[f], LAMBDA line : FromPage(line, n, p), n * p))

-----------------------------------------------------------------------------
(* The shell.                                                              *)

Prompt == shell = "prompt" /\ demo = << >>
Stays == UNCHANGED <<shell, demo>>

(* gtuStudentGrades, and the commands that show a file, remember its name, *)
(* whether it can be opened or not.                                        *)
Create(f) == Prompt /\ createFile(f) /\ filename' = f /\ Stays
Add(s) ==
  /\ Prompt
  /\ Exists(filename) => Len(Students(filename)) < MaxEntries
  /\ addStudentGrade(filename, s) /\ UNCHANGED filename /\ Stays
Search(name) == Prompt /\ searchStudent(filename, name) /\ UNCHANGED filename /\ Stays
ShowAll(f) == Prompt /\ showAll(f) /\ filename' = f /\ Stays
ListGrades(f) == Prompt /\ listGrades(f) /\ filename' = f /\ Stays
ListSome(n, p, f) == Prompt /\ listSome(n, p, f) /\ filename' = f /\ Stays

(* sortAll first asks for the order, until it is one of four.              *)
AskOrder(f) ==
  /\ Prompt /\ shell' = "sort" /\ filename' = f
  /\ UNCHANGED <<files, call, shown, demo, faults>>
Order(choice) ==
  /\ shell = "sort" /\ sortAll(filename, choice)
  /\ shell' = "prompt" /\ UNCHANGED <<filename, demo>>

(* fork fails: create, add, search and sort exit; the listings return.     *)
ForkFails ==
  /\ shell # "exited" /\ Error /\ UNCHANGED faults
  /\ \/ shell' = "exited" /\ demo' = << >> /\ UNCHANGED filename
     \/ Prompt /\ filename' \in Files /\ Stays
     \/ /\ shell = "prompt" /\ demo # << >> /\ Head(demo).call \in {"show", "five"}
        /\ demo' = Tail(demo) /\ UNCHANGED <<filename, shell>>

Quit == Prompt /\ shell' = "exited" /\ UNCHANGED <<files, filename, call, shown, demo, faults>>

(* defaultTest does not go through the commands' checks, and leaves the    *)
(* remembered name as it is.  Of its searches, sorts and pages, which are  *)
(* the commands', some are left out.                                       *)
Calls(names) == [k \in DOMAIN names |-> [call |-> names[k]]]
DefaultTest ==
  /\ Prompt
  /\ Exists(DefaultFile) => Len(Students(DefaultFile)) <= MaxEntries
  /\ demo' = Calls(<<"create">>)
             \o [k \in DOMAIN Demo |-> [call |-> "add", student |-> Demo[k]]]
             \o Calls(<<"search", "sort", "sort", "show", "five">>)
  /\ UNCHANGED <<files, filename, call, shown, shell, faults>>

DemoCall ==
  /\ shell = "prompt" /\ demo # << >> /\ demo' = Tail(demo)
  /\ LET next == Head(demo).call IN
       CASE next = "create" -> createFile(DefaultFile)
         [] next = "add" -> addStudentGrade(DefaultFile, Head(demo).student)
         [] next = "search" -> searchStudent(DefaultFile, Demo[1].name)
         [] next = "sort" -> \E choice \in 1..4 : sortAll(DefaultFile, choice)
         [] next = "show" -> showAll(DefaultFile)
         [] next = "five" -> listGrades(DefaultFile)
  /\ UNCHANGED <<filename, shell>>

GradesNext ==
  \/ Quit \/ DefaultTest \/ DemoCall \/ ForkFails
  \/ \E n \in Names : Search(n) \/ \E g \in Grades : Add([name |-> n, grade |-> g])
  \/ \E choice \in 1..4 : Order(choice)
  \/ \E f \in Files :
       \/ Create(f) \/ ShowAll(f) \/ ListGrades(f) \/ AskOrder(f)
       \/ \E n, p \in Numbers : ListSome(n, p, f)

GradesSpec == GradesInit /\ [][GradesNext]_gradesVars

-----------------------------------------------------------------------------
(***************************************************************************)
(* The shell is the book of GradeBook: what is added is kept, in order,    *)
(* through every command, and a command that does not print an error shows *)
(* what it should: a search the first of that name, and nothing only if    *)
(* there is none; a sort all entries in the order chosen, equal ones as in *)
(* the file; a page its entries and no other.  So also with a name that    *)
(* leaves no room for the end of its line, but for the pages, and the      *)
(* sorts take 29 characters of it.                                         *)
(***************************************************************************)
Book == INSTANCE GradeBook WITH
  Books <- Files,
  NoBook <- NoFile,
  Numbers <- Numbers \cup {1, 5},
  Names <- Names \cup {Demo[k].name : k \in DOMAIN Demo},
  Grades <- Grades \cup {Demo[k].grade : k \in DOMAIN Demo},
  book <- [f \in Files |-> IF files[f] = NoFile THEN NoFile ELSE Students(f)],
  answer <- SelectSeq(shown, IsEntry)

ImplementsBook == Book!BookSpec
=============================================================================
