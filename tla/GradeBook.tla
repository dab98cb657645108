------------------------------ MODULE GradeBook ------------------------------
(***************************************************************************)
(* What the student grades shell promises: a book keeps its entries in the *)
(* order in which they were added, and each command that says it was       *)
(* carried out shows what that command should show of its book.            *)
(***************************************************************************)
EXTENDS Naturals, Sequences, FiniteSets

CONSTANTS
  Books, Names, Grades, NoBook,
  LongNames,     \* names that fill a line: a book with one is not paged right
  Cut(_),        \* a name as the sorts take it, and show it
  Numbers        \* of entries, and of pages

VARIABLES
  book,      \* the entries of each book, or NoBook
  call,      \* the last command that was carried out, or that one was refused
  answer     \* the entries it showed

bookVars == <<book, call, answer>>

Refused == <<"refused">>
BookInit == book = [b \in Books |-> NoBook] /\ call = Refused /\ answer = << >>

Exists(b) == book[b] # NoBook
Asked(b, command) == call' = command /\ Exists(b) /\ UNCHANGED book

(* Who is refused is told so, and nothing has happened.                    *)
Refuse == call' = Refused /\ answer' = << >> /\ UNCHANGED book

Open(b) ==
  /\ call' = <<"create", b>> /\ answer' = << >>
  /\ book' = [book EXCEPT ![b] = IF Exists(b) THEN @ ELSE << >>]

Add(b, s) ==
  /\ call' = <<"add", b, s>> /\ answer' = << >>
  /\ Exists(b) /\ book' = [book EXCEPT ![b] = Append(@, s)]

(* The first entry of that name; nothing only if there is none.            *)
Find(b, n) ==
  /\ Asked(b, <<"search", b, n>>)
  /\ \/ /\ \A k \in DOMAIN book[b] : book[b][k].name # n
        /\ answer' = << >>
     \/ \E k \in DOMAIN book[b] :
          /\ book[b][k].name = n /\ \A j \in 1..(k - 1) : book[b][j].name # n
          /\ answer' = <<book[b][k]>>

(* Who goes first?  The orders 1 and 3, which the shell calls ascending,   *)
(* begin with the last.                                                    *)
Goes(choice, s, t) ==
  \/ choice = 1 /\ s.name > t.name
  \/ choice = 2 /\ s.name < t.name
  \/ choice = 3 /\ s.grade > t.grade
  \/ choice = 4 /\ s.grade < t.grade

(* Each entry is shown, in the order chosen, behind those that go before   *)
(* it; entries that compare equal stay in the order of the book.           *)
Place(s, k, choice) ==
  1 + Cardinality({j \in DOMAIN s : Goes(choice, s[j], s[k]) \/ (j < k /\ ~Goes(choice, s[k], s[j]))})
Sort(b, choice) ==
  /\ Asked(b, <<"sort", b, choice>>)
  /\ LET entries == book[b]
         short == SubSeq([k \in DOMAIN entries |-> [entries[k] EXCEPT !.name = Cut(@)]], 1, Len(entries))
         sorted == answer'
     IN  /\ Len(sorted) = Len(entries)
         /\ \A k \in DOMAIN entries : sorted[Place(short, k, choice)] = short[k]

Paged(b) == \A k \in DOMAIN book[b] : book[b][k].name \notin LongNames
Entries(b, from, to) == SubSeq(book[b], from, IF to > Len(book[b]) THEN Len(book[b]) ELSE to)
Page(b, n, p) ==
  /\ Asked(b, <<"page", b, n, p>>)
  /\ Paged(b) => answer' = Entries(b, (p - 1) * n + 1, p * n)
All(b) == Asked(b, <<"all", b>>) /\ answer' = book[b]

BookNext ==
  \/ Refuse
  \/ \E b \in Books :
       \/ Open(b) \/ All(b)
       \/ \E choice \in 1..4 : Sort(b, choice)
       \/ \E n \in Names : Find(b, n)
       \/ \E n \in Names, g \in Grades : Add(b, [name |-> n, grade |-> g])
       \/ \E n, p \in Numbers : Page(b, n, p)

BookSpec == BookInit /\ [][BookNext]_bookVars
=============================================================================
