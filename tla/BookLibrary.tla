----------------------------- MODULE BookLibrary -----------------------------
(***************************************************************************)
(* The library of BaselineProject: books with a number of copies, and      *)
(* students who take them out and bring them back.  One user at a console. *)
(***************************************************************************)
EXTENDS Integers, Functions

CONSTANTS
    Books,      \* the lines of books.txt: their isbn and stock
    Students,   \* the lines of students.txt: the texts of their ids
    Typed,      \* what the user types for an id or an isbn
    Number,     \* Number[id]: the number an id's text stands for
    Uint        \* the values of quantity, 2 ^ 32

VARIABLES
    quantity,   \* the copies of each book in the library
    held,       \* how often each book is in a student's bookList
    running     \* is the program there?

vars == <<quantity, held, running>>

\* Library::studentExists: compares numbers.
StudentExists(id) == \E i \in DOMAIN Students : Number[Students[i]] = Number[id]
\* Library::getStudentByID and getBookByISBN: compare texts, and may find none.
GetStudentByID(id) == {i \in DOMAIN Students : /\ Students[i] = id
                                               /\ \A j \in 1 .. i - 1 : Students[j] # id}
GetBookByISBN(isbn) == {b \in DOMAIN Books : /\ Books[b].isbn = isbn
                                             /\ \A j \in 1 .. b - 1 : Books[j].isbn # isbn}

\* Mutant: any book of the library can be brought back.
HasAnyBook(i, b) == TRUE
\* Student::hasBook.
HasBook(i, b) == held[i][b] > 0

\* A null pointer is followed.
Crash == running' = FALSE /\ UNCHANGED <<quantity, held>>

\* Library::checkInBook, of which Student::removeBook takes out every copy, and checkOutBook.
CheckInBook(b, i) ==
    /\ held' = [held EXCEPT ![i][b] = 0]
    /\ quantity' = [quantity EXCEPT ![b] = (@ + 1) % Uint]
    /\ UNCHANGED running
CheckOutBook(b, i) ==
    /\ held' = [held EXCEPT ![i][b] = @ + 1]
    /\ quantity' = [quantity EXCEPT ![b] = (@ + Uint - 1) % Uint]
    /\ UNCHANGED running

\* Case 2.
CheckIn(id, isbn) ==
    /\ running /\ StudentExists(id)
    /\ \/ GetStudentByID(id) = {} /\ Crash
       \/ \E i \in GetStudentByID(id) : \E b \in GetBookByISBN(isbn) :
            /\ HasBook(i, b)
            /\ CheckInBook(b, i)

\* Case 3.  The book is looked at first, then the student.
CheckOut(id, isbn) ==
    /\ running /\ StudentExists(id)
    /\ \/ GetBookByISBN(isbn) = {} /\ Crash
       \/ \E b \in GetBookByISBN(isbn) :
            /\ quantity[b] # 0
            /\ \/ GetStudentByID(id) = {} /\ Crash
               \/ \E i \in GetStudentByID(id) : CheckOutBook(b, i)

Init ==
    /\ quantity = [b \in DOMAIN Books |-> Books[b].stock]
    /\ held = [i \in DOMAIN Students |-> [b \in DOMAIN Books |-> 0]]
    /\ running = TRUE

Next == \E id, isbn \in Typed : id \in DOMAIN Number /\ (CheckIn(id, isbn) \/ CheckOut(id, isbn))
-----------------------------------------------------------------------------
TypeOK ==
    /\ quantity \in [DOMAIN Books -> 0 .. Uint - 1]
    /\ held \in [DOMAIN Students -> [DOMAIN Books -> Nat]]
    /\ running \in BOOLEAN

Copies(b) == quantity[b] + SumFunctionOnSet([i \in DOMAIN Students |-> held[i][b]], DOMAIN Students)

\* No copies come from nowhere, whatever is borrowed and returned, several copies of a book
\* and books with one isbn included.  (Copies get lost: a student who returns one of two
\* gives up both.)
CopiesConserved == \A b \in DOMAIN Books : Copies(b) <= Books[b].stock
=============================================================================
