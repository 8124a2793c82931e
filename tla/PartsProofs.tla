----------------------------- MODULE PartsProofs -----------------------------
(***************************************************************************)
(* What the small parts promise, for every value of their constants.  Each *)
(* has an invariant of its own; as no part's step touches another part's   *)
(* variables, what a part keeps holds of all of them together.             *)
(***************************************************************************)
EXTENDS Parts, LoopsAndSums, FunctionTheorems, Sequences

-----------------------------------------------------------------------------
(* The operators that an instance has from the library are those of the    *)
(* library.                                                                *)

LEMMA LibrarySums ==
    ASSUME NEW f, NEW S
    PROVE  Library!SumFunctionOnSet(f, S) = SumFunctionOnSet(f, S)
  BY DEF Library!SumFunctionOnSet, SumFunctionOnSet, Library!FoldFunctionOnSet, FoldFunctionOnSet,
         Library!MapThenFoldSet, MapThenFoldSet

LEMMA EggsCounted ==
    ASSUME NEW S
    PROVE  Egg!Cardinality(S) = Cardinality(S)
  BY DEF Egg!Cardinality, Cardinality

LEMMA SpriteLarger ==
    ASSUME NEW a \in Int, NEW b \in Int
    PROVE  Sprite!Max({a, b}) = IF a >= b THEN a ELSE b
  BY DEF Sprite!Max

LEMMA SpriteSmaller ==
    ASSUME NEW a \in Int, NEW b \in Int
    PROVE  Sprite!Min({a, b}) = IF a <= b THEN a ELSE b
  BY DEF Sprite!Min
-----------------------------------------------------------------------------
(* The library's books: the copies on the shelf and those that students    *)
(* have.                                                                   *)

CopiesHeld(b) == [i \in DOMAIN Students |-> held[i][b]]
Borrowed(b) == SumFunctionOnSet(CopiesHeld(b), DOMAIN Students)

LibraryInv ==
    /\ Library!TypeOK
    /\ \A b \in DOMAIN Books : quantity[b] + Borrowed(b) <= Books[b].stock

LEMMA LibraryBegin == Library!Init => LibraryInv
<1> SUFFICES ASSUME Library!Init PROVE LibraryInv
  OBVIOUS
<1>1. \A b \in DOMAIN Books : quantity[b] = Books[b].stock /\ Books[b].stock \in 0 .. Uint - 1
  BY PartsAssumption DEF PartsAssumption, Library!Init
<1>2. \A b \in DOMAIN Books : Borrowed(b) = 0
  <2> SUFFICES ASSUME NEW b \in DOMAIN Books
               PROVE  Borrowed(b) = 0
    OBVIOUS
  <2>1. \A i \in DOMAIN Students : CopiesHeld(b)[i] = 0
    BY DEF Library!Init, CopiesHeld
  <2> QED BY <2>1, SumZero, PartsAssumption DEF PartsAssumption, Borrowed
<1>3. Library!TypeOK
  BY <1>1 DEF Library!Init, Library!TypeOK
<1>4. \A b \in DOMAIN Books : quantity[b] + Borrowed(b) <= Books[b].stock
  <2> SUFFICES ASSUME NEW b \in DOMAIN Books
               PROVE  quantity[b] + Borrowed(b) <= Books[b].stock
    OBVIOUS
  <2>1. quantity[b] \in Int /\ quantity[b] = Books[b].stock /\ Borrowed(b) = 0
    BY <1>1, <1>2
  <2> QED BY <2>1
<1> QED BY <1>3, <1>4 DEF LibraryInv

\* Around the end of an unsigned variable's range, and away from it.
LEMMA Unsigned ==
    ASSUME NEW q \in 0 .. Uint - 1
    PROVE  /\ q + 1 < Uint => (q + 1) % Uint = q + 1
           /\ q # 0 => (q + Uint - 1) % Uint = q - 1
           /\ Uint \in Nat \ {0}
<1>1. Uint \in Nat \ {0}
  BY PartsAssumption DEF PartsAssumption
<1>2. ASSUME NEW r \in 0 .. Uint - 1
      PROVE  r % Uint = r
  <2>1. r = Uint * 0 + r /\ r = Uint * (r \div Uint) + (r % Uint) /\ r % Uint \in 0 .. Uint - 1
        /\ r \div Uint \in Int
    BY <1>1, DivMod
  <2> QED BY <1>1, <2>1, ModUnique
<1>3. ASSUME q # 0
      PROVE  (q + Uint - 1) % Uint = q - 1
  <2> DEFINE a == q - 1
             c == q + Uint - 1
  <2>1. a \in 0 .. Uint - 1 /\ c = a + Uint * 1 /\ a \in Int /\ c \in Int /\ 1 \in Int
    BY <1>1, <1>3
  <2> HIDE DEF a, c
  <2>2. c % Uint = a % Uint
    BY <1>1, <2>1, ModSame
  <2>3. c % Uint = a
    BY <1>2, <2>1, <2>2
  <2> QED BY <2>3 DEF a, c
<1> QED BY <1>1, <1>2, <1>3

\* A student's copies of one book change.
LEMMA CopiesMove ==
    ASSUME LibraryInv, NEW b \in DOMAIN Books, NEW i \in DOMAIN Students, NEW n \in Nat, NEW q \in 0 .. Uint - 1,
           held' = [held EXCEPT ![i][b] = n], quantity' = [quantity EXCEPT ![b] = q], running' \in BOOLEAN,
           q + n <= quantity[b] + held[i][b]
    PROVE  LibraryInv'
<1>0. /\ held \in [DOMAIN Students -> [DOMAIN Books -> Nat]] /\ quantity \in [DOMAIN Books -> 0 .. Uint - 1]
      /\ IsFiniteSet(DOMAIN Students) /\ Uint \in Nat
  BY PartsAssumption DEF PartsAssumption, LibraryInv, Library!TypeOK
<1>1. Library!TypeOK'
  BY <1>0 DEF Library!TypeOK
<1>2. /\ quantity'[b] = q /\ held'[i][b] = n
      /\ \A c \in DOMAIN Books \ {b} : quantity'[c] = quantity[c]
      /\ \A j \in DOMAIN Students, c \in DOMAIN Books : j # i \/ c # b => held'[j][c] = held[j][c]
  BY <1>0
<1>3. \A c \in DOMAIN Books : /\ \A j \in DOMAIN Students : CopiesHeld(c)[j] = held[j][c] /\ CopiesHeld(c)[j] \in Int
                              /\ IntOn(CopiesHeld(c), DOMAIN Students)
  BY <1>0 DEF CopiesHeld, IntOn
<1>4. \A c \in DOMAIN Books : /\ \A j \in DOMAIN Students : CopiesHeld(c)'[j] = held'[j][c] /\ CopiesHeld(c)'[j] \in Int
                              /\ IntOn(CopiesHeld(c)', DOMAIN Students)
  BY <1>1 DEF CopiesHeld, IntOn, Library!TypeOK
<1>5. ASSUME NEW c \in DOMAIN Books \ {b}
      PROVE  Borrowed(c)' = Borrowed(c)
  <2>1. \A j \in DOMAIN Students : CopiesHeld(c)[j] = CopiesHeld(c)'[j]
    BY <1>2, <1>3, <1>4
  <2> QED BY <1>0, <1>3, <2>1, SumSame DEF Borrowed
<1>6. Borrowed(b) \in Int /\ Borrowed(b)' = Borrowed(b) + n - held[i][b]
  <2>1. \A j \in DOMAIN Students \ {i} : CopiesHeld(b)[j] = CopiesHeld(b)'[j]
    BY <1>2, <1>3, <1>4
  <2>2. CopiesHeld(b)[i] = held[i][b] /\ CopiesHeld(b)'[i] = n
    BY <1>2, <1>3, <1>4
  <2> QED BY <1>0, <1>3, <1>4, <2>1, <2>2, SumChange DEF Borrowed
<1>7. ASSUME NEW c \in DOMAIN Books
      PROVE  quantity'[c] + Borrowed(c)' <= Books[c].stock
  <2>1. CASE c = b
    <3>1. quantity[b] \in Int /\ held[i][b] \in Int /\ Books[b].stock \in Int
          /\ quantity[b] + Borrowed(b) <= Books[b].stock
      BY <1>0, PartsAssumption DEF PartsAssumption, LibraryInv
    <3> QED BY <1>2, <1>6, <2>1, <3>1
  <2>2. CASE c # b
    BY <1>2, <1>5, <2>2 DEF LibraryInv
  <2> QED BY <2>1, <2>2
<1> QED BY <1>1, <1>7 DEF LibraryInv

LEMMA LibraryStep ==
    ASSUME LibraryInv, Library!Next \/ UNCHANGED libraryVars
    PROVE  LibraryInv'
<1>0. /\ held \in [DOMAIN Students -> [DOMAIN Books -> Nat]] /\ quantity \in [DOMAIN Books -> 0 .. Uint - 1]
      /\ running \in BOOLEAN
  BY DEF LibraryInv, Library!TypeOK
<1>1. ASSUME UNCHANGED <<quantity, held>>, running' \in BOOLEAN
      PROVE  LibraryInv'
  BY <1>1 DEF LibraryInv, Library!TypeOK, Borrowed, CopiesHeld
<1>2. ASSUME Library!Crash
      PROVE  LibraryInv'
  BY <1>1, <1>2 DEF Library!Crash
\* The copies that go back to the shelf are all in the sum, so that their number does not wrap.
<1>3. ASSUME NEW b \in DOMAIN Books, NEW i \in DOMAIN Students, Library!HasBook(i, b), Library!CheckInBook(b, i)
      PROVE  LibraryInv'
  <2> DEFINE n == held[i][b]
  <2>1. n \in Nat /\ n >= 1 /\ quantity[b] \in 0 .. Uint - 1
    BY <1>0, <1>3 DEF Library!HasBook
  <2>2. Borrowed(b) \in Int /\ Borrowed(b) >= n
    <3>1. \A j \in DOMAIN Students : CopiesHeld(b)[j] \in Nat
      BY <1>0 DEF CopiesHeld
    <3>2. IsFiniteSet(DOMAIN Students) /\ IsFiniteSet(DOMAIN Students \ {i}) /\ IntOn(CopiesHeld(b), DOMAIN Students)
      BY <3>1, PartsAssumption, FS_RemoveElement DEF PartsAssumption, IntOn
    <3>3. SumFunctionOnSet(CopiesHeld(b), DOMAIN Students \ {i}) \in Nat
      BY <3>1, <3>2, SumNat
    <3>4. Borrowed(b) = CopiesHeld(b)[i] + SumFunctionOnSet(CopiesHeld(b), DOMAIN Students \ {i})
      BY <3>2, SumWithout DEF Borrowed
    <3>5. CopiesHeld(b)[i] = n
      BY DEF CopiesHeld
    <3> QED BY <2>1, <3>3, <3>4, <3>5
  <2>3. quantity[b] + 1 < Uint
    <3>1. quantity[b] + Borrowed(b) <= Books[b].stock /\ Books[b].stock \in 0 .. Uint - 1
      BY PartsAssumption DEF PartsAssumption, LibraryInv
    <3>2. Uint \in Nat
      BY PartsAssumption DEF PartsAssumption
    <3> QED BY <2>1, <2>2, <3>1, <3>2
  <2>4. (quantity[b] + 1) % Uint = quantity[b] + 1 /\ quantity[b] + 1 \in 0 .. Uint - 1
    BY <2>1, <2>3, Unsigned
  <2>5. held' = [held EXCEPT ![i][b] = 0] /\ quantity' = [quantity EXCEPT ![b] = quantity[b] + 1]
        /\ running' = running
    BY <1>3, <2>4 DEF Library!CheckInBook
  <2>6. quantity[b] + 1 + 0 <= quantity[b] + held[i][b]
    BY <2>1
  <2> QED BY <1>0, <2>4, <2>5, <2>6, CopiesMove
<1>4. ASSUME NEW b \in DOMAIN Books, NEW i \in DOMAIN Students, quantity[b] # 0, Library!CheckOutBook(b, i)
      PROVE  LibraryInv'
  <2>1. held[i][b] \in Nat /\ quantity[b] \in 0 .. Uint - 1
    BY <1>0
  <2>2. (quantity[b] + Uint - 1) % Uint = quantity[b] - 1 /\ quantity[b] - 1 \in 0 .. Uint - 1
    BY <1>4, <2>1, Unsigned
  <2>3. held' = [held EXCEPT ![i][b] = held[i][b] + 1] /\ quantity' = [quantity EXCEPT ![b] = quantity[b] - 1]
        /\ running' = running
    BY <1>0, <1>4, <2>2 DEF Library!CheckOutBook
  <2>4. quantity[b] - 1 + (held[i][b] + 1) <= quantity[b] + held[i][b] /\ held[i][b] + 1 \in Nat
    BY <2>1
  <2> QED BY <1>0, <2>2, <2>3, <2>4, CopiesMove
<1>5. ASSUME NEW id \in Typed, NEW isbn \in Typed, Library!CheckIn(id, isbn)
      PROVE  LibraryInv'
  BY <1>2, <1>3, <1>5 DEF Library!CheckIn, Library!GetStudentByID, Library!GetBookByISBN
<1>6. ASSUME NEW id \in Typed, NEW isbn \in Typed, Library!CheckOut(id, isbn)
      PROVE  LibraryInv'
  BY <1>2, <1>4, <1>6 DEF Library!CheckOut, Library!GetStudentByID, Library!GetBookByISBN
<1>7. CASE UNCHANGED libraryVars
  BY <1>0, <1>1, <1>7 DEF libraryVars
<1> QED BY <1>5, <1>6, <1>7 DEF Library!Next

LEMMA CopiesKept == LibraryInv => Library!CopiesConserved
  BY LibrarySums DEF LibraryInv, Library!CopiesConserved, Library!Copies, Borrowed, CopiesHeld
-----------------------------------------------------------------------------
(* PA1's cars and Exercise3's accounts: what is kept in the user defaults, *)
(* and what is on disk, has no key twice.                                  *)

OneEach(cars) ==
    /\ \A i \in DOMAIN cars : cars[i].case = "upper"
    /\ \A i, j \in DOMAIN cars : i # j => cars[i].vin # cars[j].vin

CarsInv == Cars!TypeOK /\ OneEach(defaults) /\ OneEach(disk)

LEMMA CarsBegin == Cars!Init => CarsInv
  BY DEF Cars!Init, CarsInv, Cars!TypeOK, OneEach

LEMMA CarsStep ==
    ASSUME CarsInv, Cars!Next \/ UNCHANGED carsVars
    PROVE  CarsInv'
<1>1. ASSUME NEW t \in Cars!Texts, NEW y \in Years, Cars!AddVehicleButtonTapped(t, y)
      PROVE  CarsInv'
  <2> DEFINE u == Cars!UppercaseString(t)
  <2>1. u \in Cars!Texts /\ u.case = "upper"
    BY PartsAssumption DEF PartsAssumption, Cars!Texts, Cars!UppercaseString
  <2>2. defaults' = Append(defaults, u) /\ disk' = disk /\ \A i \in DOMAIN defaults : defaults[i] # u
    BY <1>1 DEF Cars!AddVehicleButtonTapped, Cars!Stored, Cars!DoesCarAlreadyExist
  <2>3. defaults \in Seq(Cars!Texts) /\ OneEach(defaults)
    BY DEF CarsInv, Cars!TypeOK
  <2> HIDE DEF u
  <2>4. \A i \in DOMAIN defaults : defaults[i].vin # u.vin
    <3> SUFFICES ASSUME NEW i \in DOMAIN defaults, defaults[i].vin = u.vin
                 PROVE  FALSE
      OBVIOUS
    <3>1. defaults[i] \in Cars!Texts /\ defaults[i].case = u.case
      BY <2>1, <2>3 DEF OneEach
    <3>2. defaults[i] = u
      BY <3>1, <2>1 DEF Cars!Texts
    <3> QED BY <2>2, <3>2
  <2>5. /\ DOMAIN defaults' = 1 .. Len(defaults) + 1 /\ defaults'[Len(defaults) + 1] = u
        /\ DOMAIN defaults = 1 .. Len(defaults) /\ Len(defaults) \in Nat
        /\ \A i \in 1 .. Len(defaults) : defaults'[i] = defaults[i]
    BY <2>1, <2>2, <2>3
  <2>6. OneEach(defaults')
    BY <2>1, <2>3, <2>4, <2>5 DEF OneEach
  <2>7. defaults' \in Seq(Cars!Texts)
    BY <2>1, <2>2, <2>3
  <2> QED BY <2>2, <2>6, <2>7 DEF CarsInv, Cars!TypeOK
<1>2. CASE Cars!Synchronize \/ Cars!Restart \/ UNCHANGED carsVars
  BY <1>2 DEF Cars!Synchronize, Cars!Restart, carsVars, CarsInv, Cars!TypeOK
<1> QED BY <1>1, <1>2 DEF Cars!Next

OnePerEmail(accounts) == \A i, j \in DOMAIN accounts : i # j => accounts[i].email # accounts[j].email

LoginInv == Login!TypeOK /\ Login!OnePassword /\ OnePerEmail(saved)

LEMMA LoginBegin == Login!Init => LoginInv
  BY DEF Login!Init, LoginInv, Login!TypeOK, Login!OnePassword, OnePerEmail

LEMMA LoginStep ==
    ASSUME LoginInv, Login!Next \/ UNCHANGED loginVars
    PROVE  LoginInv'
<1>1. ASSUME NEW email \in Emails \union BadEmails, NEW password \in Passwords,
             Login!LoginButtonPressed(email, password)
      PROVE  LoginInv'
  <2> DEFINE a == Login!Account(email, password)
  <2>1. a \in [email : Emails, password : Passwords] /\ a.email = email
    BY <1>1 DEF Login!LoginButtonPressed, Login!IsValidEmail, Login!Account
  <2>2. users \in Seq([email : Emails, password : Passwords]) /\ OnePerEmail(users)
    BY DEF LoginInv, Login!TypeOK, Login!OnePassword, OnePerEmail
  <2>3. shown' = a /\ saved' = saved
    BY <1>1 DEF Login!LoginButtonPressed
  <2>4. CASE ~Login!DoesEmailExist(email) /\ Login!Stored(a)
    <3> HIDE DEF a
    <3>1. /\ users' = Append(users, a) /\ DOMAIN users' = 1 .. Len(users) + 1
          /\ DOMAIN users = 1 .. Len(users) /\ Len(users) \in Nat /\ users'[Len(users) + 1] = a
          /\ \A i \in 1 .. Len(users) : users'[i] = users[i] /\ users[i].email # a.email
      BY <2>1, <2>2, <2>4 DEF Login!Stored, Login!DoesEmailExist
    <3>2. OnePerEmail(users')
      BY <2>2, <3>1 DEF OnePerEmail
    <3>3. \E i \in DOMAIN users' : users'[i] = a
      BY <3>1
    <3>4. users' \in Seq([email : Emails, password : Passwords])
      BY <2>1, <2>2, <3>1
    <3> QED BY <2>1, <2>3, <3>2, <3>3, <3>4 DEF LoginInv, Login!TypeOK, Login!OnePassword, OnePerEmail
  <2>5. CASE Login!EmailCredentialsValid(email, password) /\ users' = users
    BY <2>1, <2>3, <2>5 DEF LoginInv, Login!TypeOK, Login!OnePassword, OnePerEmail, Login!EmailCredentialsValid
  <2> QED BY <1>1, <2>4, <2>5 DEF Login!LoginButtonPressed
<1>2. CASE Login!Logout \/ Login!WriteDefaults \/ Login!Relaunch \/ UNCHANGED loginVars
  BY <1>2 DEF Login!Logout, Login!WriteDefaults, Login!Relaunch, loginVars, LoginInv, Login!TypeOK,
              Login!OnePassword, OnePerEmail
<1> QED BY <1>1, <1>2 DEF Login!Next
-----------------------------------------------------------------------------
(* Exercise1's questions.                                                  *)

QuizInv == Questions!TypeOK /\ (currentQuestion # None => currentQuestion # previous)

LEMMA QuizBegin == Questions!Init => QuizInv
  BY DEF Questions!Init, QuizInv, Questions!TypeOK

LEMMA QuizStep ==
    ASSUME QuizInv, Questions!Next \/ UNCHANGED quizVars
    PROVE  QuizInv'
<1>1. ASSUME NEW category \in Questions!Categories, Questions!ShowQuestionPressed(category)
      PROVE  QuizInv'
  BY <1>1 DEF Questions!ShowQuestionPressed, Questions!Questions, QuizInv, Questions!TypeOK
<1>2. CASE Questions!ShowAnswerPressed \/ UNCHANGED quizVars
  BY <1>2 DEF Questions!ShowAnswerPressed, quizVars, QuizInv, Questions!TypeOK
<1> QED BY <1>1, <1>2 DEF Questions!Next

\* Of two questions in a category one was not just shown.
LEMMA QuizGoesOn == QuizInv => Questions!AnotherQuestion
<1> SUFFICES ASSUME NEW category \in Questions!Categories
             PROVE  Questions!Questions(category, currentQuestion) # {}
  BY DEF QuizInv, Questions!AnotherQuestion
<1>1. PICK q \in DOMAIN Category : Category[q] = category
  BY DEF Questions!Categories
<1>2. PICK r \in DOMAIN Category : r # q /\ Category[r] = category
  BY <1>1, PartsAssumption DEF PartsAssumption
<1> QED BY <1>1, <1>2 DEF Questions!Questions
-----------------------------------------------------------------------------
(* Exercise7's pictures, no two of which are the same.                     *)

GridInv ==
    /\ Grid!TypeOK /\ Grid!ShowsCurrent
    /\ \A i, j \in Grid!Cells : i # j => images[i] # images[j]

LEMMA GridBegin == Grid!Init => GridInv
<1> SUFFICES ASSUME Grid!Init PROVE GridInv
  OBVIOUS
<1>1. images = [i \in 0 .. 5 |-> i] /\ currentIndex = 1 /\ mainImage = images[1] /\ timers = 0
  BY DEF Grid!Init, Grid!Cells
<1>2. canFire \in BOOLEAN /\ picking \in BOOLEAN /\ timers = IF canFire THEN 0 ELSE 1
  BY DEF Grid!Init
<1>3. images \in [0 .. 5 -> 0 .. MaxPictures] /\ mainImage \in 0 .. MaxPictures /\ timers \in 0 .. 1
  BY <1>1, PartsAssumption DEF PartsAssumption
<1>4. \A i, j \in 0 .. 5 : i # j => images[i] # images[j]
  BY <1>1
<1> QED BY <1>1, <1>2, <1>3, <1>4 DEF GridInv, Grid!TypeOK, Grid!ShowsCurrent, Grid!Cells

\* A jerk, and what it may do.
LEMMA JerkKeeps ==
    ASSUME GridInv, NEW step \in Int, NEW edge, Grid!Jerk(step, edge), currentIndex + step \in Grid!Cells
    PROVE  GridInv'
<1>1. /\ canFire /\ canFire' = FALSE /\ UNCHANGED <<images, picking>> /\ timers' = timers + 1
      /\ currentIndex' = currentIndex + step /\ mainImage' = images[currentIndex + step]
  BY DEF Grid!Jerk
<1>2. timers = 0
  BY <1>1 DEF GridInv, Grid!ShowsCurrent
<1>3. timers' = 1 /\ timers' \in 0 .. 1
  BY <1>1, <1>2
<1>4. timers' = IF canFire' THEN 0 ELSE 1
  BY <1>1, <1>3
<1>5. canFire' \in BOOLEAN /\ picking' \in BOOLEAN
  BY <1>1 DEF GridInv, Grid!TypeOK
<1>6. mainImage' \in 0 .. MaxPictures
  BY <1>1 DEF GridInv, Grid!TypeOK
<1>7. Grid!TypeOK'
  BY <1>1, <1>3, <1>5, <1>6 DEF GridInv, Grid!TypeOK
<1> QED BY <1>1, <1>4, <1>7 DEF GridInv, Grid!ShowsCurrent

LEMMA JerkMoves ==
    ASSUME GridInv, Grid!Right \/ Grid!Left \/ Grid!Down \/ Grid!Up
    PROVE  GridInv' /\ Grid!Neighbours(currentIndex, currentIndex')
<1>0. currentIndex \in 0 .. 5
  BY DEF GridInv, Grid!TypeOK, Grid!Cells
<1>1. ASSUME NEW i \in 0 .. 5
      PROVE  /\ i \notin {2, 5} => i + 1 \in Grid!Cells /\ Grid!Neighbours(i, i + 1)
             /\ i \notin {0, 3} => i + (-1) \in Grid!Cells /\ Grid!Neighbours(i, i + (-1))
             /\ i \notin {3, 4, 5} => i + 3 \in Grid!Cells /\ Grid!Neighbours(i, i + 3)
             /\ i \notin {0, 1, 2} => i + (-3) \in Grid!Cells /\ Grid!Neighbours(i, i + (-3))
             /\ 1 \in Int /\ -1 \in Int /\ 3 \in Int /\ -3 \in Int
  BY DEF Grid!Cells, Grid!Neighbours
<1>2. CASE Grid!Right
  <2>1. Grid!Jerk(1, {2, 5})
    BY <1>2 DEF Grid!Right
  <2>2. currentIndex \notin {2, 5} /\ currentIndex' = currentIndex + (1)
    BY <2>1 DEF Grid!Jerk
  <2> QED BY <1>0, <1>1, <2>1, <2>2, JerkKeeps
<1>3. CASE Grid!Left
  <2>1. Grid!Jerk(-1, {0, 3})
    BY <1>3 DEF Grid!Left
  <2>2. currentIndex \notin {0, 3} /\ currentIndex' = currentIndex + (-1)
    BY <2>1 DEF Grid!Jerk
  <2> QED BY <1>0, <1>1, <2>1, <2>2, JerkKeeps
<1>4. CASE Grid!Down
  <2>1. Grid!Jerk(3, {3, 4, 5})
    BY <1>4 DEF Grid!Down
  <2>2. currentIndex \notin {3, 4, 5} /\ currentIndex' = currentIndex + (3)
    BY <2>1 DEF Grid!Jerk
  <2> QED BY <1>0, <1>1, <2>1, <2>2, JerkKeeps
<1>5. CASE Grid!Up
  <2>1. Grid!Jerk(-3, {0, 1, 2})
    BY <1>5 DEF Grid!Up
  <2>2. currentIndex \notin {0, 1, 2} /\ currentIndex' = currentIndex + (-3)
    BY <2>1 DEF Grid!Jerk
  <2> QED BY <1>0, <1>1, <2>1, <2>2, JerkKeeps
<1> QED BY <1>2, <1>3, <1>4, <1>5

LEMMA GridStep ==
    ASSUME GridInv, Grid!Next \/ UNCHANGED gridVars
    PROVE  GridInv' /\ Grid!OneCellAtATime
<1>1. CASE Grid!Right \/ Grid!Left \/ Grid!Down \/ Grid!Up
  BY <1>1, JerkMoves DEF Grid!OneCellAtATime
<1>2. ASSUME NEW image \in 6 .. MaxPictures, Grid!DidFinishPicking(image)
      PROVE  GridInv' /\ Grid!OneCellAtATime
  <2>1. PICK i \in Grid!Chosen : images' = [images EXCEPT ![i] = image]
    BY <1>2 DEF Grid!DidFinishPicking
  <2>2. i = currentIndex /\ i \in Grid!Cells
    BY DEF Grid!Chosen, GridInv, Grid!TypeOK, Grid!ShowsCurrent
  <2>3. \A j \in Grid!Cells : images[j] # image
    BY <1>2 DEF Grid!DidFinishPicking, Grid!Taken
  <2>4. mainImage' = image /\ UNCHANGED <<currentIndex, canFire, timers>> /\ picking' = FALSE
    BY <1>2 DEF Grid!DidFinishPicking
  <2>5. images' \in [Grid!Cells -> 0 .. MaxPictures] /\ image \in 0 .. MaxPictures
    <3>1. image \in 0 .. MaxPictures
      BY PartsAssumption DEF PartsAssumption
    <3> QED BY <2>1, <3>1 DEF GridInv, Grid!TypeOK
  <2>6. \A j, k \in Grid!Cells : j # k => images'[j] # images'[k]
    BY <2>1, <2>2, <2>3 DEF GridInv, Grid!TypeOK
  <2>7. images'[currentIndex] = image
    BY <2>1, <2>2 DEF GridInv, Grid!TypeOK
  <2>8. Grid!TypeOK'
    BY <2>4, <2>5 DEF GridInv, Grid!TypeOK
  <2>9. Grid!ShowsCurrent'
    BY <2>4, <2>7 DEF GridInv, Grid!ShowsCurrent
  <2> QED BY <2>4, <2>6, <2>8, <2>9 DEF GridInv, Grid!OneCellAtATime
<1>3. CASE Grid!CanFireIsTrue
  <2>1. timers > 0 /\ timers' = timers - 1 /\ canFire' = TRUE
        /\ UNCHANGED <<images, mainImage, currentIndex, picking>>
    BY <1>3 DEF Grid!CanFireIsTrue
  <2>2. timers \in 0 .. 1
    BY DEF GridInv, Grid!TypeOK
  <2>3. timers' = 0 /\ timers' \in 0 .. 1
    BY <2>1, <2>2
  <2>4. timers' = IF canFire' THEN 0 ELSE 1
    BY <2>1, <2>3
  <2>5. canFire' \in BOOLEAN
    BY <2>1
  <2>6. Grid!TypeOK'
    BY <2>1, <2>3, <2>5 DEF GridInv, Grid!TypeOK
  <2> QED BY <2>1, <2>4, <2>6 DEF GridInv, Grid!ShowsCurrent, Grid!OneCellAtATime
<1>4. CASE Grid!CameraButtonPressed \/ Grid!Cancel \/ UNCHANGED gridVars
  <2>1. UNCHANGED <<images, mainImage, currentIndex, canFire, timers>>
    BY <1>4 DEF Grid!CameraButtonPressed, Grid!Cancel, gridVars
  <2>2. picking' \in BOOLEAN
    BY <1>4 DEF Grid!CameraButtonPressed, Grid!Cancel, gridVars, GridInv, Grid!TypeOK
  <2> QED BY <2>1, <2>2 DEF GridInv, Grid!TypeOK, Grid!ShowsCurrent, Grid!OneCellAtATime
<1> QED BY <1>1, <1>2, <1>3, <1>4 DEF Grid!Next
-----------------------------------------------------------------------------
(* Exercise6's eggs, each with a number of its own.                        *)

EggInv ==
    /\ Egg!TypeOK /\ Egg!ScoreIsCaught
    /\ caught \subseteq 1 .. laid
    /\ \A e \in eggs : e.n <= laid
    /\ \A e, f \in eggs : e.n = f.n => e = f

LEMMA CaughtFinite ==
    ASSUME NEW S \in SUBSET (1 .. Eggs)
    PROVE  IsFiniteSet(S) /\ Cardinality(S) \in Nat
<1>1. IsFiniteSet(1 .. Eggs)
  BY PartsAssumption, FS_Interval DEF PartsAssumption
<1> QED BY <1>1, FS_Subset, FS_CardinalityType

\* What stays in the air after a frame.
EggsKept(falling) ==
    {IF e \in falling THEN [e EXCEPT !.y = @ - 1] ELSE e : e \in eggs \ Egg!ObjectsToRemove}

LEMMA KeptEggs ==
    ASSUME EggInv, NEW falling \in SUBSET eggs
    PROVE  /\ EggsKept(falling) \subseteq [n : 1 .. Eggs, x : Columns, y : -1 .. Top]
           /\ \A k \in EggsKept(falling) : \E e \in eggs : e.n = k.n /\ ~Egg!Collides(e)
           /\ \A k, l \in EggsKept(falling) : k.n = l.n => k = l
<1> DEFINE K(e) == IF e \in falling THEN [e EXCEPT !.y = @ - 1] ELSE e
<1>1. ASSUME NEW e \in eggs \ Egg!ObjectsToRemove
      PROVE  /\ K(e) \in [n : 1 .. Eggs, x : Columns, y : -1 .. Top] /\ K(e).n = e.n
             /\ ~Egg!Collides(e)
  <2>1. e \in [n : 1 .. Eggs, x : Columns, y : -1 .. Top] /\ ~Egg!Collides(e) /\ ~Egg!Fallen(e)
    BY DEF EggInv, Egg!TypeOK, Egg!ObjectsToRemove
  <2>2. e.y \in 0 .. Top
    BY <2>1, PartsAssumption DEF PartsAssumption, Egg!Fallen
  <2>3. e.y - 1 \in -1 .. Top
    BY <2>2, PartsAssumption DEF PartsAssumption
  <2> QED BY <2>1, <2>3
<1>2. \A k \in EggsKept(falling) : \E e \in eggs \ Egg!ObjectsToRemove : k = K(e)
  BY DEF EggsKept
<1> HIDE DEF K
<1>3. ASSUME NEW k \in EggsKept(falling), NEW l \in EggsKept(falling), k.n = l.n
      PROVE  k = l
  <2>1. PICK e \in eggs \ Egg!ObjectsToRemove : k = K(e)
    BY <1>2
  <2>2. PICK f \in eggs \ Egg!ObjectsToRemove : l = K(f)
    BY <1>2
  <2>3. e.n = f.n
    BY <1>1, <1>3, <2>1, <2>2
  <2>4. e = f
    BY <2>3 DEF EggInv
  <2> QED BY <2>1, <2>2, <2>4
<1>4. \A k \in EggsKept(falling) : k \in [n : 1 .. Eggs, x : Columns, y : -1 .. Top]
  BY <1>1, <1>2
<1>5. \A k \in EggsKept(falling) : \E e \in eggs : e.n = k.n /\ ~Egg!Collides(e)
  BY <1>1, <1>2
<1> QED BY <1>3, <1>4, <1>5

\* The eggs that collide in a frame count for as many numbers.
LEMMA EggsCaught ==
    ASSUME EggInv
    PROVE  LET hit == {e \in eggs : Egg!Collides(e)}
               numbers == {e.n : e \in hit}
           IN /\ score + Egg!Cardinality(hit) = Egg!Cardinality(caught \union numbers)
              /\ score + Egg!Cardinality(hit) \in Nat
              /\ numbers \subseteq 1 .. laid /\ numbers \subseteq 1 .. Eggs
<1> DEFINE hit == {e \in eggs : Egg!Collides(e)}
           numbers == {e.n : e \in hit}
<1>1. \A e \in hit : e.n \in 1 .. Eggs /\ e.n \in 1 .. laid
  BY DEF EggInv, Egg!TypeOK
<1>2. numbers \subseteq 1 .. Eggs /\ numbers \subseteq 1 .. laid
  BY <1>1
<1>3. caught \subseteq 1 .. Eggs /\ score \in Nat /\ score = Cardinality(caught)
      /\ {e.n : e \in eggs} \intersect caught = {}
  BY EggsCounted DEF EggInv, Egg!TypeOK, Egg!ScoreIsCaught
<1>4. /\ IsFiniteSet(numbers) /\ Cardinality(numbers) \in Nat
      /\ IsFiniteSet(caught) /\ Cardinality(caught) \in Nat
  BY <1>2, <1>3, CaughtFinite
<1>5. numbers \intersect caught = {}
  BY <1>3
<1>6. Cardinality(caught \union numbers) = Cardinality(caught) + Cardinality(numbers)
  <2>1. Cardinality(caught \union numbers)
            = Cardinality(caught) + Cardinality(numbers) - Cardinality(caught \cap numbers)
    BY <1>4, FS_Union
  <2>2. Cardinality(caught \cap numbers) = 0
    BY <1>5, FS_EmptySet
  <2> QED BY <1>4, <2>1, <2>2
<1>7. Cardinality(hit) = Cardinality(numbers)
  <2> DEFINE f == [e \in hit |-> e.n]
  <2>1. f \in Bijection(hit, numbers)
    <3>1. f \in [hit -> numbers]
      OBVIOUS
    <3>2. \A e1, e2 \in hit : f[e1] = f[e2] => e1 = e2
      BY DEF EggInv
    <3>3. \A k \in numbers : \E e \in hit : f[e] = k
      OBVIOUS
    <3>4. f \in Injection(hit, numbers) /\ f \in Surjection(hit, numbers)
      BY <3>1, <3>2, <3>3, Fun_IsInj, Fun_IsSurj
    <3> QED BY <3>4 DEF Bijection
  <2>2. ExistsBijection(hit, numbers)
    BY <2>1, Fun_ExistsBij
  <2> QED BY <1>4, <2>2, FS_Bijection, Fun_ExistsBijSymmetric
<1>8. /\ Egg!Cardinality(hit) = Cardinality(hit)
      /\ Egg!Cardinality(caught \union numbers) = Cardinality(caught \union numbers)
  BY EggsCounted
<1>9. /\ score + Egg!Cardinality(hit) = Egg!Cardinality(caught \union numbers)
      /\ score + Egg!Cardinality(hit) \in Nat
  BY <1>3, <1>4, <1>6, <1>7, <1>8
<1> QED BY <1>2, <1>9

LEMMA FrameKeeps ==
    ASSUME EggInv, NEW falling \in SUBSET eggs, NEW lay \in BOOLEAN, Egg!Update(falling, lay)
    PROVE  EggInv'
<1> DEFINE hit == {e \in eggs : Egg!Collides(e)}
           numbers == {e.n : e \in hit}
           kept == EggsKept(falling)
<1>1. /\ score' = score + Egg!Cardinality(hit) /\ caught' = caught \union numbers
      /\ scene' \in {"game", "over"} /\ laid' <= Eggs /\ UNCHANGED <<player, left>>
  BY DEF Egg!Update
<1>2. PICK x \in Columns :
            /\ eggs' = IF lay THEN kept \union {[n |-> laid + 1, x |-> x, y |-> Top]} ELSE kept
            /\ laid' = IF lay THEN laid + 1 ELSE laid
  BY DEF Egg!Update, EggsKept
<1>3. /\ score' = Egg!Cardinality(caught') /\ score' \in Nat
      /\ numbers \subseteq 1 .. laid /\ numbers \subseteq 1 .. Eggs
  BY <1>1, EggsCaught
<1>4. /\ kept \subseteq [n : 1 .. Eggs, x : Columns, y : -1 .. Top]
      /\ \A k \in kept : \E e \in eggs : e.n = k.n /\ ~Egg!Collides(e)
      /\ \A k, l \in kept : k.n = l.n => k = l
  BY KeptEggs
<1> HIDE DEF kept
<1>5. laid \in 0 .. Eggs /\ Eggs \in Nat /\ Top \in Nat /\ laid' \in 0 .. Eggs
      /\ laid' \in {laid, laid + 1}
  BY <1>1, <1>2, PartsAssumption DEF PartsAssumption, EggInv, Egg!TypeOK
<1>6. /\ \A k \in kept : k.n \in 1 .. laid
      /\ \A k \in kept : k.n \notin caught'
  <2> SUFFICES ASSUME NEW k \in kept
               PROVE  k.n \in 1 .. laid /\ k.n \notin caught /\ k.n \notin numbers
    BY <1>1
  <2>1. PICK e \in eggs : e.n = k.n /\ ~Egg!Collides(e)
    BY <1>4
  <2>2. k.n \in 1 .. Eggs /\ k.n <= laid
    BY <1>4, <2>1 DEF EggInv
  <2>3. k.n \notin caught
    BY <2>1 DEF EggInv, Egg!ScoreIsCaught
  <2>4. k.n \notin numbers
    BY <2>1 DEF EggInv
  <2> QED BY <1>5, <2>2, <2>3, <2>4
<1>7. caught \subseteq 1 .. laid
  BY DEF EggInv
<1>8. caught' \subseteq 1 .. laid /\ caught' \subseteq 1 .. Eggs
  <2>1. caught \subseteq 1 .. Eggs
    BY DEF EggInv, Egg!TypeOK
  <2>2. caught' = caught \union numbers
    BY <1>1
  <2> HIDE DEF numbers
  <2> QED BY <1>3, <1>7, <2>1, <2>2
<1>9. CASE ~lay
  <2>1. eggs' = kept /\ laid' = laid
    BY <1>2, <1>9
  <2>2. Egg!TypeOK'
    BY <1>1, <1>3, <1>4, <1>5, <1>8, <2>1 DEF EggInv, Egg!TypeOK
  <2>3. Egg!ScoreIsCaught'
    BY <1>3, <1>6, <2>1 DEF Egg!ScoreIsCaught
  <2> QED BY <1>4, <1>5, <1>6, <1>8, <2>1, <2>2, <2>3 DEF EggInv
<1>10. CASE lay
  <2> DEFINE new == [n |-> laid + 1, x |-> x, y |-> Top]
  <2>1. eggs' = kept \union {new} /\ laid' = laid + 1
    BY <1>2, <1>10
  <2>2. new \in [n : 1 .. Eggs, x : Columns, y : -1 .. Top] /\ new.n = laid + 1
    BY <1>5, <2>1
  <2> HIDE DEF new
  <2>3. new.n \notin caught'
    BY <1>5, <1>8, <2>2
  <2>4. \A e \in eggs' : e.n <= laid'
    BY <1>5, <1>6, <2>1, <2>2
  <2>5. \A k \in kept : k.n # new.n
    BY <1>5, <1>6, <2>2
  <2>6. \A e, f \in eggs' : e.n = f.n => e = f
    BY <1>4, <2>1, <2>5
  <2>7. Egg!TypeOK'
    BY <1>1, <1>3, <1>4, <1>5, <1>8, <2>1, <2>2 DEF EggInv, Egg!TypeOK
  <2>8. Egg!ScoreIsCaught'
    BY <1>3, <1>6, <2>1, <2>3 DEF Egg!ScoreIsCaught
  <2>9. caught' \subseteq 1 .. laid'
    BY <1>5, <1>8, <2>1
  <2> QED BY <2>4, <2>6, <2>7, <2>8, <2>9 DEF EggInv
<1> QED BY <1>9, <1>10

LEMMA EggBegin == Egg!Init => EggInv
<1> SUFFICES ASSUME Egg!Init PROVE EggInv
  OBVIOUS
<1>1. Egg!Cardinality(caught) = 0
  BY EggsCounted, FS_EmptySet DEF Egg!Init
<1>2. Egg!TypeOK
  BY PartsAssumption DEF PartsAssumption, Egg!Init, Egg!TypeOK
<1> QED BY <1>1, <1>2 DEF Egg!Init, EggInv, Egg!ScoreIsCaught

LEMMA EggStep ==
    ASSUME EggInv, Egg!Next \/ UNCHANGED eggVars
    PROVE  EggInv'
<1>1. ASSUME NEW falling \in SUBSET eggs, NEW lay \in BOOLEAN, Egg!Update(falling, lay)
      PROVE  EggInv'
  BY <1>1, FrameKeeps
<1>2. ASSUME NEW x \in Columns, Egg!TouchesBegan(x)
      PROVE  EggInv'
  BY <1>2 DEF Egg!TouchesBegan, EggInv, Egg!TypeOK, Egg!ScoreIsCaught
<1>3. CASE Egg!SecondPasses
  BY <1>3, PartsAssumption DEF PartsAssumption, Egg!SecondPasses, EggInv, Egg!TypeOK, Egg!ScoreIsCaught
<1>4. CASE Egg!PlayAgain
  <2>1. /\ scene' = "game" /\ eggs' = {} /\ player' = Centre /\ score' = 0 /\ left' = Seconds
        /\ laid' = 0 /\ caught' = {}
    BY <1>4 DEF Egg!PlayAgain, Egg!NewGame
  <2>2. Egg!Cardinality(caught') = 0
    BY <2>1, EggsCounted, FS_EmptySet
  <2>3. Egg!TypeOK'
    BY <2>1, PartsAssumption DEF PartsAssumption, Egg!TypeOK
  <2> QED BY <2>1, <2>2, <2>3 DEF EggInv, Egg!ScoreIsCaught
<1>5. CASE UNCHANGED eggVars
  BY <1>5 DEF eggVars, EggInv, Egg!TypeOK, Egg!ScoreIsCaught
<1> QED BY <1>1, <1>2, <1>3, <1>4, <1>5 DEF Egg!Next
-----------------------------------------------------------------------------
(* PA3's square, which a pinch leaves small enough for the margins.        *)

SpriteInv ==
    /\ Sprite!TypeOK
    /\ frame.w + 2 <= Width /\ frame.w + 2 <= Height

LEMMA SpriteScreen ==
    /\ Width \in Nat /\ Height \in Nat /\ Start \in Nat /\ MaxTimers \in Nat /\ Width >= 4
    /\ \A n \in Nat : n <= Width \/ n <= Height => n \in Sprite!Lengths
    /\ \A n \in Sprite!Lengths : n \in Nat
<1>1. Width \in Nat /\ Height \in Nat /\ Start \in Nat /\ MaxTimers \in Nat /\ Width >= 4
  BY PartsAssumption DEF PartsAssumption
<1>2. Sprite!Lengths = 0 .. (IF Width >= Height THEN Width ELSE Height)
  BY <1>1, SpriteLarger DEF Sprite!Lengths
<1> QED BY <1>1, <1>2

\* The three ways to keep a coordinate between the margins.
LEMMA SpriteKept ==
    ASSUME NEW size \in {Width, Height}, NEW w \in Nat, w + 2 <= size, NEW at \in Int
    PROVE  /\ Sprite!Inside(size, w, at) \in 1 .. size - w - 1
           /\ Sprite!InsideY(size, w, at) \in 1 .. size - w - 1
           /\ Sprite!Dragged(size, w, at) \in 1 .. size - w - 1
           /\ Sprite!Middle(size, w) \in 1 .. size - w - 1
<1> DEFINE far == size - w - 1
<1>1. size \in Nat /\ far \in Int /\ far >= 1 /\ Sprite!Margin = 1 /\ size - w - Sprite!Margin = far
  BY SpriteScreen DEF Sprite!Margin
<1>2. Sprite!Middle(size, w) \in 1 .. far
  BY <1>1 DEF Sprite!Middle
<1> HIDE DEF far
<1>3. Sprite!Inside(size, w, at) \in 1 .. far
  <2>1. Sprite!Min({far, at}) = IF far <= at THEN far ELSE at
    BY <1>1, SpriteSmaller
  <2>2. Sprite!Min({far, at}) \in Int /\ Sprite!Min({far, at}) <= far
    BY <1>1, <2>1
  <2>3. Sprite!Max({1, Sprite!Min({far, at})}) \in 1 .. far
    BY <1>1, <2>2, SpriteLarger
  <2> QED BY <1>1, <2>3 DEF Sprite!Inside
<1>4. Sprite!Max({1, at}) \in Int /\ Sprite!Max({1, at}) >= 1 /\ (at < far => Sprite!Max({1, at}) <= far)
  BY <1>1, SpriteLarger
<1>5. Sprite!InsideY(size, w, at) \in 1 .. far
  <2>1. Sprite!Min({far, Sprite!Max({1, at})}) \in 1 .. far
    BY <1>1, <1>4, SpriteSmaller
  <2> QED BY <1>1, <2>1 DEF Sprite!InsideY
<1>6. Sprite!Dragged(size, w, at) \in 1 .. far
  BY <1>1, <1>4 DEF Sprite!Dragged
<1> QED BY <1>2, <1>3, <1>5, <1>6 DEF far

\* A move to (x, y) with either of these coordinates.
LEMMA SpriteMoved ==
    ASSUME SpriteInv, NEW x \in 1 .. Width - frame.w - 1, NEW y \in 1 .. Height - frame.w - 1,
           frame' = [x |-> x, y |-> y, w |-> frame.w],
           gesture' \in {"none", "pan", "pinch"},
           began' \in [x : Sprite!Lengths, y : Sprite!Lengths, w : Sprite!Lengths],
           frameTimers' \in 0 .. MaxTimers, timer' \in BOOLEAN, timer' => frameTimers' > 0
    PROVE  SpriteInv' /\ Sprite!MovesIntoMargins
<1>1. frame.w \in Sprite!Lengths /\ frame.w \in Nat /\ Width \in Nat /\ Height \in Nat
  BY SpriteScreen DEF SpriteInv, Sprite!TypeOK
<1>2. x \in Sprite!Lengths /\ y \in Sprite!Lengths
  <2>1. x \in Nat /\ x <= Width /\ y \in Nat /\ y <= Height
    BY <1>1
  <2> QED BY <2>1, SpriteScreen
<1>3. frame' \in [x : Sprite!Lengths, y : Sprite!Lengths, w : Sprite!Lengths]
  BY <1>1, <1>2
<1>4. Sprite!InMargins(frame')
  BY DEF Sprite!InMargins, Sprite!Margin
<1>5. Sprite!MovesIntoMargins
  BY <1>4 DEF Sprite!MovesIntoMargins, Sprite!InMargins, Sprite!Margin
<1>6. Sprite!TypeOK'
  BY <1>3 DEF Sprite!TypeOK
<1> QED BY <1>1, <1>5, <1>6 DEF SpriteInv

LEMMA SpriteBegin == Sprite!Init => SpriteInv
<1> SUFFICES ASSUME Sprite!Init PROVE SpriteInv
  OBVIOUS
<1>1. Start + 2 <= Width /\ Start + 2 <= Height
  BY PartsAssumption DEF PartsAssumption
<1>2. 0 \in Sprite!Lengths /\ Start \in Sprite!Lengths
  <2>1. 0 \in Nat /\ 0 <= Width /\ Start <= Width
    BY <1>1, SpriteScreen
  <2> QED BY <2>1, SpriteScreen
<1>3. frame = [x |-> 0, y |-> 0, w |-> Start] /\ began = frame /\ gesture = "none" /\ frameTimers = 0
      /\ timer = FALSE
  BY DEF Sprite!Init
<1>4. frameTimers \in 0 .. MaxTimers
  BY <1>3, SpriteScreen
<1>5. Sprite!TypeOK
  BY <1>2, <1>3, <1>4 DEF Sprite!TypeOK
<1> QED BY <1>1, <1>3, <1>5 DEF SpriteInv

LEMMA SpritePinches ==
    ASSUME SpriteInv, NEW w \in 1 .. Width, Sprite!SpritePinched(w)
    PROVE  SpriteInv' /\ Sprite!MovesIntoMargins
<1> DEFINE half == Width \div 2
           v == IF w >= half THEN half ELSE w
<1>1. Width \in Nat /\ Width >= 4 /\ half \in Nat /\ half + 2 <= Width /\ half + 2 <= Height
  BY SpriteScreen, PartsAssumption DEF PartsAssumption
<1>2. frame' = [frame EXCEPT !.w = v]
  BY DEF Sprite!SpritePinched
<1> HIDE DEF half
<1>3. v \in Nat /\ v + 2 <= Width /\ v + 2 <= Height /\ v <= Width
  BY <1>1, SpriteScreen
<1> HIDE DEF v
<1>4. frame \in [x : Sprite!Lengths, y : Sprite!Lengths, w : Sprite!Lengths] /\ v \in Sprite!Lengths
  BY <1>3, SpriteScreen DEF SpriteInv, Sprite!TypeOK
<1>5. /\ frame' \in [x : Sprite!Lengths, y : Sprite!Lengths, w : Sprite!Lengths]
      /\ frame'.x = frame.x /\ frame'.y = frame.y /\ frame'.w = v
  BY <1>2, <1>4
<1>6. UNCHANGED <<began, frameTimers, timer>> /\ gesture' \in {"none", "pan", "pinch"}
  BY DEF Sprite!SpritePinched
<1>7. Sprite!TypeOK'
  BY <1>5, <1>6 DEF SpriteInv, Sprite!TypeOK
<1> QED BY <1>3, <1>5, <1>7 DEF SpriteInv, Sprite!MovesIntoMargins

LEMMA SpriteStep ==
    ASSUME SpriteInv, Sprite!Next \/ UNCHANGED spriteVars
    PROVE  SpriteInv' /\ Sprite!MovesIntoMargins
<1> DEFINE Frames == [x : Sprite!Lengths, y : Sprite!Lengths, w : Sprite!Lengths]
           w == frame.w
<1>0. /\ frame \in Frames /\ began \in Frames /\ w \in Nat /\ w + 2 <= Width /\ w + 2 <= Height
      /\ frame.x \in Int /\ frame.y \in Int /\ began.x \in Int /\ began.y \in Int
      /\ gesture \in {"none", "pan", "pinch"}
      /\ frameTimers \in 0 .. MaxTimers /\ timer \in BOOLEAN /\ (timer => frameTimers > 0)
      /\ MaxTimers \in Nat /\ Tilts \subseteq Int
  BY SpriteScreen, PartsAssumption DEF PartsAssumption, SpriteInv, Sprite!TypeOK
<1>1. \A at \in Int :
        /\ Sprite!Inside(Width, w, at) \in 1 .. Width - w - 1
        /\ Sprite!InsideY(Height, w, at) \in 1 .. Height - w - 1
        /\ Sprite!Dragged(Width, w, at) \in 1 .. Width - w - 1
        /\ Sprite!Dragged(Height, w, at) \in 1 .. Height - w - 1
        /\ Sprite!Middle(Width, w) \in 1 .. Width - w - 1
        /\ Sprite!Middle(Height, w) \in 1 .. Height - w - 1
  BY <1>0, SpriteKept
<1> HIDE DEF w
<1>2. CASE Sprite!ViewDidLayoutSubviews
  <2>1. /\ frame' = [x |-> Sprite!Middle(Width, w), y |-> Sprite!Middle(Height, w), w |-> w]
        /\ frameTimers < MaxTimers /\ frameTimers' = frameTimers + 1 /\ timer' = TRUE
        /\ UNCHANGED <<gesture, began>>
    BY <1>2 DEF Sprite!ViewDidLayoutSubviews, Sprite!Schedule, w
  <2>2. frameTimers' \in 0 .. MaxTimers /\ frameTimers' > 0
    BY <1>0, <2>1
  <2>3. Sprite!Middle(Width, w) \in 1 .. Width - w - 1 /\ Sprite!Middle(Height, w) \in 1 .. Height - w - 1
    BY <1>1
  <2>4. timer' \in BOOLEAN
    BY <2>1
  <2> QED BY <1>0, <2>1, <2>2, <2>3, <2>4, SpriteMoved DEF w
<1>3. ASSUME NEW dx \in Tilts, NEW dy \in Tilts, Sprite!UpdateFrame(dx, dy)
      PROVE  SpriteInv' /\ Sprite!MovesIntoMargins
  <2> DEFINE x == Sprite!Inside(Width, w, frame.x + dx)
             y == Sprite!InsideY(Height, w, frame.y - dy)
  <2>1. frame' = [frame EXCEPT !.x = x, !.y = y] /\ UNCHANGED <<gesture, began, frameTimers, timer>>
    BY <1>3 DEF Sprite!UpdateFrame, w
  <2>2. frame.x + dx \in Int /\ frame.y - dy \in Int
    BY <1>0
  <2>3. x \in 1 .. Width - w - 1 /\ y \in 1 .. Height - w - 1
    BY <1>1, <2>2
  <2> HIDE DEF x, y
  <2>4. frame' = [x |-> x, y |-> y, w |-> w]
    BY <1>0, <2>1 DEF w
  <2> QED BY <1>0, <2>1, <2>3, <2>4, SpriteMoved DEF w
<1>4. ASSUME NEW from \in Frames, NEW dx \in Int, NEW dy \in Int, Sprite!Panned(from, dx, dy),
             gesture' \in {"none", "pan", "pinch"}, began' \in Frames, frameTimers' \in 0 .. MaxTimers,
             timer' \in BOOLEAN, timer' => frameTimers' > 0
      PROVE  SpriteInv' /\ Sprite!MovesIntoMargins
  <2> DEFINE x == Sprite!Dragged(Width, w, from.x + dx)
             y == Sprite!Dragged(Height, w, from.y + dy)
  <2>1. frame' = [frame EXCEPT !.x = x, !.y = y]
    BY <1>4 DEF Sprite!Panned, w
  <2>2. from.x + dx \in Int /\ from.y + dy \in Int
    BY SpriteScreen
  <2>3. x \in 1 .. Width - w - 1 /\ y \in 1 .. Height - w - 1
    BY <1>1, <2>2
  <2> HIDE DEF x, y
  <2>4. frame' = [x |-> x, y |-> y, w |-> w]
    BY <1>0, <2>1 DEF w
  <2> QED BY <1>4, <2>3, <2>4, SpriteMoved DEF w
<1>5. CASE Sprite!PanBegan
  <2>1. /\ gesture' = "pan" /\ began' = frame /\ Sprite!Panned(frame, 0, 0)
        /\ frameTimers' = frameTimers - (IF timer THEN 1 ELSE 0) /\ timer' = FALSE
    BY <1>5 DEF Sprite!PanBegan, Sprite!Invalidate
  <2>2. frameTimers' \in 0 .. MaxTimers
    <3>1. CASE timer
      <4>1. frameTimers' = frameTimers - 1 /\ frameTimers > 0
        BY <1>0, <2>1, <3>1
      <4> QED BY <1>0, <4>1
    <3>2. CASE ~timer
      <4>1. frameTimers' = frameTimers - 0
        BY <2>1, <3>2
      <4> QED BY <1>0, <4>1
    <3> QED BY <3>1, <3>2
  <2>3. timer' \in BOOLEAN /\ (timer' => frameTimers' > 0)
    BY <2>1
  <2>4. 0 \in Int /\ gesture' \in {"none", "pan", "pinch"} /\ began' \in Frames
    BY <1>0, <2>1
  <2> QED BY <1>0, <1>4, <2>1, <2>2, <2>3, <2>4
<1>6. ASSUME NEW dx \in Tilts, NEW dy \in Tilts, Sprite!PanMoved(dx, dy) \/ Sprite!PanCancelled(dx, dy)
      PROVE  SpriteInv' /\ Sprite!MovesIntoMargins
  <2>1. /\ gesture' \in {"none", "pan"} /\ Sprite!Panned(began, dx, dy)
        /\ UNCHANGED <<began, frameTimers, timer>>
    BY <1>6, <1>0 DEF Sprite!PanMoved, Sprite!PanCancelled
  <2> QED BY <1>0, <1>4, <2>1
<1>7. ASSUME NEW dx \in Tilts, NEW dy \in Tilts, Sprite!PanEnded(dx, dy)
      PROVE  SpriteInv' /\ Sprite!MovesIntoMargins
  <2>1. /\ gesture' = "none" /\ Sprite!Panned(began, dx, dy) /\ began' = began
        /\ frameTimers < MaxTimers /\ frameTimers' = frameTimers + 1 /\ timer' = TRUE
    BY <1>7 DEF Sprite!PanEnded, Sprite!Schedule
  <2>2. frameTimers' \in 0 .. MaxTimers /\ frameTimers' > 0
    BY <1>0, <2>1
  <2> QED BY <1>0, <1>4, <2>1, <2>2
<1>8. CASE UNCHANGED spriteVars
  BY <1>8 DEF spriteVars, SpriteInv, Sprite!TypeOK, Sprite!MovesIntoMargins
<1> QED BY <1>2, <1>3, <1>5, <1>6, <1>7, <1>8, SpritePinches DEF Sprite!Next
-----------------------------------------------------------------------------
(* WorldUpdateLoop, whose clock does not wrap.                             *)

\* The pace, stated at every point of the loop: where the clock stands between the
\* grid of turns and the locals the next decision is made from.
Pace ==
    /\ TypeOK
    /\ clock <= MaxUint64
    /\ realPrevTime <= clock
    /\ prevSleepTime <= WORLD_SLEEP_CONST
    /\ pc = "top" =>
         /\ clock = turns * WORLD_SLEEP_CONST + busy + lost
         /\ clock = realPrevTime + busy + prevSleepTime
    /\ pc = "work" =>
         /\ clock + WORLD_SLEEP_CONST = turns * WORLD_SLEEP_CONST + busy + lost
         /\ diff = busy + prevSleepTime
         /\ realCurrTime = clock
    /\ pc = "sleep" =>
         /\ clock + prevSleepTime = turns * WORLD_SLEEP_CONST + busy + lost
         /\ clock = realPrevTime + busy

LEMMA NextTurn ==
    ASSUME NEW n \in Nat
    PROVE  (n + 1) * WORLD_SLEEP_CONST = n * WORLD_SLEEP_CONST + WORLD_SLEEP_CONST
  BY ClockAssumption DEF ClockAssumption

\* A clock that has not passed MaxUint64 reads as itself.
LEMMA ReadsTrue ==
    ASSUME NEW t \in 0 .. MaxUint64
    PROVE  t % (MaxUint64 + 1) = t
  BY ClockAssumption DEF ClockAssumption

LEMMA PaceInit == Init => Pace
  BY ClockAssumption DEF ClockAssumption, Init, Pace, TypeOK

LEMMA PaceStep ==
    ASSUME MaxClock <= MaxUint64, Pace, [Next]_vars
    PROVE  Pace'
<1> USE ClockAssumption DEF ClockAssumption
<1>1. CASE Measure
  <2>1. getMSTime = clock
    BY ReadsTrue DEF getMSTime, Pace, TypeOK
  <2>2. diff' = clock - realPrevTime
    BY <1>1, <2>1 DEF Measure, getMSTimeDiff, Pace, TypeOK
  <2>3. turns' * WORLD_SLEEP_CONST = turns * WORLD_SLEEP_CONST + WORLD_SLEEP_CONST
    BY <1>1, NextTurn DEF Measure, Pace, TypeOK
  <2>4. QED
    BY <1>1, <2>1, <2>2, <2>3 DEF Measure, Pace, TypeOK
<1>2. ASSUME NEW d \in 0 .. MaxBusy, Work(d)
      PROVE  Pace'
  <2>1. turns' * WORLD_SLEEP_CONST = turns * WORLD_SLEEP_CONST /\ turns * WORLD_SLEEP_CONST \in Int
    BY <1>2 DEF Work, Pace, TypeOK
  <2>2. CASE InTime
    <3>1. busy <= WORLD_SLEEP_CONST /\ SleepTime = WORLD_SLEEP_CONST - busy
      BY <1>2, <2>2 DEF Work, InTime, SleepTime, Pace, TypeOK
    <3>2. QED
      BY <1>2, <2>1, <2>2, <3>1 DEF Work, Excess, Pace, TypeOK
  <2>3. CASE ~InTime
    <3>1. busy > WORLD_SLEEP_CONST /\ SleepTime = 0
      BY <1>2, <2>3 DEF Work, InTime, SleepTime, Pace, TypeOK
    <3>2. QED
      BY <1>2, <2>1, <2>3, <3>1 DEF Work, Excess, Pace, TypeOK
  <2>4. QED
    BY <2>2, <2>3
<1>3. ASSUME NEW e \in 0 .. MaxBusy, Sleep(e)
      PROVE  Pace'
  <2>1. turns' * WORLD_SLEEP_CONST = turns * WORLD_SLEEP_CONST /\ turns * WORLD_SLEEP_CONST \in Int
    BY <1>3 DEF Sleep, Pace, TypeOK
  <2>2. QED
    BY <1>3, <2>1 DEF Sleep, Pace, TypeOK
<1>4. CASE UNCHANGED vars
  BY <1>4 DEF vars, Pace, TypeOK
<1>5. QED
  BY <1>1, <1>2, <1>3, <1>4 DEF Next

-----------------------------------------------------------------------------
(* Forking is safe as long as base_alloc does not run out of pages: the    *)
(* mutexes have ranks, in the order in which jemalloc_prefork takes them,  *)
(* and no thread waits for one whose rank is not above those of all that   *)
(* it holds.                                                               *)


Rank ==
    [m \in Mutexes!Mutexes |->
        IF m = "ctl_mtx" THEN 1 ELSE IF m = "arenas_lock" THEN 2 ELSE IF m = "arena" THEN 3
        ELSE IF m = "bin" THEN 4 ELSE IF m = "chunks_mtx" THEN 5 ELSE IF m = "base_mtx" THEN 6
        ELSE 7]

\* The mutexes of ranks up to k.
UpTo(k) == {m \in Mutexes!Mutexes : Rank[m] <= k}

\* The mutexes are exclusive.
Exclusive == \A t, u \in Threads : \A m \in locks[t] : m \in locks[u] => t = u

\* A thread waits for a mutex that ranks above all that it holds.
Ordered == \A t \in Threads : wants[t] # None => \A m \in locks[t] : Rank[m] < Rank[wants[t]]

\* The thread that forks holds the mutexes it has come to, or waits for the last of them; then it
\* holds those it has not let go of.
Forking ==
    fork # Mutexes!NoFork =>
        LET t == fork.t
        IN /\ fork.pc = "prefork" /\ wants[t] = None => locks[t] = UpTo(fork.i - 1)
           /\ fork.pc = "prefork" /\ wants[t] # None =>
                fork.i > 1 /\ Rank[wants[t]] = fork.i - 1 /\ locks[t] = UpTo(fork.i - 2)
           /\ fork.pc = "postfork" => wants[t] = None /\ fork.i <= 7 /\ locks[t] = UpTo(8 - fork.i)

Orphan == child \in {None, {}, Mutexes!Mutexes}

ForkInv == Mutexes!TypeOK /\ Exclusive /\ Ordered /\ Forking /\ Orphan
-----------------------------------------------------------------------------
(* The order that both the calls and jemalloc_prefork keep.                *)

LEMMA Ranks ==
    /\ \A m \in Mutexes!Mutexes : Rank[m] \in 1 .. 7
    /\ \A m, n \in Mutexes!Mutexes : Rank[m] = Rank[n] => m = n
  BY DEF Rank, Mutexes!Mutexes

LEMMA Order ==
    /\ Len(Mutexes!prefork) = 7 /\ Len(Mutexes!postfork) = 7
    /\ \A i \in 1 .. 7 : Mutexes!prefork[i] \in Mutexes!Mutexes /\ Rank[Mutexes!prefork[i]] = i
    /\ \A i \in 1 .. 7 : Mutexes!postfork[i] \in Mutexes!Mutexes /\ Rank[Mutexes!postfork[i]] = 8 - i
<1>1. Len(Mutexes!prefork) = 7 /\ Len(Mutexes!postfork) = 7
  BY DEF Mutexes!prefork, Mutexes!postfork
<1>2. \A i \in 1 .. 7 : Mutexes!prefork[i] \in Mutexes!Mutexes /\ Rank[Mutexes!prefork[i]] = i
  BY DEF Mutexes!prefork, Rank, Mutexes!Mutexes
<1>3. \A i \in 1 .. 7 : Mutexes!postfork[i] \in Mutexes!Mutexes /\ Rank[Mutexes!postfork[i]] = 8 - i
  BY DEF Mutexes!postfork, Rank, Mutexes!Mutexes
<1> QED BY <1>1, <1>2, <1>3

LEMMA NestedAbove ==
    ASSUME ~BaseGrows, NEW n \in Mutexes!Mutexes, NEW m \in Mutexes!Nested(n)
    PROVE  m \in Mutexes!Mutexes /\ Rank[n] < Rank[m]
  BY DEF Mutexes!Nested, Rank, Mutexes!Mutexes

LEMMA Levels ==
    /\ UpTo(0) = {}
    /\ UpTo(7) = Mutexes!Mutexes
    /\ \A k \in 1 .. 7 : UpTo(k) = UpTo(k - 1) \union {Mutexes!prefork[k]}
    /\ \A k \in 1 .. 7 : UpTo(k - 1) = UpTo(k) \ {Mutexes!postfork[8 - k]}
<1>1. UpTo(0) = {} /\ UpTo(7) = Mutexes!Mutexes
  BY Ranks DEF UpTo
<1>2. ASSUME NEW k \in 1 .. 7
      PROVE  UpTo(k) = UpTo(k - 1) \union {Mutexes!prefork[k]} /\ UpTo(k - 1) = UpTo(k) \ {Mutexes!postfork[8 - k]}
  <2>1. Mutexes!prefork[k] \in Mutexes!Mutexes /\ Rank[Mutexes!prefork[k]] = k /\ Mutexes!postfork[8 - k] = Mutexes!prefork[k]
    <3>1. 8 - k \in 1 .. 7 /\ 8 - (8 - k) = k
      OBVIOUS
    <3> QED BY <3>1, Order, Ranks
  <2>2. \A m \in Mutexes!Mutexes : Rank[m] <= k <=> Rank[m] <= k - 1 \/ m = Mutexes!prefork[k]
    BY <2>1, Ranks
  <2>3. \A m \in Mutexes!Mutexes : Rank[m] <= k - 1 <=> Rank[m] <= k /\ m # Mutexes!prefork[k]
    BY <2>1, Ranks
  <2> QED BY <2>1, <2>2, <2>3 DEF UpTo
<1> QED BY <1>1, <1>2
-----------------------------------------------------------------------------
(* The invariant, one lemma for each action.                               *)

LEMMA ForkInit == Mutexes!Init => ForkInv
  BY DEF Mutexes!Init, ForkInv, Mutexes!TypeOK, Exclusive, Ordered, Forking, Orphan, Mutexes!NoFork

LEMMA MutexWanted ==
    ASSUME ~BaseGrows, None \notin Mutexes!Mutexes, ForkInv, NEW t \in Threads, Mutexes!Lock(t)
    PROVE  ForkInv'
<1>1. PICK m \in Mutexes!Mutexes : (\A n \in locks[t] : m \in Mutexes!Nested(n)) /\ wants' = [wants EXCEPT ![t] = m]
  BY DEF Mutexes!Lock
<1>2. UNCHANGED <<locks, fork, child>> /\ ~Mutexes!Forks(t) /\ Mutexes!TypeOK
  BY DEF Mutexes!Lock, ForkInv
<1>3. locks[t] \subseteq Mutexes!Mutexes
  BY <1>2 DEF Mutexes!TypeOK
<1>4. \A n \in locks[t] : Rank[n] < Rank[m]
  BY <1>1, <1>3, NestedAbove
<1>5. wants'[t] = m /\ \A u \in Threads \ {t} : wants'[u] = wants[u]
  BY <1>1, <1>2 DEF Mutexes!TypeOK
<1>6. Mutexes!TypeOK'
  BY <1>1, <1>2 DEF Mutexes!TypeOK
<1>7. Ordered'
  BY <1>2, <1>4, <1>5 DEF ForkInv, Ordered
<1>8. Forking'
  <2>1. fork # Mutexes!NoFork => fork.t \in Threads \ {t}
    BY <1>2 DEF Mutexes!Forks, Mutexes!TypeOK
  <2> QED BY <2>1, <1>2, <1>5 DEF ForkInv, Forking
<1>9. Exclusive' /\ Orphan'
  BY <1>2 DEF ForkInv, Exclusive, Orphan
<1> QED BY <1>6, <1>7, <1>8, <1>9 DEF ForkInv

LEMMA MutexTaken ==
    ASSUME None \notin Mutexes!Mutexes, ForkInv, NEW t \in Threads, Mutexes!Locked(t)
    PROVE  ForkInv'
<1> DEFINE m == wants[t]
<1>1. /\ m \in Mutexes!Mutexes /\ Mutexes!Holder(m) = {}
      /\ locks' = [locks EXCEPT ![t] = @ \union {m}]
      /\ wants' = [wants EXCEPT ![t] = None]
      /\ UNCHANGED <<fork, child>> /\ Mutexes!TypeOK
  BY DEF Mutexes!Locked, ForkInv, Mutexes!TypeOK
<1>2. /\ locks'[t] = locks[t] \union {m} /\ wants'[t] = None
      /\ \A u \in Threads \ {t} : locks'[u] = locks[u] /\ wants'[u] = wants[u]
  BY <1>1 DEF Mutexes!TypeOK
<1>3. Mutexes!TypeOK'
  BY <1>1 DEF Mutexes!TypeOK
<1>4. Exclusive'
  <2>1. \A u \in Threads : m \notin locks[u]
    BY <1>1 DEF Mutexes!Holder
  <2> QED BY <2>1, <1>2 DEF ForkInv, Exclusive
<1>5. Ordered'
  BY <1>2 DEF ForkInv, Ordered
<1>6. Forking'
  <2>1. CASE fork = Mutexes!NoFork \/ fork.t # t
    <3>1. fork # Mutexes!NoFork => fork.t \in Threads \ {t}
      BY <2>1, <1>1 DEF Mutexes!TypeOK
    <3> QED BY <3>1, <1>1, <1>2 DEF ForkInv, Forking
  <2>2. CASE fork # Mutexes!NoFork /\ fork.t = t
    <3>1. m # None
      BY <1>1
    <3>2. fork.pc = "prefork" /\ fork.i > 1 /\ Rank[m] = fork.i - 1 /\ locks[t] = UpTo(fork.i - 2)
      BY <2>2, <3>1, <1>1 DEF ForkInv, Forking, Mutexes!TypeOK, Mutexes!NoFork
    <3>3. fork.i \in 2 .. 8
      BY <2>2, <3>2, <1>1, Order DEF Mutexes!TypeOK, Mutexes!NoFork
    <3>4. fork.i - 1 \in 1 .. 7 /\ (fork.i - 1) - 1 = fork.i - 2
      BY <3>3
    <3>5. m = Mutexes!prefork[fork.i - 1]
      BY <3>2, <3>4, <1>1, Order, Ranks
    <3>6. locks'[t] = UpTo(fork.i - 1)
      BY <3>2, <3>4, <3>5, <1>2, Levels
    <3> QED BY <2>2, <3>2, <3>6, <1>1, <1>2 DEF Forking
  <2> QED BY <2>1, <2>2
<1>7. Orphan'
  BY <1>1 DEF ForkInv, Orphan
<1> QED BY <1>3, <1>4, <1>5, <1>6, <1>7 DEF ForkInv

LEMMA MutexFreed ==
    ASSUME ForkInv, NEW t \in Threads, Mutexes!Unlock(t)
    PROVE  ForkInv'
<1>1. PICK m \in locks[t] : locks' = [locks EXCEPT ![t] = @ \ {m}]
  BY DEF Mutexes!Unlock
<1>2. UNCHANGED <<wants, fork, child>> /\ ~Mutexes!Forks(t) /\ Mutexes!TypeOK
  BY DEF Mutexes!Unlock, ForkInv
<1>3. locks'[t] = locks[t] \ {m} /\ \A u \in Threads \ {t} : locks'[u] = locks[u]
  BY <1>1, <1>2 DEF Mutexes!TypeOK
<1>4. Mutexes!TypeOK'
  BY <1>1, <1>2 DEF Mutexes!TypeOK
<1>5. Exclusive' /\ Ordered'
  BY <1>2, <1>3 DEF ForkInv, Exclusive, Ordered
<1>6. Forking'
  <2>1. fork # Mutexes!NoFork => fork.t \in Threads \ {t}
    BY <1>2 DEF Mutexes!Forks, Mutexes!TypeOK
  <2> QED BY <2>1, <1>2, <1>3 DEF ForkInv, Forking
<1> QED BY <1>2, <1>4, <1>5, <1>6 DEF ForkInv, Orphan

LEMMA ForkBegun ==
    ASSUME ForkInv, NEW t \in Threads, Mutexes!Begin(t)
    PROVE  ForkInv'
<1>1. /\ locks[t] = {} /\ wants[t] = None /\ UNCHANGED <<locks, wants>>
      /\ fork' = [pc |-> "prefork", t |-> t, i |-> 1] /\ child' = None /\ Mutexes!TypeOK
  BY DEF Mutexes!Begin, ForkInv
<1>2. Mutexes!TypeOK'
  BY <1>1, Order DEF Mutexes!TypeOK
<1>3. Forking'
  BY <1>1, Levels DEF Forking
<1>4. Exclusive' /\ Ordered' /\ Orphan'
  BY <1>1 DEF ForkInv, Exclusive, Ordered, Orphan
<1> QED BY <1>2, <1>3, <1>4 DEF ForkInv

LEMMA PreforkKeeps ==
    ASSUME None \notin Mutexes!Mutexes, ForkInv, Mutexes!jemalloc_prefork
    PROVE  ForkInv'
<1> DEFINE t == fork.t
           m == Mutexes!prefork[fork.i]
<1>1. /\ fork \in [pc : {"prefork", "postfork"}, t : Threads, i : 1 .. 8]
      /\ fork.pc = "prefork" /\ fork.i \in 1 .. 7 /\ wants[t] = None /\ Mutexes!TypeOK
      /\ wants' = [wants EXCEPT ![t] = m]
      /\ fork' = [fork EXCEPT !.i = @ + 1] /\ UNCHANGED <<locks, child>>
  BY Order DEF Mutexes!jemalloc_prefork, ForkInv, Mutexes!TypeOK, Mutexes!NoFork
<1>2. m \in Mutexes!Mutexes /\ Rank[m] = fork.i
  BY <1>1, Order
<1>3. fork # Mutexes!NoFork
  BY <1>1 DEF Mutexes!NoFork
<1>4. locks[t] = UpTo(fork.i - 1)
  BY <1>1, <1>3 DEF ForkInv, Forking
<1>5. fork' # Mutexes!NoFork /\ fork'.pc = "prefork" /\ fork'.t = t /\ fork'.i = fork.i + 1
  BY <1>1 DEF Mutexes!NoFork
<1>6. wants'[t] = m /\ \A u \in Threads \ {t} : wants'[u] = wants[u]
  BY <1>1 DEF Mutexes!TypeOK
<1>7. Mutexes!TypeOK'
  BY <1>1, <1>2, Order DEF Mutexes!TypeOK
<1>8. Ordered'
  <2>1. \A n \in locks[t] : Rank[n] < Rank[m]
    BY <1>1, <1>2, <1>4, Ranks DEF UpTo
  <2> QED BY <2>1, <1>1, <1>6 DEF ForkInv, Ordered
<1>9. Forking'
  <2>1. fork'.i > 1 /\ fork'.i - 1 = fork.i /\ fork'.i - 2 = fork.i - 1
    BY <1>1, <1>5
  <2>2. wants'[t] # None
    BY <1>2, <1>6
  <2> QED BY <2>1, <2>2, <1>1, <1>2, <1>4, <1>5, <1>6 DEF Forking
<1>10. Exclusive' /\ Orphan'
  BY <1>1 DEF ForkInv, Exclusive, Orphan
<1> QED BY <1>7, <1>8, <1>9, <1>10 DEF ForkInv

LEMMA ForkKeeps ==
    ASSUME ForkInv, Mutexes!Fork
    PROVE  ForkInv'
<1> DEFINE t == fork.t
<1>1. /\ fork \in [pc : {"prefork", "postfork"}, t : Threads, i : 1 .. 8]
      /\ fork.pc = "prefork" /\ fork.i = 8 /\ wants[t] = None /\ Mutexes!TypeOK
      /\ child' = {m \in Mutexes!Mutexes : Mutexes!Holder(m) # {}}
      /\ fork' = [pc |-> "postfork", t |-> fork.t, i |-> 1] /\ UNCHANGED <<locks, wants>>
  BY Order DEF Mutexes!Fork, ForkInv, Mutexes!TypeOK, Mutexes!NoFork
<1>2. fork # Mutexes!NoFork
  BY <1>1 DEF Mutexes!NoFork
<1>3. locks[t] = Mutexes!Mutexes
  <2>1. locks[t] = UpTo(fork.i - 1)
    BY <1>1, <1>2 DEF ForkInv, Forking
  <2> QED BY <2>1, <1>1, Levels
<1>4. fork'.pc = "postfork" /\ fork'.t = t /\ fork'.i = 1
  BY <1>1
<1>5. Mutexes!TypeOK'
  <2>1. fork' \in [pc : {"prefork", "postfork"}, t : Threads, i : 1 .. Len(Mutexes!prefork) + 1]
    <3>1. fork' \in [pc : {"prefork", "postfork"}, t : Threads, i : 1 .. 8]
      BY <1>1
    <3>2. Len(Mutexes!prefork) + 1 = 8
      BY Order
    <3> QED BY <3>1, <3>2
  <2>2. child' \in SUBSET Mutexes!Mutexes
    BY <1>1
  <2> QED BY <2>1, <2>2, <1>1 DEF Mutexes!TypeOK
<1>6. Forking'
  BY <1>1, <1>3, <1>4, Levels DEF Forking
<1>7. Orphan'
  <2>1. t \in Threads
    BY <1>1
  <2>2. \A m \in Mutexes!Mutexes : t \in Mutexes!Holder(m)
    BY <2>1, <1>3 DEF Mutexes!Holder
  <2> QED BY <2>2, <1>1 DEF Orphan
<1>8. Exclusive' /\ Ordered'
  BY <1>1 DEF ForkInv, Exclusive, Ordered
<1> QED BY <1>5, <1>6, <1>7, <1>8 DEF ForkInv

LEMMA ParentKeeps ==
    ASSUME ForkInv, Mutexes!jemalloc_postfork_parent
    PROVE  ForkInv'
<1> DEFINE t == fork.t
           m == Mutexes!postfork[fork.i]
<1>1. /\ fork \in [pc : {"prefork", "postfork"}, t : Threads, i : 1 .. 8]
      /\ fork.pc = "postfork" /\ Mutexes!TypeOK
      /\ locks' = [locks EXCEPT ![t] = @ \ {m}]
      /\ fork' = IF fork.i = 7 THEN Mutexes!NoFork ELSE [fork EXCEPT !.i = @ + 1]
      /\ UNCHANGED <<wants, child>>
  BY Order DEF Mutexes!jemalloc_postfork_parent, ForkInv, Mutexes!TypeOK, Mutexes!NoFork
<1>2. fork # Mutexes!NoFork
  BY <1>1 DEF Mutexes!NoFork
<1>3. wants[t] = None /\ fork.i \in 1 .. 7 /\ locks[t] = UpTo(8 - fork.i)
  BY <1>1, <1>2 DEF ForkInv, Forking
<1>4. locks'[t] = locks[t] \ {m} /\ \A u \in Threads \ {t} : locks'[u] = locks[u]
  BY <1>1 DEF Mutexes!TypeOK
<1>5. Mutexes!TypeOK'
  BY <1>1, <1>3, Order DEF Mutexes!TypeOK
<1>6. Forking'
  <2>1. CASE fork.i = 7
    BY <2>1, <1>1 DEF Forking
  <2>2. CASE fork.i # 7
    <3>1. /\ fork'.pc = "postfork" /\ fork'.t = t /\ fork'.i = fork.i + 1 /\ fork'.i <= 7
      BY <2>2, <1>1, <1>3
    <3>2. 8 - fork.i \in 1 .. 7 /\ (8 - fork.i) - 1 = 8 - fork'.i /\ 8 - (8 - fork.i) = fork.i
      BY <3>1, <1>3
    <3>3. locks'[t] = UpTo(8 - fork'.i)
      BY <3>2, <1>3, <1>4, Levels
    <3> QED BY <3>1, <3>3, <1>1, <1>3 DEF Forking
  <2> QED BY <2>1, <2>2
<1>7. Exclusive' /\ Ordered' /\ Orphan'
  BY <1>1, <1>4 DEF ForkInv, Exclusive, Ordered, Orphan
<1> QED BY <1>5, <1>6, <1>7 DEF ForkInv

LEMMA ChildKeeps ==
    ASSUME ForkInv, Mutexes!jemalloc_postfork_child
    PROVE  ForkInv'
<1>1. /\ child = Mutexes!Mutexes /\ child' = child \ {Mutexes!postfork[i] : i \in DOMAIN Mutexes!postfork}
      /\ UNCHANGED <<locks, wants, fork>> /\ Mutexes!TypeOK
  BY DEF Mutexes!jemalloc_postfork_child, ForkInv, Orphan
<1>2. \A m \in Mutexes!Mutexes : 8 - Rank[m] \in DOMAIN Mutexes!postfork /\ Mutexes!postfork[8 - Rank[m]] = m
  <2>1. DOMAIN Mutexes!postfork = 1 .. 7
    BY DEF Mutexes!postfork
  <2>2. \A m \in Mutexes!Mutexes : 8 - Rank[m] \in 1 .. 7 /\ 8 - (8 - Rank[m]) = Rank[m]
    BY Ranks
  <2> QED BY <2>1, <2>2, Order, Ranks
<1>3. child' = {}
  BY <1>1, <1>2
<1> QED BY <1>1, <1>3 DEF ForkInv, Mutexes!TypeOK, Exclusive, Ordered, Forking, Orphan

LEMMA ForkStep ==
    ASSUME ~BaseGrows, None \notin Mutexes!Mutexes, ForkInv, [Mutexes!Next]_mutexesVars
    PROVE  ForkInv'
<1>1. ASSUME NEW t \in Threads, Mutexes!Lock(t) \/ Mutexes!Locked(t) \/ Mutexes!Unlock(t) \/ Mutexes!Begin(t)
      PROVE  ForkInv'
  BY <1>1, MutexWanted, MutexTaken, MutexFreed, ForkBegun
<1>2. CASE Mutexes!jemalloc_prefork
  BY <1>2, PreforkKeeps
<1>3. CASE Mutexes!Fork
  BY <1>3, ForkKeeps
<1>4. CASE Mutexes!jemalloc_postfork_parent
  BY <1>4, ParentKeeps
<1>5. CASE Mutexes!jemalloc_postfork_child
  BY <1>5, ChildKeeps
<1>6. CASE UNCHANGED mutexesVars
  BY <1>6 DEF mutexesVars, ForkInv, Mutexes!TypeOK, Exclusive, Ordered, Forking, Orphan
<1> QED BY <1>1, <1>2, <1>3, <1>4, <1>5, <1>6 DEF Mutexes!Next
-----------------------------------------------------------------------------
\* In a circle each thread wants a mutex whose holder wants one that ranks higher.
LEMMA NoCircle ==
    ASSUME None \notin Mutexes!Mutexes, Mutexes!TypeOK, Ordered
    PROVE  Mutexes!SafeOrder
<1> SUFFICES ASSUME NEW S \in SUBSET Threads, S # {},
                    \A t \in S : wants[t] # None /\ Mutexes!Holder(wants[t]) \intersect S # {}
             PROVE  FALSE
  BY DEF Mutexes!SafeOrder
<1> DEFINE R(t) == Rank[wants[t]]
<1>1. \A t \in S : R(t) \in 1 .. 7
  BY Ranks DEF Mutexes!TypeOK
<1>2. \A t \in S : \E u \in S : R(t) < R(u)
  BY DEF Mutexes!Holder, Ordered
<1> HIDE DEF R
<1>3. ASSUME NEW k \in 1 .. 6, \A t \in S : R(t) <= k + 1
      PROVE  \A t \in S : R(t) <= k
  <2> SUFFICES ASSUME NEW t \in S
               PROVE  R(t) <= k
    OBVIOUS
  <2>1. PICK u \in S : R(t) < R(u)
    BY <1>2
  <2>2. R(t) \in 1 .. 7 /\ R(u) \in 1 .. 7 /\ R(u) <= k + 1
    BY <1>1, <1>3
  <2> QED BY <2>1, <2>2
<1>4. \A t \in S : R(t) <= 6
  BY <1>1, <1>3
<1>5. \A t \in S : R(t) <= 5
  BY <1>3, <1>4
<1>6. \A t \in S : R(t) <= 4
  BY <1>3, <1>5
<1>7. \A t \in S : R(t) <= 3
  BY <1>3, <1>6
<1>8. \A t \in S : R(t) <= 2
  BY <1>3, <1>7
<1>9. \A t \in S : R(t) <= 1
  BY <1>3, <1>8
<1> QED BY <1>1, <1>2, <1>9

\* The parent holds every mutex at the fork, so no other thread holds one.
LEMMA Served ==
    ASSUME ForkInv
    PROVE  Mutexes!ChildServed
<1>1. ASSUME fork # Mutexes!NoFork, fork.pc = "postfork", fork.i = 1, NEW t \in Threads \ {fork.t}
      PROVE  locks[t] = {}
  <2>1. locks[fork.t] = Mutexes!Mutexes /\ fork.t \in Threads
    BY <1>1, Levels DEF ForkInv, Forking, Mutexes!TypeOK
  <2>2. locks[t] \subseteq Mutexes!Mutexes
    BY DEF ForkInv, Mutexes!TypeOK
  <2> QED BY <2>1, <2>2 DEF ForkInv, Exclusive
<1> QED BY <1>1 DEF Mutexes!ChildServed, ForkInv, Orphan

-----------------------------------------------------------------------------
(* The allocator's arenas.  An array of n arenas, with None where there is *)
(* none, counts the threads that are assigned to each.                     *)

Slots == Nat \union {None}

Users(asg, i) == {t \in Threads : asg[t] = i}

Table(as, asg, n) ==
    /\ as \in [0 .. n - 1 -> Slots] /\ asg \in [Threads -> Slots]
    /\ n > 0 /\ as[0] # None
    /\ \A t \in Threads : asg[t] # None => asg[t] \in 0 .. n - 1 /\ as[asg[t]] # None
    /\ \A i \in 0 .. n - 1 : as[i] # None => as[i] = Cardinality(Users(asg, i))

\* No arena goes away.
Alive(as, bs, n) == \A i \in 0 .. n - 1 : as[i] # None => bs[i] # None

LEMMA ArenasCardinality ==
    ASSUME NEW S
    PROVE  ArenaUse!Cardinality(S) = Cardinality(S)
  BY DEF ArenaUse!Cardinality, Cardinality

LEMMA ArenasSums ==
    ASSUME NEW f, NEW S
    PROVE  ArenaUse!SumFunctionOnSet(f, S) = SumFunctionOnSet(f, S)
  BY DEF ArenaUse!SumFunctionOnSet, SumFunctionOnSet, ArenaUse!FoldFunctionOnSet, FoldFunctionOnSet,
         ArenaUse!MapThenFoldSet, MapThenFoldSet

LEMMA SlotsAndThreads ==
    /\ IsFiniteSet(Threads) /\ None \notin Nat /\ None \notin Threads
    /\ None \in Slots /\ Nat \subseteq Slots /\ \A i \in Slots : i # None => i \in Nat
    /\ NAuto \in Nat \ {0, 1} /\ MaxArenas \in Nat
    /\ \A asg, i : IsFiniteSet(Users(asg, i)) /\ Cardinality(Users(asg, i)) \in Nat
<1>1. \A asg, i : Users(asg, i) \subseteq Threads
  BY DEF Users
<1> QED BY <1>1, PartsAssumption, FS_Subset, FS_CardinalityType DEF PartsAssumption, Slots

\* A thread that was assigned to an arena is assigned to none.
LEMMA UserLeaves ==
    ASSUME NEW n \in Nat, NEW as, NEW asg, Table(as, asg, n), NEW t \in Threads, asg[t] # None
    PROVE  /\ asg[t] \in 0 .. n - 1 /\ as[asg[t]] \in Nat \ {0}
           /\ Table([as EXCEPT ![asg[t]] = @ - 1], [asg EXCEPT ![t] = None], n)
           /\ Alive(as, [as EXCEPT ![asg[t]] = @ - 1], n)
<1> DEFINE k == asg[t]
           bs == [as EXCEPT ![k] = as[k] - 1]
           bsg == [asg EXCEPT ![t] = None]
<1>0. as \in [0 .. n - 1 -> Slots] /\ asg \in [Threads -> Slots] /\ n > 0 /\ as[0] # None
  BY DEF Table
<1>1. k \in 0 .. n - 1 /\ as[k] # None /\ as[k] = Cardinality(Users(asg, k))
  BY DEF Table
<1>2. t \in Users(asg, k)
  BY DEF Users
<1>3. Users(bsg, k) = Users(asg, k) \ {t} /\ \A i \in 0 .. n - 1 : i # k => Users(bsg, i) = Users(asg, i)
  BY <1>0, <1>1, SlotsAndThreads DEF Users
<1>4. as[k] \in Nat \ {0} /\ Cardinality(Users(bsg, k)) = as[k] - 1
  BY <1>1, <1>2, <1>3, OneLess, SlotsAndThreads
<1>5. bs \in [0 .. n - 1 -> Slots] /\ bsg \in [Threads -> Slots] /\ bs[k] = as[k] - 1
      /\ \A i \in 0 .. n - 1 : i # k => bs[i] = as[i]
  <2>1. as[k] - 1 \in Slots /\ None \in Slots
    BY <1>4, SlotsAndThreads
  <2> QED BY <1>0, <1>1, <2>1
<1>6. bs[0] # None /\ as[k] - 1 # None
  <2>1. 0 \in 0 .. n - 1
    BY <1>0
  <2>2. as[k] - 1 # None
    BY <1>4, SlotsAndThreads
  <2> HIDE DEF bs, bsg, k
  <2> QED BY <1>0, <1>5, <2>1, <2>2
<1>7. \A u \in Threads : bsg[u] # None => bsg[u] \in 0 .. n - 1 /\ bs[bsg[u]] # None
  <2> TAKE u \in Threads
  <2>1. bsg[u] # None => u # t /\ bsg[u] = asg[u]
    BY <1>0
  <2>2. asg[u] # None => asg[u] \in 0 .. n - 1 /\ as[asg[u]] # None
    BY DEF Table
  <2> HIDE DEF bs, bsg
  <2> QED BY <1>5, <1>6, <2>1, <2>2
<1>8. \A i \in 0 .. n - 1 : bs[i] # None => bs[i] = Cardinality(Users(bsg, i))
  <2> HIDE DEF bs, bsg, k
  <2> QED BY <1>3, <1>4, <1>5 DEF Table
<1>9. Table(bs, bsg, n)
  <2> HIDE DEF bs, bsg, k
  <2> QED BY <1>0, <1>5, <1>6, <1>7, <1>8 DEF Table
<1>10. Alive(as, bs, n)
  <2> HIDE DEF bs, bsg, k
  <2> QED BY <1>4, <1>5, <1>6 DEF Alive
<1> QED BY <1>1, <1>4, <1>9, <1>10

\* A thread that was assigned to no arena is assigned to one.
LEMMA UserComes ==
    ASSUME NEW n \in Nat, NEW as, NEW asg, Table(as, asg, n), NEW t \in Threads, asg[t] = None,
           NEW k \in 0 .. n - 1, as[k] # None
    PROVE  /\ as[k] \in Nat /\ Table([as EXCEPT ![k] = @ + 1], [asg EXCEPT ![t] = k], n)
           /\ Alive(as, [as EXCEPT ![k] = @ + 1], n)
<1> DEFINE bs == [as EXCEPT ![k] = as[k] + 1]
           bsg == [asg EXCEPT ![t] = k]
<1>0. as \in [0 .. n - 1 -> Slots] /\ asg \in [Threads -> Slots] /\ n > 0 /\ as[0] # None
  BY DEF Table
<1>1. as[k] \in Nat /\ as[k] = Cardinality(Users(asg, k)) /\ k # None /\ k \in Slots
  <2>1. as[k] \in Slots
    BY <1>0
  <2>2. as[k] = Cardinality(Users(asg, k))
    BY DEF Table
  <2>3. k \in Nat
    OBVIOUS
  <2> QED BY <2>1, <2>2, <2>3, SlotsAndThreads
<1>3. /\ Users(bsg, k) = Users(asg, k) \union {t} /\ t \notin Users(asg, k)
      /\ \A i \in 0 .. n - 1 : i # k => Users(bsg, i) = Users(asg, i)
  BY <1>0, <1>1, SlotsAndThreads DEF Users
<1>4. Cardinality(Users(bsg, k)) = as[k] + 1
  BY <1>1, <1>3, FS_AddElement, SlotsAndThreads
<1>5. bs \in [0 .. n - 1 -> Slots] /\ bsg \in [Threads -> Slots] /\ bs[k] = as[k] + 1
      /\ \A i \in 0 .. n - 1 : i # k => bs[i] = as[i]
  <2>1. as[k] + 1 \in Slots
    BY <1>1, SlotsAndThreads
  <2> QED BY <1>0, <1>1, <2>1
<1>6. bs[0] # None /\ bs[k] # None
  <2>1. 0 \in 0 .. n - 1
    BY <1>0
  <2>2. as[k] + 1 # None
    BY <1>1, SlotsAndThreads
  <2> HIDE DEF bs, bsg
  <2> QED BY <1>0, <1>5, <2>1, <2>2
<1>7. \A u \in Threads : bsg[u] # None => bsg[u] \in 0 .. n - 1 /\ bs[bsg[u]] # None
  <2> TAKE u \in Threads
  <2>1. (u = t /\ bsg[u] = k) \/ bsg[u] = asg[u]
    BY <1>0
  <2>2. asg[u] # None => asg[u] \in 0 .. n - 1 /\ as[asg[u]] # None
    BY DEF Table
  <2> HIDE DEF bs, bsg
  <2> QED BY <1>5, <1>6, <2>1, <2>2
<1>8. \A i \in 0 .. n - 1 : bs[i] # None => bs[i] = Cardinality(Users(bsg, i))
  <2> HIDE DEF bs, bsg
  <2> QED BY <1>3, <1>4, <1>5 DEF Table
<1>9. Table(bs, bsg, n)
  <2> HIDE DEF bs, bsg
  <2> QED BY <1>0, <1>5, <1>6, <1>7, <1>8 DEF Table
<1>10. Alive(as, bs, n)
  <2> HIDE DEF bs, bsg
  <2> QED BY <1>5, <1>6 DEF Alive
<1> QED BY <1>1, <1>9, <1>10

\* A new arena has no threads, as none was assigned to it before.
LEMMA ArenaMade ==
    ASSUME NEW n \in Nat, NEW as, NEW asg, Table(as, asg, n), NEW k \in 0 .. n - 1, as[k] = None
    PROVE  /\ Table([as EXCEPT ![k] = 0], asg, n) /\ k # 0
           /\ Alive(as, [as EXCEPT ![k] = 0], n)
<1> DEFINE bs == [as EXCEPT ![k] = 0]
<1>0. as \in [0 .. n - 1 -> Slots] /\ asg \in [Threads -> Slots] /\ n > 0 /\ as[0] # None
  BY DEF Table
<1>1. Users(asg, k) = {}
  <2>1. \A t \in Threads : asg[t] = k => k \in Nat /\ asg[t] # None
    BY SlotsAndThreads
  <2> QED BY <2>1 DEF Table, Users
<1>2. Cardinality(Users(asg, k)) = 0
  BY <1>1, FS_EmptySet
<1>3. bs \in [0 .. n - 1 -> Slots] /\ bs[k] = 0 /\ \A i \in 0 .. n - 1 : i # k => bs[i] = as[i]
  <2>1. 0 \in Slots
    BY SlotsAndThreads
  <2> QED BY <1>0, <2>1
<1>4. k # 0 /\ 0 # None /\ 0 \in 0 .. n - 1
  <2>1. 0 \in 0 .. n - 1
    BY <1>0
  <2>2. 0 # None
    BY SlotsAndThreads
  <2> QED BY <1>0, <2>1, <2>2
<1> HIDE DEF bs
<1>5. \A u \in Threads : asg[u] # None => asg[u] \in 0 .. n - 1 /\ bs[asg[u]] # None
  BY <1>3, <1>4 DEF Table
<1>6. \A i \in 0 .. n - 1 : bs[i] # None => bs[i] = Cardinality(Users(asg, i))
  BY <1>2, <1>3 DEF Table
<1>7. Table(bs, asg, n)
  BY <1>0, <1>3, <1>4, <1>5, <1>6 DEF Table
<1>8. Alive(as, bs, n)
  BY <1>3, <1>4 DEF Alive
<1> QED BY <1>4, <1>7, <1>8 DEF bs

\* The array gets one element more.
LEMMA ArrayGrows ==
    ASSUME NEW n \in Nat, NEW as, NEW asg, Table(as, asg, n)
    PROVE  Table([i \in 0 .. n |-> IF i \in DOMAIN as THEN as[i] ELSE None], asg, n + 1)
<1> DEFINE bs == [i \in 0 .. n |-> IF i \in DOMAIN as THEN as[i] ELSE None]
<1>0. as \in [0 .. n - 1 -> Slots] /\ asg \in [Threads -> Slots] /\ n > 0 /\ as[0] # None
  BY DEF Table
<1>1. bs \in [0 .. (n + 1) - 1 -> Slots] /\ bs[n] = None /\ \A i \in 0 .. n - 1 : bs[i] = as[i]
  <2>1. DOMAIN as = 0 .. n - 1 /\ None \in Slots /\ (n + 1) - 1 = n /\ n \notin 0 .. n - 1 /\ n \in 0 .. n
    BY <1>0, SlotsAndThreads
  <2>2. \A i \in 0 .. n : i \in DOMAIN as => as[i] \in Slots
    BY <1>0
  <2>3. \A i \in 0 .. n - 1 : i \in 0 .. n
    OBVIOUS
  <2> QED BY <2>1, <2>2, <2>3
<1> HIDE DEF bs
<1>2. n + 1 > 0 /\ bs[0] # None
  <2>1. n + 1 > 0 /\ 0 \in 0 .. n - 1
    BY <1>0
  <2> QED BY <1>0, <1>1, <2>1
<1>3. \A u \in Threads : asg[u] # None => asg[u] \in 0 .. (n + 1) - 1 /\ bs[asg[u]] # None
  <2> TAKE u \in Threads
  <2>1. asg[u] # None => asg[u] \in 0 .. n - 1 /\ as[asg[u]] # None
    BY DEF Table
  <2>2. \A i \in 0 .. n - 1 : i \in 0 .. (n + 1) - 1
    OBVIOUS
  <2> QED BY <1>1, <2>1, <2>2
<1>4. ASSUME NEW i \in 0 .. (n + 1) - 1, bs[i] # None
      PROVE  bs[i] = Cardinality(Users(asg, i))
  <2>1. i \in 0 .. n - 1
    BY <1>1, <1>4
  <2> QED BY <1>1, <1>4, <2>1 DEF Table
<1>5. Table(bs, asg, n + 1)
  BY <1>0, <1>1, <1>2, <1>3, <1>4 DEF Table
<1> QED BY <1>5 DEF bs
-----------------------------------------------------------------------------
(* What mallctl shows: an element for each of n arenas, and the sums.      *)

Element == [initialized : BOOLEAN, nthreads : Nat, active : Nat]

\* The arenas that are shown.
Seen(f, n) == {i \in 0 .. n - 1 : f[i].initialized}

ThreadsOf(f, n) == [i \in 0 .. n |-> f[i].nthreads]
ActivityOf(f, n) == [i \in 0 .. n |-> f[i].active]

Summed(f, n) ==
    /\ f[n].initialized
    /\ f[n].nthreads = SumFunctionOnSet(ThreadsOf(f, n), Seen(f, n))
    /\ f[n].active = SumFunctionOnSet(ActivityOf(f, n), Seen(f, n))

\* The arenas that are shown are in the array.
SeenIn(f, n, as) == \A i \in Seen(f, n) : as[i] # None

\* What a loop adds up that goes over all numbers below n and takes the terms of S.
LEMMA LoopSums ==
    ASSUME NEW n \in Nat, NEW S \in SUBSET (0 .. n - 1), NEW c, \A i \in 0 .. n - 1 : c[i] \in Nat,
           NEW m, m[0] = 0, \A i \in 1 .. n : m[i] = IF i - 1 \in S THEN m[i - 1] + c[i - 1] ELSE m[i - 1]
    PROVE  m[n] = SumFunctionOnSet(c, S)
<1> DEFINE U(k) == {i \in S : i < k}
           T == {k \in Nat : k <= n => m[k] = SumFunctionOnSet(c, U(k))}
<1>0. \A k \in Nat : IsFiniteSet(U(k)) /\ U(k) \subseteq 0 .. n - 1
  <2> TAKE k \in Nat
  <2>1. n - 1 \in Int /\ 0 \in Int
    OBVIOUS
  <2>2. IsFiniteSet(0 .. n - 1)
    BY <2>1, FS_Interval
  <2>3. U(k) \subseteq 0 .. n - 1
    OBVIOUS
  <2> QED BY <2>2, <2>3, FS_Subset
<1>s. \A i \in S : i \in Nat /\ i < n
  OBVIOUS
<1>1. 0 \in T
  <2>1. \A i \in S : ~ (i < 0)
    BY <1>s
  <2>2. U(0) = {}
    BY <2>1
  <2> QED BY <2>2, SumEmpty
<1>2. ASSUME NEW k \in Nat, k \in T
      PROVE  k + 1 \in T
  <2> SUFFICES ASSUME k + 1 <= n
               PROVE  m[k + 1] = SumFunctionOnSet(c, U(k + 1))
    OBVIOUS
  <2>1. m[k] = SumFunctionOnSet(c, U(k))
    BY <1>2
  <2>2. k + 1 \in 1 .. n /\ (k + 1) - 1 = k
    OBVIOUS
  <2>3. m[k + 1] = IF k \in S THEN m[k] + c[k] ELSE m[k]
    BY <2>2
  <2>4. CASE k \in S
    <3>0. \A i \in S : i < k + 1 <=> (i < k \/ i = k)
      BY <1>s
    <3>s. k + 1 \in Nat /\ ~ (k < k)
      OBVIOUS
    <3>1. U(k + 1) = U(k) \union {k} /\ k \notin U(k) /\ k + 1 \in Nat
      BY <3>s, <3>0, <2>4
    <3>2. U(k + 1) \subseteq 0 .. n - 1 /\ IsFiniteSet(U(k))
      BY <1>0, <3>1
    <3> HIDE DEF U
    <3>3. IntOn(c, U(k) \union {k})
      BY <3>1, <3>2 DEF IntOn
    <3>4. SumFunctionOnSet(c, U(k)) \in Int
          /\ SumFunctionOnSet(c, U(k) \union {k}) = c[k] + SumFunctionOnSet(c, U(k))
      BY <3>1, <3>2, <3>3, SumWith
    <3>5. c[k] \in Int
      BY <3>1, <3>2
    <3>6. m[k + 1] = m[k] + c[k] /\ SumFunctionOnSet(c, U(k + 1)) = c[k] + SumFunctionOnSet(c, U(k))
      BY <2>3, <2>4, <3>1, <3>4
    <3> HIDE DEF T
    <3> QED BY <2>1, <3>4, <3>5, <3>6
  <2>5. CASE k \notin S
    <3>0. \A i \in S : i < k + 1 <=> i < k
      BY <1>s, <2>5
    <3>1. U(k + 1) = U(k)
      BY <3>0
    <3> QED BY <2>1, <2>3, <2>5, <3>1
  <2> QED BY <2>4, <2>5
<1>3. n \in T
  <2> HIDE DEF T
  <2> QED BY <1>1, <1>2, Induction
<1>4. U(n) = S
  BY <1>s
<1>5. m[n] = SumFunctionOnSet(c, U(n))
  BY <1>3
<1> QED BY <1>4, <1>5

\* What ctl_refresh makes of an arena's element.
Refresh(e, k, a) ==
    IF k = None THEN [e EXCEPT !.nthreads = 0, !.initialized = FALSE]
    ELSE [ArenaUse!ctl_arena_clear(e) EXCEPT !.nthreads = k, !.initialized = TRUE, !.active = @ + a]

LEMMA Cleared ==
    ASSUME NEW e \in Element
    PROVE  /\ ArenaUse!ctl_arena_clear(e) \in Element
           /\ ArenaUse!ctl_arena_clear(e).initialized = e.initialized
           /\ ArenaUse!ctl_arena_clear(e).active = 0
  BY DEF Element, ArenaUse!ctl_arena_clear

LEMMA Refreshing ==
    ASSUME NEW e \in Element, NEW k \in Slots, NEW a \in Nat
    PROVE  /\ Refresh(e, k, a) \in Element
           /\ Refresh(e, k, a).initialized <=> k # None
<1>1. CASE k = None
  BY <1>1 DEF Refresh, Element
<1>2. CASE k # None
  <2> DEFINE c == ArenaUse!ctl_arena_clear(e)
  <2>1. c \in Element /\ k \in Nat
    BY <1>2, Cleared, SlotsAndThreads
  <2> HIDE DEF c
  <2>2. c.active + a \in Nat
    BY <2>1 DEF Element
  <2>3. [c EXCEPT !.nthreads = k, !.initialized = TRUE, !.active = @ + a] \in Element
        /\ [c EXCEPT !.nthreads = k, !.initialized = TRUE, !.active = @ + a].initialized
    BY <2>1, <2>2 DEF Element
  <2> QED BY <1>2, <2>3 DEF Refresh, c
<1> QED BY <1>1, <1>2

\* An element that is merged into the sums.
LEMMA Merging ==
    ASSUME NEW s \in Element, NEW e \in Element
    PROVE  /\ ArenaUse!ctl_arena_smerge(s, e) \in Element
           /\ ArenaUse!ctl_arena_smerge(s, e).initialized = s.initialized
           /\ ArenaUse!ctl_arena_smerge(s, e).nthreads = s.nthreads + e.nthreads
           /\ ArenaUse!ctl_arena_smerge(s, e).active = s.active + e.active
<1>1. s.nthreads + e.nthreads \in Nat /\ s.active + e.active \in Nat
  BY DEF Element
<1> QED BY <1>1 DEF Element, ArenaUse!ctl_arena_smerge

\* m is the loop of ctl_arena_smerge over the elements of h that are shown.
Merges(m, h, n) ==
    \A i \in 1 .. n : m[i] = IF h[i - 1].initialized THEN ArenaUse!ctl_arena_smerge(m[i - 1], h[i - 1])
                             ELSE m[i - 1]

LEMMA MergedSums ==
    ASSUME NEW n \in Nat, NEW h \in [0 .. n -> Element], NEW m \in [0 .. n -> Element],
           m[0].nthreads = 0, m[0].active = 0,
           Merges(m, h, n)
    PROVE  /\ m[n].initialized = m[0].initialized
           /\ m[n].nthreads = SumFunctionOnSet(ThreadsOf(h, n), Seen(h, n))
           /\ m[n].active = SumFunctionOnSet(ActivityOf(h, n), Seen(h, n))
<1> DEFINE S == Seen(h, n)
           c == [i \in 0 .. n |-> h[i].nthreads]
           d == [i \in 0 .. n |-> h[i].active]
           mc == [i \in 0 .. n |-> m[i].nthreads]
           md == [i \in 0 .. n |-> m[i].active]
<1>1. \A i \in 1 .. n : i \in 0 .. n /\ i - 1 \in 0 .. n /\ i - 1 \in 0 .. n - 1
  OBVIOUS
<1>2. \A i \in 0 .. n - 1 : i \in 0 .. n
  OBVIOUS
<1>3. S \in SUBSET (0 .. n - 1) /\ \A i \in 1 .. n : i - 1 \in S <=> h[i - 1].initialized
  BY <1>1 DEF Seen
<1>4. \A i \in 0 .. n : c[i] \in Nat /\ d[i] \in Nat /\ c[i] = h[i].nthreads /\ d[i] = h[i].active
  BY DEF Element
<1>5. \A i \in 0 .. n : mc[i] = m[i].nthreads /\ md[i] = m[i].active
  OBVIOUS
<1>6. ASSUME NEW i \in 1 .. n
      PROVE  /\ m[i].initialized = m[i - 1].initialized
             /\ mc[i] = IF i - 1 \in S THEN mc[i - 1] + c[i - 1] ELSE mc[i - 1]
             /\ md[i] = IF i - 1 \in S THEN md[i - 1] + d[i - 1] ELSE md[i - 1]
  <2> HIDE DEF S, c, d, mc, md
  <2>1. i \in 0 .. n /\ i - 1 \in 0 .. n
    BY <1>1
  <2> DEFINE j == i - 1
  <2> HIDE DEF j
  <2>2. j \in 0 .. n /\ i \in 0 .. n
    BY <2>1 DEF j
  <2>3. m[i] = (IF h[j].initialized THEN ArenaUse!ctl_arena_smerge(m[j], h[j]) ELSE m[j])
        /\ (j \in S <=> h[j].initialized)
    BY <1>3 DEF j, Merges
  <2>4. m[j] \in Element /\ h[j] \in Element
    BY <2>2
  <2>5. mc[i] = m[i].nthreads /\ md[i] = m[i].active /\ mc[j] = m[j].nthreads /\ md[j] = m[j].active
        /\ c[j] = h[j].nthreads /\ d[j] = h[j].active
    BY <1>4, <1>5, <2>2
  <2>6. CASE j \in S
    BY <2>3, <2>4, <2>5, <2>6, Merging DEF j
  <2>7. CASE j \notin S
    BY <2>3, <2>4, <2>5, <2>7 DEF j
  <2> QED BY <2>6, <2>7
<1>7. 0 \in 0 .. n /\ n \in 0 .. n
  OBVIOUS
<1>8. mc[0] = 0 /\ md[0] = 0
  BY <1>5, <1>7
<1>9. m[n].initialized = m[0].initialized
  <2> DEFINE T == {k \in Nat : k <= n => m[k].initialized = m[0].initialized}
  <2>1. 0 \in T
    OBVIOUS
  <2>2. ASSUME NEW k \in Nat, k \in T
        PROVE  k + 1 \in T
    <3> SUFFICES ASSUME k + 1 <= n
                 PROVE  m[k + 1].initialized = m[0].initialized
      OBVIOUS
    <3>1. k + 1 \in 1 .. n /\ (k + 1) - 1 = k /\ k <= n
      OBVIOUS
    <3>2. m[k + 1].initialized = m[k].initialized
      BY <1>6, <3>1
    <3>3. m[k].initialized = m[0].initialized
      BY <2>2, <3>1
    <3> QED BY <3>2, <3>3
  <2>3. n \in T
    <3> HIDE DEF T
    <3> QED BY <2>1, <2>2, Induction
  <2> QED BY <2>3
<1>10. \A i \in 0 .. n - 1 : c[i] \in Nat /\ d[i] \in Nat
  BY <1>2, <1>4
<1> HIDE DEF S, c, d, mc, md
<1>11. mc[n] = SumFunctionOnSet(c, S)
  <2>1. \A i \in 1 .. n : mc[i] = IF i - 1 \in S THEN mc[i - 1] + c[i - 1] ELSE mc[i - 1]
    BY <1>6
  <2>2. S \in SUBSET (0 .. n - 1) /\ \A i \in 0 .. n - 1 : c[i] \in Nat
    BY <1>3, <1>10
  <2> QED BY <1>8, <2>1, <2>2, LoopSums
<1>12. md[n] = SumFunctionOnSet(d, S)
  <2>1. \A i \in 1 .. n : md[i] = IF i - 1 \in S THEN md[i - 1] + d[i - 1] ELSE md[i - 1]
    BY <1>6
  <2>2. S \in SUBSET (0 .. n - 1) /\ \A i \in 0 .. n - 1 : d[i] \in Nat
    BY <1>3, <1>10
  <2> QED BY <1>8, <2>1, <2>2, LoopSums
<1>13. m[n].nthreads = SumFunctionOnSet(c, S) /\ m[n].active = SumFunctionOnSet(d, S)
  BY <1>5, <1>7, <1>11, <1>12
<1> QED BY <1>9, <1>13 DEF S, c, d, ThreadsOf, ActivityOf

Stats(n, f) == [narenas |-> n, arenas |-> f]

\* ctl_refresh shows the arenas that there are, and their sums.
LEMMA RefreshedStats ==
    ASSUME NEW n \in Nat, NEW f \in [0 .. n -> Element], f[n].initialized,
           NEW active \in [0 .. n - 1 -> Nat], \A i \in 0 .. n - 1 : arenas[i] \in Slots
    PROVE  \E h \in [0 .. n -> Element] :
               /\ ArenaUse!Refreshed(Stats(n, f), active) = Stats(n, h)
               /\ Summed(h, n) /\ SeenIn(h, n, arenas)
<1> DEFINE r == [i \in 0 .. n - 1 |-> Refresh(f[i], arenas[i], active[i])]
           e == [ArenaUse!ctl_arena_clear(f[n]) EXCEPT !.nthreads = 0]
           Merged(m) == m = [i \in 0 .. n |->
                                IF i = 0 THEN e
                                ELSE IF r[i - 1].initialized THEN ArenaUse!ctl_arena_smerge(m[i - 1], r[i - 1])
                                ELSE m[i - 1]]
           g == CHOOSE m : Merged(m)
           h == [i \in 0 .. n |-> IF i < n THEN r[i] ELSE g[n]]
<1>1. n \in 0 .. n /\ \A i \in 0 .. n - 1 : i \in 0 .. n
  OBVIOUS
<1>2. r \in [0 .. n - 1 -> Element] /\ \A i \in 0 .. n - 1 : r[i].initialized => arenas[i] # None
  <2> SUFFICES ASSUME NEW i \in 0 .. n - 1
               PROVE  Refresh(f[i], arenas[i], active[i]) \in Element
                      /\ (Refresh(f[i], arenas[i], active[i]).initialized => arenas[i] # None)
    OBVIOUS
  <2>1. f[i] \in Element /\ active[i] \in Nat /\ arenas[i] \in Slots
    BY <1>1
  <2> QED BY <2>1, Refreshing
<1>3. e \in Element /\ e.initialized /\ e.nthreads = 0 /\ e.active = 0
  <2> DEFINE c == ArenaUse!ctl_arena_clear(f[n])
  <2>1. c \in Element /\ c.initialized /\ c.active = 0
    BY <1>1, Cleared
  <2> HIDE DEF c
  <2>2. [c EXCEPT !.nthreads = 0] \in Element /\ [c EXCEPT !.nthreads = 0].initialized
        /\ [c EXCEPT !.nthreads = 0].nthreads = 0 /\ [c EXCEPT !.nthreads = 0].active = 0
    BY <2>1 DEF Element
  <2> QED BY <2>2 DEF c
<1> HIDE DEF r, e
<1>4. \E m \in [0 .. n -> Element] : Merged(m)
  <2> DEFINE From(i) == IF i \in 1 .. n THEN r[i - 1] ELSE e
             step == [i \in Nat |-> [s \in Element |->
                         IF From(i).initialized THEN ArenaUse!ctl_arena_smerge(s, From(i)) ELSE s]]
  <2>1. \A i \in Nat : From(i) \in Element
    <3> TAKE i \in Nat
    <3>1. i \in 1 .. n => i - 1 \in 0 .. n - 1
      OBVIOUS
    <3> QED BY <1>2, <1>3, <3>1
  <2> HIDE DEF From
  <2>2. step \in [Nat -> [Element -> Element]]
    <3> SUFFICES ASSUME NEW i \in Nat, NEW s \in Element
                 PROVE  (IF From(i).initialized THEN ArenaUse!ctl_arena_smerge(s, From(i)) ELSE s) \in Element
      OBVIOUS
    <3> QED BY <2>1, Merging
  <2>3. PICK m \in [0 .. n -> Element] : Loops(m, e, step, n)
    <3> HIDE DEF step
    <3> QED BY <1>3, <2>2, LoopExists
  <2>4. ASSUME NEW i \in 1 .. n
        PROVE  m[i] = IF r[i - 1].initialized THEN ArenaUse!ctl_arena_smerge(m[i - 1], r[i - 1]) ELSE m[i - 1]
    <3>1. i \in Nat /\ i - 1 \in 0 .. n
      OBVIOUS
    <3>2. From(i) = r[i - 1] /\ m[i - 1] \in Element
      BY <3>1 DEF From
    <3>3. step[i][m[i - 1]] = IF From(i).initialized THEN ArenaUse!ctl_arena_smerge(m[i - 1], From(i)) ELSE m[i - 1]
      BY <3>1, <3>2
    <3>4. m[i] = step[i][m[i - 1]]
      BY <2>3 DEF Loops
    <3> HIDE DEF step
    <3> QED BY <3>2, <3>3, <3>4
  <2> HIDE DEF step
  <2>5. Merged(m)
    <3>1. ASSUME NEW i \in 0 .. n
          PROVE  m[i] = IF i = 0 THEN e
                        ELSE IF r[i - 1].initialized THEN ArenaUse!ctl_arena_smerge(m[i - 1], r[i - 1])
                        ELSE m[i - 1]
      <4>1. CASE i = 0
        BY <2>3, <4>1 DEF Loops
      <4>2. CASE i # 0
        <5>1. i \in 1 .. n
          BY <4>2
        <5> QED BY <2>4, <4>2, <5>1
      <4> QED BY <4>1, <4>2
    <3>2. DOMAIN m = 0 .. n
      OBVIOUS
    <3> QED BY <3>1, <3>2
  <2> QED BY <2>5
<1>5. Merged(g)
  <2> HIDE DEF Merged
  <2> QED BY <1>4
<1>6. ArenaUse!Refreshed(Stats(n, f), active) = Stats(n, h)
  <2> DEFINE s == Stats(n, f)
             rs == [i \in 0 .. s.narenas - 1 |-> Refresh(s.arenas[i], arenas[i], active[i])]
             es == [ArenaUse!ctl_arena_clear(s.arenas[s.narenas]) EXCEPT !.nthreads = 0]
             MergedIn(m) == m = [i \in 0 .. s.narenas |->
                                    IF i = 0 THEN es
                                    ELSE IF rs[i - 1].initialized
                                    THEN ArenaUse!ctl_arena_smerge(m[i - 1], rs[i - 1])
                                    ELSE m[i - 1]]
             gs == CHOOSE m : MergedIn(m)
             hs == [i \in 0 .. s.narenas |-> IF i < s.narenas THEN rs[i] ELSE gs[s.narenas]]
  <2>1. s.narenas = n /\ s.arenas = f /\ \A x : [s EXCEPT !.arenas = x] = Stats(n, x)
    BY DEF Stats
  <2> HIDE DEF s
  <2>2. ArenaUse!Refreshed(s, active) = [s EXCEPT !.arenas = hs]
    BY DEF ArenaUse!Refreshed, Refresh
  <2>3. rs = r /\ es = e
    BY <2>1 DEF r, e
  <2> HIDE DEF rs, es
  <2>4. \A m : MergedIn(m) <=> Merged(m)
    BY <2>1, <2>3
  <2> HIDE DEF MergedIn, Merged
  <2>5. gs = g
    BY <2>4
  <2> HIDE DEF g, gs
  <2>6. hs = h
    BY <2>1, <2>3, <2>5
  <2> QED BY <2>1, <2>2, <2>6 DEF s
<1> HIDE DEF g
<1>7. g \in [0 .. n -> Element]
  <2> DEFINE T == {k \in Nat : k <= n => g[k] \in Element}
  <2>1. 0 \in T
    <3>1. g[0] = e
      BY <1>5
    <3> QED BY <1>3, <3>1
  <2>2. ASSUME NEW k \in Nat, k \in T
        PROVE  k + 1 \in T
    <3> SUFFICES ASSUME k + 1 <= n
                 PROVE  g[k + 1] \in Element
      OBVIOUS
    <3>1. k + 1 \in 0 .. n /\ k + 1 # 0 /\ (k + 1) - 1 = k /\ k \in 0 .. n - 1
      OBVIOUS
    <3>2. g[k + 1] = IF r[k].initialized THEN ArenaUse!ctl_arena_smerge(g[k], r[k]) ELSE g[k]
      BY <1>5, <3>1
    <3>3. g[k] \in Element /\ r[k] \in Element
      BY <1>2, <2>2, <3>1
    <3> QED BY <3>2, <3>3, Merging
  <2>3. Nat \subseteq T
    <3> HIDE DEF T
    <3> QED BY <2>1, <2>2, Induction
  <2>4. \A k \in 0 .. n : g[k] \in Element
    BY <2>3
  <2>5. g = [i \in 0 .. n |-> g[i]]
    BY <1>5
  <2> QED BY <2>4, <2>5
<1>8. h \in [0 .. n -> Element] /\ h[n] = g[n] /\ \A i \in 0 .. n - 1 : h[i] = r[i]
  <2>1. \A i \in 0 .. n : i < n => i \in 0 .. n - 1
    OBVIOUS
  <2>2. \A i \in 0 .. n - 1 : i < n
    OBVIOUS
  <2>3. ~ (n < n)
    OBVIOUS
  <2> QED BY <1>1, <1>2, <1>7, <2>1, <2>2, <2>3
<1>9. /\ g[0].nthreads = 0 /\ g[0].active = 0 /\ g[0].initialized
      /\ \A i \in 1 .. n : g[i] = IF h[i - 1].initialized THEN ArenaUse!ctl_arena_smerge(g[i - 1], h[i - 1])
                                  ELSE g[i - 1]
  <2>1. g[0] = e
    BY <1>5
  <2>2. ASSUME NEW i \in 1 .. n
        PROVE  g[i] = IF h[i - 1].initialized THEN ArenaUse!ctl_arena_smerge(g[i - 1], h[i - 1])
                      ELSE g[i - 1]
    <3>1. i \in 0 .. n /\ i # 0 /\ i - 1 \in 0 .. n - 1
      OBVIOUS
    <3>2. g[i] = IF r[i - 1].initialized THEN ArenaUse!ctl_arena_smerge(g[i - 1], r[i - 1]) ELSE g[i - 1]
      BY <1>5, <3>1
    <3>3. h[i - 1] = r[i - 1]
      BY <1>8, <3>1
    <3> QED BY <3>2, <3>3
  <2> QED BY <1>3, <2>1, <2>2
<1> HIDE DEF h, Merged
<1>10. Summed(h, n)
  <2>1. /\ g[n].initialized = g[0].initialized
        /\ g[n].nthreads = SumFunctionOnSet(ThreadsOf(h, n), Seen(h, n))
        /\ g[n].active = SumFunctionOnSet(ActivityOf(h, n), Seen(h, n))
    <3>1. h \in [0 .. n -> Element] /\ g \in [0 .. n -> Element] /\ g[0].nthreads = 0 /\ g[0].active = 0
      BY <1>7, <1>8, <1>9
    <3>2. Merges(g, h, n)
      BY <1>9 DEF Merges
    <3> QED BY <3>1, <3>2, MergedSums
  <2> QED BY <1>8, <1>9, <2>1 DEF Summed
<1>11. SeenIn(h, n, arenas)
  BY <1>2, <1>8 DEF SeenIn, Seen
<1> QED BY <1>6, <1>8, <1>10, <1>11

\* The sums move up, past an arena that is not shown.
LEMMA SwappedStats ==
    ASSUME NEW n \in Nat, NEW f \in [0 .. n -> Element], Summed(f, n), NEW as, SeenIn(f, n, as)
    PROVE  \E h \in [0 .. n + 1 -> Element] :
               /\ ArenaUse!Swapped(Stats(n, f)) = Stats(n + 1, h)
               /\ Summed(h, n + 1) /\ SeenIn(h, n + 1, as)
<1> DEFINE s == Stats(n, f)
           h == [i \in 0 .. s.narenas + 1 |->
                    CASE i < s.narenas -> s.arenas[i] [] i = s.narenas -> ArenaUse!NoStats
                      [] i = s.narenas + 1 -> s.arenas[s.narenas]]
<1>1. s.narenas = n /\ s.arenas = f
  BY DEF Stats
<1> HIDE DEF s
<1>2. ArenaUse!Swapped(s) = Stats(n + 1, h)
  BY <1>1 DEF ArenaUse!Swapped, Stats
<1>3. ArenaUse!NoStats \in Element /\ ~ ArenaUse!NoStats.initialized
  BY DEF ArenaUse!NoStats, Element
<1>4. /\ DOMAIN h = 0 .. n + 1 /\ h[n] = ArenaUse!NoStats /\ h[n + 1] = f[n]
      /\ \A i \in 0 .. n - 1 : h[i] = f[i]
  <2>1. /\ n \in 0 .. n + 1 /\ n + 1 \in 0 .. n + 1 /\ ~ (n < n) /\ ~ (n + 1 < n) /\ n + 1 # n
        /\ \A i \in 0 .. n - 1 : i \in 0 .. n + 1 /\ i < n /\ i # n /\ i # n + 1
    OBVIOUS
  <2> QED BY <1>1, <2>1
<1> HIDE DEF h
<1>5. h \in [0 .. n + 1 -> Element]
  <2>1. \A i \in 0 .. n + 1 : i \in 0 .. n - 1 \/ i = n \/ i = n + 1
    OBVIOUS
  <2>2. n \in 0 .. n /\ \A i \in 0 .. n - 1 : i \in 0 .. n
    OBVIOUS
  <2>3. \A i \in 0 .. n + 1 : h[i] \in Element
    BY <1>3, <1>4, <2>1, <2>2
  <2> QED BY <1>1, <2>3 DEF h
<1>6. Seen(h, n + 1) = Seen(f, n)
  <2>1. \A i : i \in 0 .. (n + 1) - 1 <=> i \in 0 .. n - 1 \/ i = n
    OBVIOUS
  <2>2. n \notin 0 .. n - 1
    OBVIOUS
  <2> QED BY <1>3, <1>4, <2>1, <2>2 DEF Seen
<1>7. IsFiniteSet(Seen(f, n)) /\ Seen(f, n) \subseteq 0 .. n - 1
  <2>1. 0 \in Int /\ n - 1 \in Int
    OBVIOUS
  <2> QED BY <2>1, FS_Interval, FS_Subset DEF Seen
<1>8. \A i \in 0 .. n - 1 : i \in 0 .. n /\ i \in 0 .. n + 1
  OBVIOUS
<1>9. \A i \in 0 .. n - 1 : /\ ThreadsOf(f, n)[i] \in Int /\ ThreadsOf(f, n)[i] = ThreadsOf(h, n + 1)[i]
                            /\ ActivityOf(f, n)[i] \in Int /\ ActivityOf(f, n)[i] = ActivityOf(h, n + 1)[i]
  BY <1>4, <1>8 DEF ThreadsOf, ActivityOf, Element
<1>10. /\ IntOn(ThreadsOf(f, n), Seen(f, n)) /\ IntOn(ActivityOf(f, n), Seen(f, n))
       /\ \A i \in Seen(f, n) : ThreadsOf(f, n)[i] = ThreadsOf(h, n + 1)[i]
       /\ \A i \in Seen(f, n) : ActivityOf(f, n)[i] = ActivityOf(h, n + 1)[i]
  BY <1>7, <1>9 DEF IntOn
<1>11. /\ SumFunctionOnSet(ThreadsOf(f, n), Seen(f, n)) = SumFunctionOnSet(ThreadsOf(h, n + 1), Seen(f, n))
       /\ SumFunctionOnSet(ActivityOf(f, n), Seen(f, n)) = SumFunctionOnSet(ActivityOf(h, n + 1), Seen(f, n))
  BY <1>7, <1>10, SumSame
<1>12. Summed(h, n + 1)
  BY <1>4, <1>6, <1>11 DEF Summed
<1>13. SeenIn(h, n + 1, as)
  BY <1>6 DEF SeenIn
<1> QED BY <1>2, <1>5, <1>12, <1>13 DEF s
-----------------------------------------------------------------------------
(* The invariant of the arenas.                                            *)

\* How long the array is: between its growth and that of the statistics, one more than they show.
Size == IF ctl_stats.narenas = 0 THEN NAuto
        ELSE IF calls.pc = "grown" THEN ctl_stats.narenas + 1 ELSE ctl_stats.narenas

StatsKept ==
    ctl_stats.narenas # 0 =>
        \E n \in Nat \ {0} : \E f \in [0 .. n -> Element] :
            ctl_stats = Stats(n, f) /\ Summed(f, n) /\ SeenIn(f, n, arenas)

\* Who holds ctl_mtx keeps an arena.
CallsKept ==
    \/ calls = ArenaUse!Idle
    \/ /\ ctl_stats.narenas # 0
       /\ \E t \in Threads : /\ assigned[t] # None
                             /\ \/ calls = [pc |-> "grow", t |-> t]
                                \/ calls = [pc |-> "grown", t |-> t]
                                \/ \E i \in 0 .. MaxArenas : calls = [pc |-> "thread.arena", t |-> t, newind |-> i]

ArenasInv ==
    /\ malloc_initializer \in Threads \union {None} /\ init \in {"none", "first", "done", "failed"}
    /\ crashed \in BOOLEAN /\ assigned \in [Threads -> Slots]
    /\ init = "none" => arenas = << >> /\ \A t \in Threads : assigned[t] = None
    /\ init = "first" => Table(arenas, assigned, 1)
    /\ init = "done" => Table(arenas, assigned, Size)
    /\ init = "failed" => arenas = << >>
    /\ init # "done" => ctl_stats.narenas = 0 /\ calls = ArenaUse!Idle
    /\ StatsKept /\ CallsKept

LEMMA ArenasBegin == ArenaUse!Init => ArenasInv
<1> SUFFICES ASSUME ArenaUse!Init PROVE ArenasInv
  OBVIOUS
<1>1. None \in Slots
  BY SlotsAndThreads
<1>2. ctl_stats.narenas = 0 /\ calls = ArenaUse!Idle
  BY DEF ArenaUse!Init
<1> QED BY <1>1, <1>2 DEF ArenaUse!Init, ArenasInv, StatsKept, CallsKept

LEMMA SizeType ==
    ASSUME ArenasInv
    PROVE  /\ Size \in Nat \ {0} /\ (ctl_stats.narenas # 0 => ctl_stats.narenas \in Nat /\ ctl_stats.narenas <= Size)
           /\ (calls.pc # "grown" /\ ctl_stats.narenas # 0 => Size = ctl_stats.narenas)
<1>1. ctl_stats.narenas # 0 => ctl_stats.narenas \in Nat \ {0}
  BY DEF ArenasInv, StatsKept, Stats
<1> QED BY <1>1, SlotsAndThreads DEF Size

\* The statistics stay true of an array in which no arena goes away.
LEMMA StatsStay ==
    ASSUME NEW n \in Nat, StatsKept, ctl_stats.narenas # 0 => ctl_stats.narenas <= n,
           Alive(arenas, arenas', n), ctl_stats' = ctl_stats
    PROVE  StatsKept'
<1> SUFFICES ASSUME ctl_stats.narenas # 0
             PROVE  \E m \in Nat \ {0} : \E f \in [0 .. m -> Element] :
                        ctl_stats = Stats(m, f) /\ Summed(f, m) /\ SeenIn(f, m, arenas')
  BY DEF StatsKept
<1>0. PICK m \in Nat \ {0} : \E f \in [0 .. m -> Element] :
          ctl_stats = Stats(m, f) /\ Summed(f, m) /\ SeenIn(f, m, arenas)
  BY DEF StatsKept
<1>1. PICK f \in [0 .. m -> Element] :
          ctl_stats = Stats(m, f) /\ Summed(f, m) /\ SeenIn(f, m, arenas)
  BY <1>0
<1>2. m <= n
  BY <1>1 DEF Stats
<1>3. \A i \in 0 .. m - 1 : i \in 0 .. n - 1
  BY <1>2
<1>4. Seen(f, m) \subseteq 0 .. m - 1
  BY DEF Seen
<1>5. SeenIn(f, m, arenas')
  BY <1>1, <1>3, <1>4 DEF SeenIn, Alive
<1> QED BY <1>1, <1>5

\* What becomes of the invariant when threads come or go, or an arena is made.
LEMMA ArrayStep ==
    ASSUME ArenasInv, NEW n \in Nat, (init = "first" /\ n = 1) \/ (init = "done" /\ n = Size),
           Table(arenas', assigned', n), Alive(arenas, arenas', n), crashed' \in BOOLEAN,
           UNCHANGED <<malloc_initializer, init, ctl_stats>>,
           calls' = calls \/ (calls.pc # "grown" /\ calls' = ArenaUse!Idle),
           calls' = ArenaUse!Idle \/ assigned'[calls.t] # None
    PROVE  ArenasInv'
<1>1. assigned' \in [Threads -> Slots]
  BY DEF Table
<1>2. Size' = Size
  BY DEF Size, ArenaUse!Idle
<1>3. StatsKept'
  <2>1. CASE init = "first"
    BY <2>1 DEF ArenasInv, StatsKept
  <2>2. CASE init = "done"
    BY <2>2, SizeType, StatsStay DEF ArenasInv
  <2> QED BY <2>1, <2>2
<1>4. CallsKept'
  <2>1. CASE calls' = ArenaUse!Idle
    BY <2>1 DEF CallsKept, ArenaUse!Idle
  <2>2. CASE calls' = calls /\ calls # ArenaUse!Idle /\ assigned'[calls.t] # None
    <3>1. PICK t \in Threads : \/ calls = [pc |-> "grow", t |-> t]
                               \/ calls = [pc |-> "grown", t |-> t]
                               \/ \E i \in 0 .. MaxArenas : calls = [pc |-> "thread.arena", t |-> t, newind |-> i]
      BY <2>2 DEF ArenasInv, CallsKept
    <3>2. calls.t = t
      BY <3>1
    <3>3. ctl_stats.narenas # 0
      BY <2>2 DEF ArenasInv, CallsKept
    <3> QED BY <2>2, <3>1, <3>2, <3>3 DEF CallsKept
  <2> QED BY <2>1, <2>2
<1>5. init # "done" => calls' = ArenaUse!Idle
  BY DEF ArenasInv
<1> QED BY <1>1, <1>2, <1>3, <1>4, <1>5 DEF ArenasInv

\* The array in which choose_arena looks.
LEMMA ArrayNow ==
    ASSUME ArenasInv, init \in {"first", "done"}
    PROVE  LET n == IF init = "first" THEN 1 ELSE Size
           IN /\ n \in Nat \ {0} /\ Table(arenas, assigned, n) /\ ArenaUse!Indices = 0 .. n - 1
              /\ ArenaUse!narenas_auto \in Nat \ {0}
<1> DEFINE n == IF init = "first" THEN 1 ELSE Size
<1>1. n \in Nat \ {0}
  BY SizeType
<1>2. Table(arenas, assigned, n)
  BY DEF ArenasInv
<1>3. ArenaUse!narenas_auto \in Nat \ {0}
  BY SlotsAndThreads DEF ArenaUse!narenas_auto
<1> HIDE DEF n
<1>4. ArenaUse!Indices = 0 .. n - 1
  BY <1>2 DEF Table, ArenaUse!Indices
<1> QED BY <1>1, <1>2, <1>3, <1>4 DEF n

LEMMA LeastLoadedArena ==
    ASSUME ArenasInv, init \in {"first", "done"}
    PROVE  /\ ArenaUse!LeastLoaded \in ArenaUse!Indices /\ arenas[ArenaUse!LeastLoaded] # None
           /\ ArenaUse!Nulls # {} =>
                ArenaUse!Min(ArenaUse!Nulls) \in ArenaUse!Indices /\ arenas[ArenaUse!Min(ArenaUse!Nulls)] = None
<1> DEFINE n == IF init = "first" THEN 1 ELSE Size
           E == ArenaUse!Extant
<1>1. n \in Nat \ {0} /\ Table(arenas, assigned, n) /\ ArenaUse!Indices = 0 .. n - 1
      /\ ArenaUse!narenas_auto \in Nat \ {0}
  BY ArrayNow
<1> HIDE DEF n
<1>2. 0 \in 0 .. n - 1 /\ 0 < ArenaUse!narenas_auto
  BY <1>1
<1>3. 0 \in E
  BY <1>1, <1>2 DEF ArenaUse!Extant, Table
<1>4. E \subseteq 0 .. n - 1
  BY <1>1 DEF ArenaUse!Extant
<1>5. IsFiniteSet(E)
  <2>1. 0 \in Int /\ n - 1 \in Int
    BY <1>1
  <2> QED BY <1>4, <2>1, FS_Interval, FS_Subset
<1>6. \A i \in E : i \in Nat /\ arenas[i] \in Nat /\ arenas[i] # None
  <2> TAKE i \in E
  <2>1. i \in 0 .. n - 1
    BY <1>4
  <2>2. arenas[i] # None
    BY DEF ArenaUse!Extant
  <2>3. arenas[i] \in Slots
    BY <1>1, <2>1 DEF Table
  <2>4. i \in Nat
    BY <1>1, <2>1
  <2> QED BY <2>2, <2>3, <2>4, SlotsAndThreads
<1> DEFINE R == {p \in Nat \X Nat : arenas[p[1]] < arenas[p[2]]
                                    \/ (arenas[p[1]] = arenas[p[2]] /\ p[1] <= p[2])}
<1> HIDE DEF E
<1>7. \A i, j \in E : <<i, j>> \in R <=> arenas[i] < arenas[j] \/ (arenas[i] = arenas[j] /\ i <= j)
  BY <1>6
<1> HIDE DEF R
<1>8. ASSUME NEW i \in E, NEW j \in E
      PROVE  <<i, j>> \in R \/ <<j, i>> \in R
  <2>1. i \in Nat /\ j \in Nat
    BY <1>6
  <2>2. arenas[i] \in Nat /\ arenas[j] \in Nat
    BY <1>6
  <2>3. \/ arenas[i] < arenas[j] \/ (arenas[i] = arenas[j] /\ i <= j)
        \/ arenas[j] < arenas[i] \/ (arenas[j] = arenas[i] /\ j <= i)
    BY <2>1, <2>2
  <2> QED BY <1>7, <2>3
<1>9. ASSUME NEW i \in E, NEW j \in E, NEW k \in E, <<i, j>> \in R, <<j, k>> \in R
      PROVE  <<i, k>> \in R
  <2>1. arenas[i] < arenas[j] \/ (arenas[i] = arenas[j] /\ i <= j)
    BY <1>7, <1>9
  <2>2. arenas[j] < arenas[k] \/ (arenas[j] = arenas[k] /\ j <= k)
    BY <1>7, <1>9
  <2>3. i \in Nat /\ j \in Nat /\ k \in Nat
    BY <1>6
  <2>4. arenas[i] \in Nat /\ arenas[j] \in Nat /\ arenas[k] \in Nat
    BY <1>6
  <2>5. arenas[i] < arenas[k] \/ (arenas[i] = arenas[k] /\ i <= k)
    BY <2>1, <2>2, <2>3, <2>4
  <2> QED BY <1>7, <2>5
<1>10. PICK m \in E : \A j \in E : <<m, j>> \in R
  BY <1>3, <1>5, <1>8, <1>9, FiniteLeast
<1>11. ArenaUse!LeastLoaded \in E
  BY <1>7, <1>10 DEF ArenaUse!LeastLoaded, E
<1>12. ASSUME ArenaUse!Nulls # {}
       PROVE  ArenaUse!Min(ArenaUse!Nulls) \in ArenaUse!Nulls
  <2>1. ArenaUse!Nulls \in SUBSET Nat
    BY <1>1 DEF ArenaUse!Nulls
  <2>2. PICK low \in ArenaUse!Nulls : \A k \in ArenaUse!Nulls : low <= k
    BY <1>12, <2>1, LeastOf
  <2> QED BY <2>2 DEF ArenaUse!Min
<1>13. \A i \in ArenaUse!Nulls : i \in ArenaUse!Indices /\ arenas[i] = None
  BY DEF ArenaUse!Nulls, ArenaUse!Extant
<1>14. \A i \in E : i \in ArenaUse!Indices /\ arenas[i] # None
  BY <1>1, <1>4, <1>6
<1> QED BY <1>11, <1>12, <1>13, <1>14

LEMMA MallocInitKeeps ==
    ASSUME ArenasInv, NEW t \in Threads,
           ArenaUse!MallocInitHard(t) \/ ArenaUse!MallocInitDone(t) \/ ArenaUse!MallocAfterFailure(t)
    PROVE  ArenasInv'
<1>1. CASE ArenaUse!MallocInitHard(t)
  <2> USE <1>1 DEF ArenaUse!MallocInitHard
  <2>1. init = "none" /\ \A u \in Threads : assigned[u] = None
    BY DEF ArenasInv
  <2>2. assigned \in [Threads -> Slots] /\ ctl_stats.narenas = 0 /\ calls = ArenaUse!Idle
    BY <2>1 DEF ArenasInv
  <2>3. StatsKept' /\ CallsKept'
    BY <2>2 DEF StatsKept, CallsKept
  <2>4. CASE init' = "first" /\ arenas' = [i \in {0} |-> 0]
    <3>1. arenas' \in [0 .. 1 - 1 -> Slots] /\ arenas'[0] = 0 /\ \A i \in 0 .. 1 - 1 : i = 0
      <4>1. 0 .. 1 - 1 = {0}
        OBVIOUS
      <4>2. 0 \in Slots
        BY SlotsAndThreads
      <4> QED BY <2>4, <4>1, <4>2
    <3>2. Users(assigned, 0) = {}
      BY <2>1, SlotsAndThreads DEF Users
    <3>3. Cardinality(Users(assigned, 0)) = 0 /\ 0 # None
      BY <3>2, FS_EmptySet, SlotsAndThreads
    <3>4. Table(arenas', assigned, 1)
      BY <2>1, <2>2, <3>1, <3>3 DEF Table
    <3> QED BY <2>2, <2>3, <2>4, <3>4 DEF ArenasInv
  <2>5. CASE init' = "failed" /\ arenas' = arenas
    <3>1. arenas = << >>
      BY <2>1 DEF ArenasInv
    <3> QED BY <2>2, <2>3, <2>5, <3>1 DEF ArenasInv
  <2> QED BY <2>4, <2>5
<1>2. CASE ArenaUse!MallocInitDone(t)
  <2> USE <1>2 DEF ArenaUse!MallocInitDone
  <2>1. Table(arenas, assigned, 1) /\ assigned \in [Threads -> Slots]
        /\ ctl_stats.narenas = 0 /\ calls = ArenaUse!Idle
    BY DEF ArenasInv
  <2>2. StatsKept' /\ CallsKept'
    BY <2>1 DEF StatsKept, CallsKept
  <2>3. CASE init' = "done" /\ arenas' = [i \in 0 .. NAuto - 1 |-> IF i = 0 THEN arenas[0] ELSE None]
    <3>1. Size' = NAuto
      BY <2>1 DEF Size
    <3>2. /\ arenas[0] \in Slots /\ arenas[0] # None /\ arenas[0] = Cardinality(Users(assigned, 0))
          /\ \A u \in Threads : assigned[u] # None => assigned[u] = 0
      <4>1. \A i : i \in 0 .. 1 - 1 <=> i = 0
        OBVIOUS
      <4> QED BY <2>1, <4>1 DEF Table
    <3>3. 0 \in 0 .. NAuto - 1 /\ NAuto > 0
      BY SlotsAndThreads
    <3>4. arenas' \in [0 .. NAuto - 1 -> Slots] /\ arenas'[0] = arenas[0]
          /\ \A i \in 0 .. NAuto - 1 : i # 0 => arenas'[i] = None
      <4>1. None \in Slots
        BY SlotsAndThreads
      <4> QED BY <2>3, <3>2, <3>3, <4>1
    <3>5. Table(arenas', assigned, NAuto)
      BY <2>1, <3>2, <3>3, <3>4 DEF Table
    <3> QED BY <2>1, <2>2, <2>3, <3>1, <3>5 DEF ArenasInv
  <2>4. CASE init' = "failed" /\ arenas' = << >>
    BY <2>1, <2>2, <2>4 DEF ArenasInv
  <2> QED BY <2>3, <2>4
<1>3. CASE ArenaUse!MallocAfterFailure(t)
  <2> USE <1>3 DEF ArenaUse!MallocAfterFailure
  <2>1. Size' = Size
    BY DEF Size
  <2> QED BY <2>1 DEF ArenasInv, StatsKept, CallsKept
<1> QED BY <1>1, <1>2, <1>3

LEMMA AliveTwice ==
    ASSUME NEW n \in Nat, NEW as, NEW bs, NEW cs, Alive(as, bs, n), Alive(bs, cs, n)
    PROVE  Alive(as, cs, n)
  BY DEF Alive

\* arenas_extend makes the arena, or leaves the array as it is.
LEMMA ArenaExtended ==
    ASSUME NEW n \in Nat, NEW as, NEW asg, Table(as, asg, n), NEW k \in 0 .. n - 1, as[k] = None,
           NEW bs \in ArenaUse!Extended(as, k)
    PROVE  Table(bs, asg, n) /\ Alive(as, bs, n)
<1>1. CASE bs = as
  BY <1>1 DEF Alive
<1>2. CASE bs = [as EXCEPT ![k] = 0]
  BY <1>2, ArenaMade
<1> QED BY <1>1, <1>2 DEF ArenaUse!Extended

LEMMA ChooseArenaKeeps ==
    ASSUME ArenasInv, NEW t \in Threads, ArenaUse!choose_arena_hard(t)
    PROVE  ArenasInv'
<1> DEFINE n == IF init = "first" THEN 1 ELSE Size
           least == ArenaUse!LeastLoaded
           new == ArenaUse!Min(ArenaUse!Nulls)
<1>1. init \in {"first", "done"} /\ assigned[t] = None
      /\ UNCHANGED <<malloc_initializer, init, ctl_stats, calls, crashed>> /\ crashed \in BOOLEAN
  BY DEF ArenaUse!choose_arena_hard, ArenaUse!Initialized, ArenasInv
<1>2. n \in Nat \ {0} /\ Table(arenas, assigned, n) /\ ArenaUse!Indices = 0 .. n - 1
  BY <1>1, ArrayNow
<1>3. least \in 0 .. n - 1 /\ arenas[least] # None
      /\ (ArenaUse!Nulls # {} => new \in 0 .. n - 1 /\ arenas[new] = None)
  BY <1>1, <1>2, LeastLoadedArena
<1>4. (init = "first" /\ n = 1) \/ (init = "done" /\ n = Size)
  <2>1. init = "first" => n = 1
    OBVIOUS
  <2>2. init = "done" => n = Size
    OBVIOUS
  <2> HIDE DEF n
  <2> QED BY <1>1, <2>1, <2>2
<1>5. calls = ArenaUse!Idle \/ (calls # ArenaUse!Idle /\ calls.t \in Threads /\ assigned[calls.t] # None)
  BY DEF ArenasInv, CallsKept
<1> DEFINE Comes(as, k) == /\ k \in 0 .. n - 1 /\ as[k] # None
                           /\ Table(as, assigned, n) /\ Alive(arenas, as, n)
                           /\ arenas' = [as EXCEPT ![k] = @ + 1]
                           /\ assigned' = [assigned EXCEPT ![t] = k]
<1>6. \E as, k : Comes(as, k)
  <2>1. CASE /\ arenas' = [arenas EXCEPT ![least] = @ + 1]
             /\ assigned' = [assigned EXCEPT ![t] = least]
    <3> HIDE DEF n, least
    <3>1. Alive(arenas, arenas, n)
      BY DEF Alive
    <3>2. Comes(arenas, least)
      BY <1>2, <1>3, <2>1, <3>1
    <3> HIDE DEF Comes
    <3> QED BY <3>2
  <2>2. ASSUME ArenaUse!Nulls # {}, NEW as \in ArenaUse!Extended(arenas, new),
               NEW ret, ret = IF as[new] # None THEN new ELSE 0,
               arenas' = [as EXCEPT ![ret] = @ + 1], assigned' = [assigned EXCEPT ![t] = ret]
        PROVE  \E bs, k : Comes(bs, k)
    <3> HIDE DEF n, least, new
    <3>1. Table(as, assigned, n) /\ Alive(arenas, as, n)
      BY <1>2, <1>3, <2>2, ArenaExtended
    <3>2. 0 \in 0 .. n - 1
      BY <1>2
    <3>3. ret \in 0 .. n - 1 /\ as[ret] # None
      BY <1>3, <2>2, <3>1, <3>2 DEF Table
    <3>4. Comes(as, ret)
      BY <2>2, <3>1, <3>3
    <3> HIDE DEF Comes
    <3> QED BY <3>4
  <2> HIDE DEF Comes
  <2> QED BY <2>1, <2>2 DEF ArenaUse!choose_arena_hard
<1>7. PICK as, k : Comes(as, k)
  BY <1>6
<1> HIDE DEF n, least, new
<1>8. Table(arenas', assigned', n) /\ Alive(as, arenas', n)
  BY <1>1, <1>2, <1>7, UserComes
<1>9. Alive(arenas, arenas', n)
  BY <1>2, <1>7, <1>8, AliveTwice
<1>10. calls' = ArenaUse!Idle \/ assigned'[calls.t] # None
  <2>1. assigned \in [Threads -> Slots]
    BY DEF ArenasInv
  <2>2. ASSUME calls # ArenaUse!Idle
        PROVE  calls.t # t /\ assigned'[calls.t] = assigned[calls.t]
    BY <1>1, <1>5, <1>7, <2>1, <2>2
  <2> QED BY <1>1, <1>5, <2>2
<1> QED BY <1>1, <1>2, <1>4, <1>8, <1>9, <1>10, ArrayStep

LEMMA CleanupKeeps ==
    ASSUME ArenasInv, NEW t \in Threads, ArenaUse!arenas_cleanup(t)
    PROVE  ArenasInv'
<1>1. init = "done" /\ assigned[t] # None /\ ~ (calls # ArenaUse!Idle /\ calls.t = t)
      /\ UNCHANGED <<malloc_initializer, init, ctl_stats, calls, crashed>> /\ crashed \in BOOLEAN
      /\ arenas' = [arenas EXCEPT ![assigned[t]] = @ - 1] /\ assigned' = [assigned EXCEPT ![t] = None]
  BY DEF ArenaUse!arenas_cleanup, ArenaUse!Busy, ArenasInv
<1>2. Size \in Nat /\ Table(arenas, assigned, Size)
  BY <1>1, SizeType DEF ArenasInv
<1>3. Table(arenas', assigned', Size) /\ Alive(arenas, arenas', Size)
  BY <1>1, <1>2, UserLeaves
<1>4. calls' = ArenaUse!Idle \/ assigned'[calls.t] # None
  <2>1. calls = ArenaUse!Idle \/ (calls.t \in Threads /\ assigned[calls.t] # None)
    BY DEF ArenasInv, CallsKept
  <2>2. assigned \in [Threads -> Slots]
    BY DEF ArenasInv
  <2> QED BY <1>1, <2>1, <2>2
<1> QED BY <1>1, <1>2, <1>3, <1>4, ArrayStep

LEMMA ActivitiesType ==
    ASSUME NEW n \in Nat, NEW active \in ArenaUse!Activities(n)
    PROVE  active \in [0 .. n - 1 -> Nat]
  BY DEF ArenaUse!Activities

\* The statistics are gathered anew, and nothing else changes.
LEMMA GatherKeeps ==
    ASSUME ArenasInv, init = "done", calls = ArenaUse!Idle, NEW n \in Nat \ {0}, n = Size,
           NEW f \in [0 .. n -> Element], f[n].initialized,
           NEW active \in ArenaUse!Activities(n), ctl_stats' = ArenaUse!Refreshed(Stats(n, f), active),
           UNCHANGED <<malloc_initializer, init, arenas, assigned, calls, crashed>>
    PROVE  ArenasInv'
<1>1. Table(arenas, assigned, n)
  BY DEF ArenasInv
<1>2. \A i \in 0 .. n - 1 : arenas[i] \in Slots
  BY <1>1 DEF Table
<1>3. active \in [0 .. n - 1 -> Nat]
  BY ActivitiesType
<1>4. PICK h \in [0 .. n -> Element] :
          ArenaUse!Refreshed(Stats(n, f), active) = Stats(n, h) /\ Summed(h, n) /\ SeenIn(h, n, arenas)
  BY <1>2, <1>3, RefreshedStats
<1>5. ctl_stats' = Stats(n, h)
  BY <1>4
<1>6. ctl_stats'.narenas = n
  BY <1>5 DEF Stats
<1>7. StatsKept'
  BY <1>4, <1>5 DEF StatsKept
<1>8. CallsKept'
  BY DEF CallsKept
<1>9. Size' = n
  BY <1>6 DEF Size, ArenaUse!Idle
<1> QED BY <1>1, <1>7, <1>8, <1>9 DEF ArenasInv

LEMMA CtlInitKeeps ==
    ASSUME ArenasInv, NEW t \in Threads, ArenaUse!ctl_init(t)
    PROVE  ArenasInv'
<1>1. init = "done" /\ calls = ArenaUse!Idle /\ ctl_stats.narenas = 0
      /\ UNCHANGED <<malloc_initializer, init, arenas, assigned, calls, crashed>>
  BY DEF ArenaUse!ctl_init, ArenaUse!ctl_initialized
<1> DEFINE f == [i \in 0 .. NAuto |-> [ArenaUse!NoStats EXCEPT !.initialized = (i = NAuto)]]
<1>2. PICK active \in ArenaUse!Activities(NAuto) : ctl_stats' = ArenaUse!Refreshed(Stats(NAuto, f), active)
  BY DEF ArenaUse!ctl_init, Stats
<1>3. NAuto \in Nat \ {0} /\ NAuto = Size /\ NAuto \in 0 .. NAuto
  BY <1>1, SlotsAndThreads DEF Size
<1>4. \A b \in BOOLEAN : /\ [ArenaUse!NoStats EXCEPT !.initialized = b] \in Element
                         /\ [ArenaUse!NoStats EXCEPT !.initialized = b].initialized = b
  BY DEF ArenaUse!NoStats, Element
<1>5. f \in [0 .. NAuto -> Element]
  <2> SUFFICES ASSUME NEW i \in 0 .. NAuto
               PROVE  [ArenaUse!NoStats EXCEPT !.initialized = (i = NAuto)] \in Element
    OBVIOUS
  <2>1. (i = NAuto) \in BOOLEAN
    OBVIOUS
  <2> QED BY <1>4, <2>1
<1>6. f[NAuto].initialized
  <2>1. f[NAuto] = [ArenaUse!NoStats EXCEPT !.initialized = (NAuto = NAuto)]
    BY <1>3
  <2>2. (NAuto = NAuto) \in BOOLEAN /\ NAuto = NAuto
    OBVIOUS
  <2> QED BY <1>4, <2>1, <2>2
<1> HIDE DEF f
<1> QED BY <1>1, <1>2, <1>3, <1>5, <1>6, GatherKeeps

LEMMA EpochKeeps ==
    ASSUME ArenasInv, NEW t \in Threads, ArenaUse!epoch_ctl(t)
    PROVE  ArenasInv'
<1>1. ctl_stats.narenas # 0 /\ calls = ArenaUse!Idle
      /\ UNCHANGED <<malloc_initializer, init, arenas, assigned, calls, crashed>>
  BY DEF ArenaUse!epoch_ctl, ArenaUse!ctl_initialized
<1>2. init = "done" /\ StatsKept
  BY <1>1 DEF ArenasInv
<1>3. PICK n \in Nat \ {0} : \E f \in [0 .. n -> Element] :
          ctl_stats = Stats(n, f) /\ Summed(f, n) /\ SeenIn(f, n, arenas)
  BY <1>1, <1>2 DEF StatsKept
<1>4. PICK f \in [0 .. n -> Element] : ctl_stats = Stats(n, f) /\ Summed(f, n)
  BY <1>3
<1>5. ctl_stats.narenas = n
  BY <1>4 DEF Stats
<1>6. Size = n
  BY <1>1, <1>5 DEF Size, ArenaUse!Idle
<1>7. PICK active \in ArenaUse!Activities(n) : ctl_stats' = ArenaUse!Refreshed(Stats(n, f), active)
  BY <1>4, <1>5 DEF ArenaUse!epoch_ctl
<1> QED BY <1>1, <1>2, <1>4, <1>6, <1>7, GatherKeeps DEF Summed

\* A call of mallctl that goes on under ctl_mtx.
LEMMA CallsBegin ==
    ASSUME ArenasInv, NEW t \in Threads,
           ArenaUse!ArenasExtend(t) \/ \E newind \in 0 .. MaxArenas : ArenaUse!ThreadArena(t, newind)
    PROVE  ArenasInv'
<1>1. ctl_stats.narenas # 0 /\ calls = ArenaUse!Idle /\ assigned[t] # None
      /\ UNCHANGED <<malloc_initializer, init, arenas, assigned, ctl_stats, crashed>>
  BY DEF ArenaUse!ArenasExtend, ArenaUse!ThreadArena, ArenaUse!Lock, ArenaUse!ctl_initialized
<1>2. calls' = [pc |-> "grow", t |-> t]
      \/ \E i \in 0 .. MaxArenas : calls' = [pc |-> "thread.arena", t |-> t, newind |-> i]
  BY DEF ArenaUse!ArenasExtend, ArenaUse!ThreadArena
<1>3. calls'.pc # "grown" /\ calls.pc # "grown"
  BY <1>1, <1>2 DEF ArenaUse!Idle
<1>4. Size' = Size
  BY <1>1, <1>3 DEF Size
<1>5. StatsKept' /\ init = "done"
  BY <1>1 DEF ArenasInv, StatsKept
<1>6. CallsKept'
  BY <1>1, <1>2 DEF CallsKept
<1> QED BY <1>1, <1>4, <1>5, <1>6 DEF ArenasInv

\* A call that is under way is a thread's, which has an arena.
LEMMA CallUnderWay ==
    ASSUME ArenasInv, calls # ArenaUse!Idle
    PROVE  /\ init = "done" /\ ctl_stats.narenas # 0
           /\ calls.t \in Threads /\ assigned[calls.t] # None
           /\ calls.pc = "thread.arena" => calls.newind \in 0 .. MaxArenas
           /\ calls.pc # "thread.arena" => calls = [pc |-> calls.pc, t |-> calls.t]
  BY DEF ArenasInv, CallsKept

LEMMA ThreadArenaKeeps ==
    ASSUME ArenasInv, ArenaUse!thread_arena_ctl
    PROVE  ArenasInv'
<1> DEFINE t == calls.t
           old == assigned[t]
           new == calls.newind
<1>1. calls.pc = "thread.arena" /\ calls # ArenaUse!Idle /\ calls' = ArenaUse!Idle /\ calls.pc # "grown"
      /\ UNCHANGED <<malloc_initializer, init, ctl_stats>>
  BY DEF ArenaUse!thread_arena_ctl, ArenaUse!Idle
<1>2. init = "done" /\ ctl_stats.narenas # 0 /\ t \in Threads /\ old # None /\ new \in 0 .. MaxArenas
  BY <1>1, CallUnderWay
<1>3. Size \in Nat \ {0} /\ Size = ctl_stats.narenas /\ Table(arenas, assigned, Size)
  BY <1>1, <1>2, SizeType DEF ArenasInv
<1>4. ASSUME Table(arenas', assigned', Size), Alive(arenas, arenas', Size), crashed' \in BOOLEAN
      PROVE  ArenasInv'
  BY <1>1, <1>2, <1>3, <1>4, ArrayStep
<1>5. Alive(arenas, arenas, Size) /\ crashed \in BOOLEAN
  BY DEF Alive, ArenasInv
<1>6. CASE UNCHANGED <<arenas, assigned>> /\ crashed' \in BOOLEAN
  BY <1>3, <1>4, <1>5, <1>6
<1>7. ASSUME new # old, new < ctl_stats.narenas,
             NEW as \in IF arenas[new] # None THEN {arenas} ELSE ArenaUse!Extended(arenas, new),
             as[new] # None, arenas' = [as EXCEPT ![old] = @ - 1, ![new] = @ + 1],
             assigned' = [assigned EXCEPT ![t] = new], crashed' = crashed
      PROVE  ArenasInv'
  <2>1. new \in 0 .. Size - 1
    <3> DEFINE k == new
    <3> HIDE DEF new, k
    <3>1. k \in Nat /\ k < Size
      <4>1. new \in Nat
        BY <1>2, SlotsAndThreads
      <4> QED BY <1>3, <1>7, <4>1 DEF k
    <3> QED BY <1>3, <3>1 DEF k
  <2> HIDE DEF t, new
  <2>2. Table(as, assigned, Size) /\ Alive(arenas, as, Size)
    BY <1>3, <1>5, <1>7, <2>1, ArenaExtended
  <2> DEFINE bs == [as EXCEPT ![old] = @ - 1]
             bsg == [assigned EXCEPT ![t] = None]
  <2>3. Table(bs, bsg, Size) /\ Alive(as, bs, Size) /\ old \in 0 .. Size - 1
    BY <1>2, <1>3, <2>2, UserLeaves
  <2>4. bsg[t] = None /\ bs[new] # None
    <3>1. assigned \in [Threads -> Slots]
      BY DEF ArenasInv
    <3> QED BY <1>2, <1>7, <2>1, <2>3, <3>1 DEF Alive
  <2>5. arenas' = [bs EXCEPT ![new] = @ + 1] /\ assigned' = [bsg EXCEPT ![t] = new]
    BY <1>7
  <2> HIDE DEF bs, bsg, old
  <2>6. Table(arenas', assigned', Size) /\ Alive(bs, arenas', Size)
    BY <1>2, <1>3, <2>1, <2>3, <2>4, <2>5, UserComes
  <2>7. Alive(arenas, arenas', Size)
    BY <1>3, <2>2, <2>3, <2>6, AliveTwice
  <2> QED BY <1>4, <1>5, <1>7, <2>6, <2>7
<1> QED BY <1>5, <1>6, <1>7 DEF ArenaUse!thread_arena_ctl

LEMMA SwapArenasKeeps ==
    ASSUME ArenasInv, ArenaUse!SwapArenas
    PROVE  ArenasInv'
<1>1. calls.pc = "grow" /\ calls # ArenaUse!Idle /\ calls' = [calls EXCEPT !.pc = "grown"]
      /\ UNCHANGED <<malloc_initializer, init, assigned, ctl_stats, crashed>>
  BY DEF ArenaUse!SwapArenas, ArenaUse!Idle
<1>2. init = "done" /\ ctl_stats.narenas # 0 /\ calls.t \in Threads /\ assigned[calls.t] # None
      /\ calls = [pc |-> "grow", t |-> calls.t]
  BY <1>1, CallUnderWay
<1>3. calls' = [pc |-> "grown", t |-> calls.t]
  BY <1>1, <1>2
<1> DEFINE n == Size
<1>4. n \in Nat \ {0} /\ ctl_stats.narenas \in Nat /\ n = ctl_stats.narenas /\ Table(arenas, assigned, n)
  BY <1>1, <1>2, SizeType DEF ArenasInv
<1>5. Size' = n + 1
  BY <1>1, <1>2, <1>3, <1>4 DEF Size
<1> HIDE DEF n
<1>6. ArenaUse!Indices = 0 .. n - 1
  BY <1>4 DEF ArenaUse!Indices, Table
<1>7. ArenaUse!narenas_total = n
  <2>1. 0 \in Int /\ n - 1 \in Int /\ 0 <= n - 1 /\ (n - 1) - 0 + 1 = n
    BY <1>4
  <2>2. Cardinality(0 .. n - 1) = n
    BY <2>1, FS_Interval
  <2> QED BY <1>6, <2>2, ArenasCardinality DEF ArenaUse!narenas_total
<1> DEFINE as == [i \in 0 .. n |-> IF i \in DOMAIN arenas THEN arenas[i] ELSE None]
<1>8. arenas' \in ArenaUse!Extended(as, n)
  BY <1>7 DEF ArenaUse!SwapArenas, ArenaUse!Indices
<1>9. Table(as, assigned, n + 1)
  BY <1>4, ArrayGrows
<1>10. as[n] = None /\ n \in 0 .. (n + 1) - 1 /\ n + 1 \in Nat
  <2>1. n \in 0 .. n /\ n \notin 0 .. n - 1 /\ n \in 0 .. (n + 1) - 1 /\ n + 1 \in Nat
    BY <1>4
  <2> QED BY <1>6, <2>1 DEF ArenaUse!Indices
<1>11. Alive(arenas, as, n)
  <2>1. \A i \in 0 .. n - 1 : i \in 0 .. n
    BY <1>4
  <2> QED BY <1>6, <2>1 DEF Alive, ArenaUse!Indices
<1> HIDE DEF as
<1>12. Table(arenas', assigned, n + 1) /\ Alive(as, arenas', n + 1)
  BY <1>8, <1>9, <1>10, ArenaExtended
<1>13. Alive(arenas, arenas', n)
  <2>1. \A i \in 0 .. n - 1 : i \in 0 .. (n + 1) - 1
    BY <1>4
  <2> QED BY <1>11, <1>12, <2>1 DEF Alive
<1>14. StatsKept'
  BY <1>1, <1>4, <1>13, StatsStay DEF ArenasInv
<1>15. CallsKept'
  BY <1>1, <1>2, <1>3 DEF CallsKept
<1> QED BY <1>1, <1>2, <1>5, <1>12, <1>14, <1>15 DEF ArenasInv

LEMMA SwapStatsKeeps ==
    ASSUME ArenasInv, ArenaUse!SwapStats
    PROVE  ArenasInv'
<1>1. calls.pc = "grown" /\ calls # ArenaUse!Idle /\ calls' = ArenaUse!Idle
      /\ ctl_stats' = ArenaUse!Swapped(ctl_stats)
      /\ UNCHANGED <<malloc_initializer, init, arenas, assigned, crashed>>
  BY DEF ArenaUse!SwapStats, ArenaUse!Idle
<1>2. init = "done" /\ ctl_stats.narenas # 0
  BY <1>1, CallUnderWay
<1>3. PICK n \in Nat \ {0} : \E f \in [0 .. n -> Element] :
          ctl_stats = Stats(n, f) /\ Summed(f, n) /\ SeenIn(f, n, arenas)
  BY <1>2 DEF ArenasInv, StatsKept
<1>4. PICK f \in [0 .. n -> Element] : ctl_stats = Stats(n, f) /\ Summed(f, n) /\ SeenIn(f, n, arenas)
  BY <1>3
<1>5. PICK h \in [0 .. n + 1 -> Element] :
          ArenaUse!Swapped(Stats(n, f)) = Stats(n + 1, h) /\ Summed(h, n + 1) /\ SeenIn(h, n + 1, arenas)
  BY <1>4, SwappedStats
<1>6. ctl_stats' = Stats(n + 1, h) /\ ctl_stats.narenas = n
  BY <1>1, <1>4, <1>5 DEF Stats
<1>7. ctl_stats'.narenas = n + 1 /\ n + 1 \in Nat \ {0}
  BY <1>6 DEF Stats
<1>8. Size = n + 1 /\ Size' = n + 1
  BY <1>1, <1>2, <1>6, <1>7 DEF Size, ArenaUse!Idle
<1>9. StatsKept'
  BY <1>1, <1>5, <1>6, <1>7 DEF StatsKept
<1>10. CallsKept'
  BY <1>1 DEF CallsKept
<1> QED BY <1>1, <1>2, <1>8, <1>9, <1>10 DEF ArenasInv

LEMMA ArenasStep ==
    ASSUME ArenasInv, [ArenaUse!Next]_arenasVars
    PROVE  ArenasInv'
<1>1. ASSUME NEW t \in Threads,
             \/ ArenaUse!MallocInitHard(t) \/ ArenaUse!MallocInitDone(t) \/ ArenaUse!MallocAfterFailure(t)
             \/ ArenaUse!choose_arena_hard(t) \/ ArenaUse!arenas_cleanup(t)
             \/ ArenaUse!ctl_init(t) \/ ArenaUse!epoch_ctl(t) \/ ArenaUse!ArenasExtend(t)
             \/ \E newind \in 0 .. MaxArenas : ArenaUse!ThreadArena(t, newind)
      PROVE  ArenasInv'
  BY <1>1, MallocInitKeeps, ChooseArenaKeeps, CleanupKeeps, CtlInitKeeps, EpochKeeps, CallsBegin
<1>2. CASE ArenaUse!thread_arena_ctl \/ ArenaUse!SwapArenas \/ ArenaUse!SwapStats
  BY <1>2, ThreadArenaKeeps, SwapArenasKeeps, SwapStatsKeeps
<1>3. CASE UNCHANGED arenasVars
  <2>1. UNCHANGED <<malloc_initializer, init, arenas, assigned, ctl_stats, calls, crashed>>
    BY <1>3 DEF arenasVars
  <2>2. Size' = Size
    BY <2>1 DEF Size
  <2>3. StatsKept' = StatsKept
    BY <2>1 DEF StatsKept
  <2>4. CallsKept' = CallsKept
    BY <2>1 DEF CallsKept
  <2> QED BY <2>1, <2>2, <2>3, <2>4 DEF ArenasInv
<1> QED BY <1>1, <1>2, <1>3 DEF ArenaUse!Next

LEMMA Counted ==
    ASSUME ArenasInv
    PROVE  ArenaUse!ArenasCounted
<1> SUFFICES ASSUME init = "done"
             PROVE  /\ \A t \in Threads : assigned[t] # None =>
                          assigned[t] \in ArenaUse!Indices /\ arenas[assigned[t]] # None
                    /\ \A i \in ArenaUse!Indices : arenas[i] # None =>
                          arenas[i] = ArenaUse!Cardinality({t \in Threads : assigned[t] = i})
                    /\ ArenaUse!ctl_initialized =>
                         /\ ArenaUse!narenas_total = ctl_stats.narenas + (IF calls.pc = "grown" THEN 1 ELSE 0)
                         /\ LET sums == ctl_stats.arenas[ctl_stats.narenas]
                            IN /\ sums.initialized
                               /\ sums.nthreads = ArenaUse!SumFunctionOnSet(ArenaUse!NThreads(ctl_stats), ArenaUse!Shown(ctl_stats))
                               /\ sums.active = ArenaUse!SumFunctionOnSet(ArenaUse!Active(ctl_stats), ArenaUse!Shown(ctl_stats))
                         /\ \A i \in 0 .. ctl_stats.narenas - 1 : ctl_stats.arenas[i].initialized => arenas[i] # None
  BY DEF ArenaUse!ArenasCounted
<1>1. Size \in Nat \ {0} /\ Table(arenas, assigned, Size)
  BY SizeType DEF ArenasInv
<1>2. ArenaUse!Indices = 0 .. Size - 1
  BY <1>1 DEF ArenaUse!Indices, Table
<1>3. \A t \in Threads : assigned[t] # None => assigned[t] \in ArenaUse!Indices /\ arenas[assigned[t]] # None
  BY <1>1, <1>2 DEF Table
<1>4. ASSUME NEW i \in ArenaUse!Indices, arenas[i] # None
      PROVE  arenas[i] = ArenaUse!Cardinality({t \in Threads : assigned[t] = i})
  BY <1>1, <1>2, <1>4, ArenasCardinality DEF Table, Users
<1>5. ASSUME ArenaUse!ctl_initialized
      PROVE  /\ ArenaUse!narenas_total = ctl_stats.narenas + (IF calls.pc = "grown" THEN 1 ELSE 0)
             /\ ctl_stats.arenas[ctl_stats.narenas].initialized
             /\ ctl_stats.arenas[ctl_stats.narenas].nthreads
                  = ArenaUse!SumFunctionOnSet(ArenaUse!NThreads(ctl_stats), ArenaUse!Shown(ctl_stats))
             /\ ctl_stats.arenas[ctl_stats.narenas].active
                  = ArenaUse!SumFunctionOnSet(ArenaUse!Active(ctl_stats), ArenaUse!Shown(ctl_stats))
             /\ \A i \in 0 .. ctl_stats.narenas - 1 : ctl_stats.arenas[i].initialized => arenas[i] # None
  <2>1. ctl_stats.narenas # 0
    BY <1>5 DEF ArenaUse!ctl_initialized
  <2>2. PICK n \in Nat \ {0} : \E f \in [0 .. n -> Element] :
            ctl_stats = Stats(n, f) /\ Summed(f, n) /\ SeenIn(f, n, arenas)
    BY <2>1 DEF ArenasInv, StatsKept
  <2>3. PICK f \in [0 .. n -> Element] : ctl_stats = Stats(n, f) /\ Summed(f, n) /\ SeenIn(f, n, arenas)
    BY <2>2
  <2>4. ctl_stats.narenas = n /\ ctl_stats.arenas = f
    BY <2>3 DEF Stats
  <2>5. Size = n + (IF calls.pc = "grown" THEN 1 ELSE 0)
    BY <2>1, <2>4 DEF Size
  <2>6. ArenaUse!narenas_total = Size
    <3>1. 0 \in Int /\ Size - 1 \in Int /\ 0 <= Size - 1 /\ (Size - 1) - 0 + 1 = Size
      BY <1>1
    <3>2. Cardinality(0 .. Size - 1) = Size
      BY <3>1, FS_Interval
    <3> QED BY <1>2, <3>2, ArenasCardinality DEF ArenaUse!narenas_total
  <2>7. /\ ArenaUse!NThreads(ctl_stats) = ThreadsOf(f, n) /\ ArenaUse!Active(ctl_stats) = ActivityOf(f, n)
        /\ ArenaUse!Shown(ctl_stats) = Seen(f, n)
    BY <2>4 DEF ArenaUse!NThreads, ArenaUse!Active, ArenaUse!Shown, ThreadsOf, ActivityOf, Seen
  <2>8. /\ f[n].initialized
        /\ f[n].nthreads = ArenaUse!SumFunctionOnSet(ArenaUse!NThreads(ctl_stats), ArenaUse!Shown(ctl_stats))
        /\ f[n].active = ArenaUse!SumFunctionOnSet(ArenaUse!Active(ctl_stats), ArenaUse!Shown(ctl_stats))
    BY <2>3, <2>7, ArenasSums DEF Summed
  <2>9. \A i \in 0 .. n - 1 : f[i].initialized => arenas[i] # None
    BY <2>3 DEF SeenIn, Seen
  <2> QED BY <2>4, <2>5, <2>6, <2>8, <2>9
<1> QED BY <1>3, <1>4, <1>5
-----------------------------------------------------------------------------
(* The store of chunks.  Every mapped address is in one of five places, the *)
(* hands of the threads among them; a step moves blocks between these.     *)

LEMMA ChunksCardinality ==
    ASSUME NEW S
    PROVE  Chunks!Cardinality(S) = Cardinality(S)
  BY DEF Chunks!Cardinality, Cardinality

LEMMA ChunksSums ==
    ASSUME NEW f, NEW S
    PROVE  Chunks!SumFunctionOnSet(f, S) = SumFunctionOnSet(f, S)
  BY DEF Chunks!SumFunctionOnSet, SumFunctionOnSet, Chunks!FoldFunctionOnSet, FoldFunctionOnSet,
         Chunks!MapThenFoldSet, MapThenFoldSet

AllApart(f) == \A t, u \in Threads : t # u => f[t] \cap f[u] = {}
AllOf(f) == UNION {f[t] : t \in Threads}

\* A thread's part of what threads have changes.
LEMMA OneThreadsPart ==
    ASSUME NEW f, NEW g, AllApart(f), NEW t \in Threads, \A u \in Threads \ {t} : g[u] = f[u],
           g[t] \cap (AllOf(f) \ f[t]) = {}
    PROVE  /\ AllOf(g) = (AllOf(f) \ f[t]) \union g[t]
           /\ AllApart(g)
<1>1. \A u \in Threads \ {t} : f[u] \subseteq AllOf(f) \ f[t]
  BY DEF AllApart, AllOf
<1>2. \A u \in Threads \ {t} : f[u] \cap g[t] = {}
  BY <1>1
<1>3. AllApart(g)
  BY <1>2 DEF AllApart
<1>4. AllOf(f) \ f[t] = UNION {f[u] : u \in Threads \ {t}}
  BY DEF AllApart, AllOf
<1>5. AllOf(g) = (UNION {f[u] : u \in Threads \ {t}}) \union g[t]
  BY DEF AllOf
<1> QED BY <1>3, <1>4, <1>5

\* Extents are replaced by others on the same chunks, or on new ones.
LEMMA ExtentsReplaced ==
    ASSUME NEW es, NEW old \in SUBSET es, NEW new, Chunks!Apart(es), Chunks!Apart(new),
           Chunks!Spans(new) \cap (Chunks!Spans(es) \ Chunks!Spans(old)) = {}
    PROVE  /\ Chunks!Spans((es \ old) \union new)
                = (Chunks!Spans(es) \ Chunks!Spans(old)) \union Chunks!Spans(new)
           /\ Chunks!Apart((es \ old) \union new)
<1>1. Chunks!Spans(es \ old) = Chunks!Spans(es) \ Chunks!Spans(old)
  BY DEF Chunks!Spans, Chunks!Apart
<1>2. Chunks!Spans((es \ old) \union new) = Chunks!Spans(es \ old) \union Chunks!Spans(new)
  BY DEF Chunks!Spans
<1>3. \A e \in es \ old, n \in new : Chunks!Span(e) \cap Chunks!Span(n) = {}
  BY <1>1 DEF Chunks!Spans
<1>4. Chunks!Apart((es \ old) \union new)
  BY <1>3 DEF Chunks!Apart
<1> QED BY <1>1, <1>2, <1>4

Disjoint(B, L, E, U, H) ==
    /\ B \cap L = {} /\ B \cap E = {} /\ B \cap U = {} /\ B \cap H = {}
    /\ L \cap E = {} /\ L \cap U = {} /\ L \cap H = {}
    /\ E \cap U = {} /\ E \cap H = {} /\ U \cap H = {}

Here(s) == [t \in Threads |-> Chunks!InHand(s[t])]
HandsOf(s) == AllOf(Here(s))

Parted ==
    /\ Disjoint(base, leaked, Chunks!Spans(extents), Chunks!Spans(huge), HandsOf(steps))
    /\ base \union leaked \union Chunks!Spans(extents) \union Chunks!Spans(huge) \union HandsOf(steps) = mapped
    /\ Chunks!Apart(extents) /\ Chunks!Apart(huge) /\ AllApart(Here(steps))

\* What the fields of a step mean where it is.
Shaped(w) ==
    /\ w \in Chunks!Work
    /\ w.pc \in {"recycle", "trail", "record"} => w.next = w.pc
    /\ w.pc \in {"node", "base"} => w.next # "none" /\ ~w.have
    /\ w.pc \in {"idle", "mmap", "count", "insert", "dealloc"} => w.next = "none" /\ ~w.have
    /\ w.pc # "idle" => w.size \in ChunkSizes
    /\ w.next = "trail" => w.trail.addr = w.addr + w.size /\ w.trail.size > 0

\* Chunks that will be stored as zero, while a node is sought for them.
CleanHand(w, written) ==
    /\ w.next = "record" /\ ~w.unzeroed => Chunks!Span(w) \cap written = {}
    /\ w.next = "trail" /\ w.trail.zeroed => Chunks!Span(w.trail) \cap written = {}

Clean ==
    /\ \A e \in extents : e.zeroed => Chunks!Span(e) \cap dirty = {}
    /\ \A t \in Threads : CleanHand(steps[t], dirty)

Holding(s) == [t \in Threads |-> Chunks!NodesInHand(s[t])]
NodesKept == Cardinality(extents) + Cardinality(huge) + spare + SumFunctionOnSet(Holding(steps), Threads) = made

Weighed(s) == [t \in Threads |-> Chunks!CountedInHand(s[t])]
CountedNow == base \union Chunks!Spans(huge) \union AllOf(Weighed(steps))
CountKept == curchunks + miscounted = Cardinality(CountedNow)

ChunksTyped ==
    /\ extents \subseteq [addr : Nat, size : Nat \ {0}, zeroed : BOOLEAN] /\ IsFiniteSet(extents)
    /\ huge \subseteq [addr : Nat, size : ChunkSizes] /\ IsFiniteSet(huge)
    /\ mapped \union dirty \subseteq 0 .. Space - 1
    /\ room \in 0 .. BaseNodes - 1 /\ spare \in Nat /\ made \in Nat /\ miscounted \in Nat
    /\ curchunks \in Int
    /\ steps \in [Threads -> Chunks!Work] /\ \A t \in Threads : Shaped(steps[t])

ChunksInv == ChunksTyped /\ Parted /\ Clean /\ NodesKept /\ CountKept

\* A step of thread t, to v, that replaces extents e0 by e1 and huge allocations u0 by u1, gives b to
\* the base allocator, loses l and maps f, all on the same addresses.
Transfer(t, v, e0, e1, u0, u1, b, l, f) ==
    /\ steps' = [steps EXCEPT ![t] = v]
    /\ e0 \subseteq extents /\ extents' = (extents \ e0) \union e1 /\ Chunks!Apart(e1)
    /\ u0 \subseteq huge /\ huge' = (huge \ u0) \union u1 /\ Chunks!Apart(u1)
    /\ base' = base \union b /\ leaked' = leaked \union l
    /\ mapped' = mapped \union f /\ f \cap mapped = {}
    /\ Disjoint(b, l, Chunks!Spans(e1), Chunks!Spans(u1), Chunks!InHand(v))
    /\ b \union l \union Chunks!Spans(e1) \union Chunks!Spans(u1) \union Chunks!InHand(v)
         = Chunks!Spans(e0) \union Chunks!Spans(u0) \union Chunks!InHand(steps[t]) \union f

LEMMA BlocksStep ==
    ASSUME ChunksInv, NEW t \in Threads, NEW v, NEW e0, NEW e1, NEW u0, NEW u1, NEW b, NEW l, NEW f,
           Transfer(t, v, e0, e1, u0, u1, b, l, f)
    PROVE  Parted'
<1> DEFINE E == Chunks!Spans(extents)
           U == Chunks!Spans(huge)
           H == HandsOf(steps)
           x0 == Chunks!Spans(e0)
           x1 == Chunks!Spans(e1)
           y0 == Chunks!Spans(u0)
           y1 == Chunks!Spans(u1)
           h0 == Chunks!InHand(steps[t])
           h1 == Chunks!InHand(v)
<1>1. Disjoint(base, leaked, E, U, H) /\ base \union leaked \union E \union U \union H = mapped
  BY DEF ChunksInv, Parted
<1>2. Chunks!Apart(extents) /\ Chunks!Apart(huge) /\ AllApart(Here(steps))
  BY DEF ChunksInv, Parted
<1>3. x0 \subseteq E /\ y0 \subseteq U
  BY DEF Chunks!Spans, Transfer
<1>4. Here(steps)[t] = h0 /\ h0 \subseteq H
  BY DEF HandsOf, Here, AllOf
<1>5. Disjoint(b, l, x1, y1, h1)
        /\ b \union l \union x1 \union y1 \union h1 = x0 \union y0 \union h0 \union f
        /\ f \cap mapped = {}
  BY DEF Transfer
<1>6. /\ steps \in [Threads -> Chunks!Work] /\ steps'[t] = v
      /\ \A u \in Threads \ {t} : steps'[u] = steps[u]
  BY DEF ChunksInv, ChunksTyped, Transfer
<1>7. Here(steps')[t] = h1 /\ \A u \in Threads \ {t} : Here(steps')[u] = Here(steps)[u]
  BY <1>6 DEF Here
<1> HIDE DEF E, U, H, x0, x1, y0, y1, h0, h1
<1>8. x1 \cap (E \ x0) = {} /\ y1 \cap (U \ y0) = {} /\ h1 \cap (H \ h0) = {}
  <2>1. x1 \union y1 \union h1 \subseteq x0 \union y0 \union h0 \union f
    BY <1>5
  <2>2. f \cap E = {} /\ f \cap U = {} /\ f \cap H = {}
    BY <1>1 DEF Transfer
  <2>3. E \cap U = {} /\ E \cap H = {} /\ U \cap H = {}
    BY <1>1 DEF Disjoint
  <2> QED BY <1>3, <1>4, <2>1, <2>2, <2>3
<1>9. Chunks!Spans(extents') = (E \ x0) \union x1 /\ Chunks!Apart(extents')
  BY <1>2, <1>8, ExtentsReplaced DEF Transfer, E, x0, x1
<1>10. Chunks!Spans(huge') = (U \ y0) \union y1 /\ Chunks!Apart(huge')
  BY <1>2, <1>8, ExtentsReplaced DEF Transfer, U, y0, y1
<1>11. HandsOf(steps') = (H \ h0) \union h1 /\ AllApart(Here(steps'))
  <2>1. h1 \cap (AllOf(Here(steps)) \ h0) = {}
    BY <1>8 DEF H, HandsOf
  <2>2. /\ AllOf(Here(steps')) = (AllOf(Here(steps)) \ Here(steps)[t]) \union Here(steps')[t]
        /\ AllApart(Here(steps'))
    BY <1>2, <1>4, <1>7, <2>1, OneThreadsPart
  <2> QED BY <1>4, <1>7, <2>2 DEF H, HandsOf
<1> DEFINE B2 == base \union b
           L2 == leaked \union l
           E2 == (E \ x0) \union x1
           U2 == (U \ y0) \union y1
           H2 == (H \ h0) \union h1
<1>12. Disjoint(B2, L2, E2, U2, H2) /\ B2 \union L2 \union E2 \union U2 \union H2 = mapped \union f
  <2> USE <1>1, <1>3, <1>4, <1>5 DEF Disjoint
  <2>1. \A x : x \in b \union l \union x1 \union y1 \union h1 <=> x \in x0 \union y0 \union h0 \union f
    OBVIOUS
  <2>2. B2 \cap L2 = {} /\ B2 \cap E2 = {} /\ B2 \cap U2 = {} /\ B2 \cap H2 = {}
    BY <2>1
  <2>3. L2 \cap E2 = {} /\ L2 \cap U2 = {} /\ L2 \cap H2 = {}
    BY <2>1
  <2>4. E2 \cap U2 = {} /\ E2 \cap H2 = {} /\ U2 \cap H2 = {}
    BY <2>1
  <2>5. B2 \union L2 \union E2 \union U2 \union H2 = mapped \union f
    BY <2>1
  <2> QED BY <2>2, <2>3, <2>4, <2>5
<1>13. (Parted)' <=>
         /\ Disjoint(base', leaked', Chunks!Spans(extents'), Chunks!Spans(huge'), HandsOf(steps'))
         /\ base' \union leaked' \union Chunks!Spans(extents') \union Chunks!Spans(huge') \union HandsOf(steps') = mapped'
         /\ Chunks!Apart(extents') /\ Chunks!Apart(huge') /\ AllApart(Here(steps'))
  BY DEF Parted
<1> QED BY <1>9, <1>10, <1>11, <1>12, <1>13 DEF Transfer

\* In many steps only what one thread is at changes.
LEMMA NothingMoves ==
    ASSUME ChunksInv, NEW t \in Threads, NEW v, steps' = [steps EXCEPT ![t] = v],
           Chunks!InHand(v) = Chunks!InHand(steps[t]),
           UNCHANGED <<extents, huge, base, leaked, mapped>>
    PROVE  Parted'
<1>1. Chunks!Spans({}) = {} /\ Chunks!Apart({})
  BY DEF Chunks!Spans, Chunks!Apart
<1>2. Transfer(t, v, {}, {}, {}, {}, {}, {}, {})
  BY <1>1 DEF Transfer, Disjoint
<1> QED BY <1>2, BlocksStep

LEMMA SpanSize ==
    ASSUME NEW x, x.addr \in Nat, x.size \in Nat
    PROVE  /\ Chunks!Span(x) = x.addr .. x.addr + x.size - 1
           /\ IsFiniteSet(Chunks!Span(x)) /\ Cardinality(Chunks!Span(x)) = x.size
<1>1. x.addr \in Int /\ x.addr + x.size - 1 \in Int
  OBVIOUS
<1> DEFINE lo == x.addr
           hi == x.addr + x.size - 1
<1>2. hi - lo + 1 = x.size /\ (lo > hi <=> x.size = 0) /\ lo \in Int /\ hi \in Int
  OBVIOUS
<1>3. Chunks!Span(x) = lo .. hi
  BY DEF Chunks!Span
<1> HIDE DEF lo, hi
<1>4. IsFiniteSet(lo .. hi) /\ Cardinality(lo .. hi) = IF lo > hi THEN 0 ELSE hi - lo + 1
  BY <1>2, FS_Interval
<1> QED BY <1>2, <1>3, <1>4 DEF lo, hi

LEMMA CountedIsHeld == \A w : Chunks!CountedInHand(w) \subseteq Chunks!InHand(w)
  BY DEF Chunks!CountedInHand, Chunks!InHand

\* What the other threads have in hand that is counted.
LEMMA WeighedStep ==
    ASSUME ChunksInv, NEW t \in Threads, NEW v, steps' = [steps EXCEPT ![t] = v], Parted'
    PROVE  \E o : /\ o \subseteq HandsOf(steps) /\ o \subseteq HandsOf(steps')
                  /\ o \cap Chunks!InHand(steps[t]) = {} /\ o \cap Chunks!InHand(v) = {}
                  /\ AllOf(Weighed(steps)) = o \union Chunks!CountedInHand(steps[t])
                  /\ AllOf(Weighed(steps')) = o \union Chunks!CountedInHand(v)
<1> DEFINE o == UNION {Chunks!CountedInHand(steps[u]) : u \in Threads \ {t}}
<1>1. steps'[t] = v /\ \A u \in Threads \ {t} : steps'[u] = steps[u]
  BY DEF ChunksInv, ChunksTyped
<1>2. AllOf(Weighed(steps)) = o \union Chunks!CountedInHand(steps[t])
  BY DEF AllOf, Weighed
<1>3. AllOf(Weighed(steps')) = o \union Chunks!CountedInHand(v)
  BY <1>1 DEF AllOf, Weighed
<1>4. \A u, x \in Threads : u # x => Chunks!InHand(steps[u]) \cap Chunks!InHand(steps[x]) = {}
  BY DEF ChunksInv, Parted, AllApart, Here
<1>5. \A u, x \in Threads : u # x => Chunks!InHand(steps'[u]) \cap Chunks!InHand(steps'[x]) = {}
  BY DEF Parted, AllApart, Here
<1>6. \A x \in o : \E u \in Threads \ {t} : x \in Chunks!InHand(steps[u])
  BY CountedIsHeld
<1>7. o \cap Chunks!InHand(steps[t]) = {}
  BY <1>4, <1>6
<1>8. o \cap Chunks!InHand(v) = {}
  BY <1>1, <1>5, <1>6
<1>9. o \subseteq HandsOf(steps) /\ o \subseteq HandsOf(steps')
  BY <1>1, <1>6 DEF HandsOf, AllOf, Here
<1> QED BY <1>2, <1>3, <1>7, <1>8, <1>9

Weight(bs, hs, w) == bs \union Chunks!Spans(hs) \union Chunks!CountedInHand(w)

LEMMA CountStep ==
    ASSUME ChunksInv, NEW t \in Threads, NEW v, steps' = [steps EXCEPT ![t] = v], Parted',
           mapped' \subseteq 0 .. Space - 1,
           curchunks' + miscounted' - (curchunks + miscounted)
             = Cardinality(Weight(base', huge', v)) - Cardinality(Weight(base, huge, steps[t])),
           curchunks' \in Int, miscounted' \in Nat
    PROVE  CountKept'
<1> DEFINE a == Weight(base, huge, steps[t])
           z == Weight(base', huge', v)
<1>1. PICK o : /\ o \subseteq HandsOf(steps) /\ o \subseteq HandsOf(steps')
               /\ o \cap Chunks!InHand(steps[t]) = {} /\ o \cap Chunks!InHand(v) = {}
               /\ AllOf(Weighed(steps)) = o \union Chunks!CountedInHand(steps[t])
               /\ AllOf(Weighed(steps')) = o \union Chunks!CountedInHand(v)
  BY WeighedStep
<1>2. CountedNow = a \union o
  BY <1>1 DEF CountedNow, Weight
<1>3. (CountedNow)' = z \union o
  BY <1>1 DEF CountedNow, Weight
<1>4. base \cap HandsOf(steps) = {} /\ Chunks!Spans(huge) \cap HandsOf(steps) = {}
  BY DEF ChunksInv, Parted, Disjoint
<1>5. base' \cap HandsOf(steps') = {} /\ Chunks!Spans(huge') \cap HandsOf(steps') = {}
  BY DEF Parted, Disjoint
<1>6. Chunks!CountedInHand(v) \subseteq Chunks!InHand(v)
      /\ Chunks!CountedInHand(steps[t]) \subseteq Chunks!InHand(steps[t])
  BY CountedIsHeld
<1>7. a \cap o = {} /\ z \cap o = {}
  BY <1>1, <1>4, <1>5, <1>6 DEF Weight
<1>8. IsFiniteSet(a) /\ IsFiniteSet(z) /\ IsFiniteSet(o)
  <2>1. IsFiniteSet(0 .. Space - 1)
    BY PartsAssumption, FS_Interval DEF PartsAssumption
  <2>2. mapped \subseteq 0 .. Space - 1 /\ mapped' \subseteq 0 .. Space - 1
    BY DEF ChunksInv, ChunksTyped
  <2>3. Chunks!InHand(steps[t]) \subseteq HandsOf(steps)
    BY DEF HandsOf, AllOf, Here
  <2>4. Chunks!InHand(v) \subseteq HandsOf(steps')
    <3>1. steps'[t] = v
      BY DEF ChunksInv, ChunksTyped
    <3> QED BY <3>1 DEF HandsOf, AllOf, Here
  <2>5. a \subseteq mapped /\ o \subseteq mapped
    BY <1>1, <1>6, <2>3 DEF ChunksInv, Parted, Weight
  <2>6. z \subseteq mapped'
    BY <1>6, <2>4 DEF Parted, Weight
  <2> QED BY <2>1, <2>2, <2>5, <2>6, FS_Subset
<1>9. /\ Cardinality(a \union o) = Cardinality(a) + Cardinality(o)
      /\ Cardinality(z \union o) = Cardinality(z) + Cardinality(o)
  <2> HIDE DEF a, z
  <2>1. /\ Cardinality(a \union o) = Cardinality(a) + Cardinality(o) - Cardinality(a \cap o)
        /\ Cardinality(z \union o) = Cardinality(z) + Cardinality(o) - Cardinality(z \cap o)
    BY <1>8, FS_Union
  <2>2. Cardinality(a \cap o) = 0 /\ Cardinality(z \cap o) = 0
    BY <1>7, FS_EmptySet
  <2>3. Cardinality(a) \in Nat /\ Cardinality(z) \in Nat /\ Cardinality(o) \in Nat
    BY <1>8, FS_CardinalityType
  <2> QED BY <2>1, <2>2, <2>3
<1>10. Cardinality(a) \in Nat /\ Cardinality(z) \in Nat /\ Cardinality(o) \in Nat
  BY <1>8, FS_CardinalityType
<1>11. curchunks + miscounted = Cardinality(a) + Cardinality(o) /\ curchunks \in Int
         /\ miscounted \in Nat
  BY <1>2, <1>9 DEF ChunksInv, CountKept, ChunksTyped
<1>12. curchunks' + miscounted' = Cardinality(z) + Cardinality(o)
  <2> HIDE DEF a, z
  <2>1. curchunks' + miscounted' - (curchunks + miscounted) = Cardinality(z) - Cardinality(a)
    BY DEF a, z
  <2> QED BY <1>10, <1>11, <2>1
<1> QED BY <1>3, <1>9, <1>12 DEF CountKept

LEMMA NodesStep ==
    ASSUME ChunksInv, NEW t \in Threads, NEW v, steps' = [steps EXCEPT ![t] = v],
           IsFiniteSet(extents'), IsFiniteSet(huge'), Chunks!NodesInHand(v) \in Nat, spare' \in Nat,
           made' \in Nat,
           Cardinality(extents') + Cardinality(huge') + spare' + Chunks!NodesInHand(v) - made'
             = Cardinality(extents) + Cardinality(huge) + spare + Chunks!NodesInHand(steps[t]) - made
    PROVE  NodesKept'
<1>1. /\ steps \in [Threads -> Chunks!Work] /\ steps'[t] = v
      /\ \A u \in Threads \ {t} : steps'[u] = steps[u]
  BY DEF ChunksInv, ChunksTyped
<1>2. \A w : Chunks!NodesInHand(w) \in Nat
  BY DEF Chunks!NodesInHand, Chunks!One
<1>3. /\ \A u \in Threads : Holding(steps)[u] \in Int /\ Holding(steps')[u] \in Int
      /\ \A u \in Threads \ {t} : Holding(steps)[u] = Holding(steps')[u]
      /\ Holding(steps)[t] = Chunks!NodesInHand(steps[t]) /\ Holding(steps')[t] = Chunks!NodesInHand(v)
  BY <1>1, <1>2 DEF Holding
<1>4. IsFiniteSet(Threads)
  BY PartsAssumption DEF PartsAssumption
<1>5. /\ SumFunctionOnSet(Holding(steps), Threads) \in Int
      /\ SumFunctionOnSet(Holding(steps'), Threads)
           = SumFunctionOnSet(Holding(steps), Threads) + Chunks!NodesInHand(v) - Chunks!NodesInHand(steps[t])
  <2> DEFINE f == Holding(steps)
             g == Holding(steps')
  <2>1. /\ IntOn(f, Threads) /\ IntOn(g, Threads) /\ \A u \in Threads \ {t} : f[u] = g[u]
        /\ f[t] = Chunks!NodesInHand(steps[t]) /\ g[t] = Chunks!NodesInHand(v)
    BY <1>3 DEF IntOn
  <2> HIDE DEF f, g
  <2>2. /\ SumFunctionOnSet(f, Threads) \in Int
        /\ SumFunctionOnSet(g, Threads) = SumFunctionOnSet(f, Threads) + g[t] - f[t]
    BY <1>4, <2>1, SumChange
  <2> QED BY <2>1, <2>2 DEF f, g
<1>6. Cardinality(extents) \in Nat /\ Cardinality(huge) \in Nat /\ Cardinality(extents') \in Nat
        /\ Cardinality(huge') \in Nat
  BY FS_CardinalityType DEF ChunksInv, ChunksTyped
<1>7. spare \in Nat /\ made \in Nat
  BY DEF ChunksInv, ChunksTyped
<1>8. Cardinality(extents) + Cardinality(huge) + spare + SumFunctionOnSet(Holding(steps), Threads) = made
  BY DEF ChunksInv, NodesKept
<1>9. Cardinality(extents') + Cardinality(huge') + spare' + SumFunctionOnSet(Holding(steps'), Threads) = made'
  <2>1. Chunks!NodesInHand(v) \in Nat /\ Chunks!NodesInHand(steps[t]) \in Nat
    BY <1>2
  <2> QED BY <1>5, <1>6, <1>7, <1>8, <2>1
<1> QED BY <1>9 DEF NodesKept

\* What a step does to the rest: it may dirty what the thread has in hand.
LEMMA ChunksStep ==
    ASSUME ChunksInv, NEW t \in Threads, NEW v, steps' = [steps EXCEPT ![t] = v], Shaped(v), Parted',
           extents' \subseteq [addr : Nat, size : Nat \ {0}, zeroed : BOOLEAN], IsFiniteSet(extents'),
           huge' \subseteq [addr : Nat, size : ChunkSizes], IsFiniteSet(huge'),
           mapped' \union dirty' \subseteq 0 .. Space - 1,
           room' \in 0 .. BaseNodes - 1, spare' \in Nat, made' \in Nat, miscounted' \in Nat,
           curchunks' \in Int,
           dirty' \subseteq dirty \union Chunks!InHand(steps[t]),
           \A e \in extents' \ extents : e.zeroed => Chunks!Span(e) \cap dirty' = {},
           CleanHand(v, dirty'),
           Cardinality(extents') + Cardinality(huge') + spare' + Chunks!NodesInHand(v) - made'
             = Cardinality(extents) + Cardinality(huge) + spare + Chunks!NodesInHand(steps[t]) - made,
           curchunks' + miscounted' - (curchunks + miscounted)
             = Cardinality(Weight(base', huge', v)) - Cardinality(Weight(base, huge, steps[t]))
    PROVE  ChunksInv'
<1>1. /\ steps \in [Threads -> Chunks!Work] /\ steps'[t] = v
      /\ \A u \in Threads \ {t} : steps'[u] = steps[u] /\ Shaped(steps[u])
      /\ v \in Chunks!Work
  BY DEF ChunksInv, ChunksTyped, Shaped
<1>2. steps' \in [Threads -> Chunks!Work] /\ \A u \in Threads : Shaped(steps'[u])
  BY <1>1
<1>3. ChunksTyped'
  BY <1>2 DEF ChunksTyped
<1>4. \A e \in extents' : e.zeroed => Chunks!Span(e) \cap dirty' = {}
  <2> SUFFICES ASSUME NEW e \in extents', e.zeroed, e \in extents
               PROVE  Chunks!Span(e) \cap dirty' = {}
    OBVIOUS
  <2>1. Chunks!Span(e) \subseteq Chunks!Spans(extents)
          /\ Chunks!InHand(steps[t]) \subseteq HandsOf(steps)
    BY DEF Chunks!Spans, HandsOf, AllOf, Here
  <2>2. Chunks!Spans(extents) \cap HandsOf(steps) = {} /\ Chunks!Span(e) \cap dirty = {}
    BY DEF ChunksInv, Parted, Disjoint, Clean
  <2> QED BY <2>1, <2>2
<1>5. \A u \in Threads : CleanHand(steps'[u], dirty')
  <2> SUFFICES ASSUME NEW u \in Threads, u # t
               PROVE  CleanHand(steps[u], dirty')
    BY <1>1
  <2>1. Chunks!InHand(steps[u]) \cap Chunks!InHand(steps[t]) = {} /\ CleanHand(steps[u], dirty)
    BY DEF ChunksInv, Parted, AllApart, Here, Clean
  <2>2. steps[u] \in Chunks!Work /\ Shaped(steps[u])
    BY <1>1
  <2>3. steps[u].next = "record" => Chunks!Span(steps[u]) \subseteq Chunks!InHand(steps[u])
    BY DEF Chunks!InHand
  <2>4. steps[u].next = "trail" => Chunks!Span(steps[u].trail) \subseteq Chunks!InHand(steps[u])
    BY <2>2 DEF Chunks!InHand, Shaped
  <2> QED BY <2>1, <2>3, <2>4 DEF CleanHand
<1>6. (Clean)'
  BY <1>4, <1>5 DEF Clean
<1>7. Chunks!NodesInHand(v) \in Nat
  BY DEF Chunks!NodesInHand, Chunks!One
<1>8. NodesKept'
  BY <1>7, NodesStep
<1>9. CountKept'
  BY CountStep
<1> QED BY <1>3, <1>6, <1>8, <1>9 DEF ChunksInv

LEMMA BothAdded ==
    ASSUME NEW c \in Nat, NEW h \in Nat, NEW p \in Nat, NEW n \in Nat, NEW q \in Nat,
           NEW r \in Nat, NEW m \in Nat, NEW s \in Nat, p + n - q = r + m - s
    PROVE  c + h + p + n - q = c + h + r + m - s
  OBVIOUS

\* A step in which no block moves.
LEMMA QuietStep ==
    ASSUME ChunksInv, NEW t \in Threads, NEW v, steps' = [steps EXCEPT ![t] = v], Shaped(v),
           Chunks!InHand(v) = Chunks!InHand(steps[t]),
           UNCHANGED <<extents, huge, base, mapped, leaked, miscounted>>,
           room' \in 0 .. BaseNodes - 1, spare' \in Nat, made' \in Nat, curchunks' \in Int,
           dirty' \subseteq dirty, CleanHand(v, dirty'),
           spare' + Chunks!NodesInHand(v) - made' = spare + Chunks!NodesInHand(steps[t]) - made,
           curchunks' - curchunks
             = Cardinality(Weight(base, huge, v)) - Cardinality(Weight(base, huge, steps[t]))
    PROVE  ChunksInv'
<1>1. Parted'
  BY NothingMoves
<1>2. /\ extents' \subseteq [addr : Nat, size : Nat \ {0}, zeroed : BOOLEAN] /\ IsFiniteSet(extents')
      /\ huge' \subseteq [addr : Nat, size : ChunkSizes] /\ IsFiniteSet(huge')
      /\ mapped' \union dirty' \subseteq 0 .. Space - 1 /\ miscounted' \in Nat
      /\ dirty' \subseteq dirty \union Chunks!InHand(steps[t]) /\ extents' \ extents = {}
  BY DEF ChunksInv, ChunksTyped
<1>3. /\ Cardinality(extents) \in Nat /\ Cardinality(huge) \in Nat /\ spare \in Nat /\ made \in Nat
      /\ curchunks \in Int
  BY FS_CardinalityType DEF ChunksInv, ChunksTyped
<1>4. Chunks!NodesInHand(v) \in Nat /\ Chunks!NodesInHand(steps[t]) \in Nat
  BY DEF Chunks!NodesInHand, Chunks!One
<1>5. Cardinality(extents') + Cardinality(huge') + spare' + Chunks!NodesInHand(v) - made'
        = Cardinality(extents) + Cardinality(huge) + spare + Chunks!NodesInHand(steps[t]) - made
  <2>1. extents' = extents /\ huge' = huge /\ spare' \in Nat /\ made' \in Nat
    OBVIOUS
  <2>2. spare' + Chunks!NodesInHand(v) - made' = spare + Chunks!NodesInHand(steps[t]) - made
    OBVIOUS
  <2>3. spare' \in Nat /\ made' \in Nat
    OBVIOUS
  <2>4. Cardinality(extents) + Cardinality(huge) + spare' + Chunks!NodesInHand(v) - made'
          = Cardinality(extents) + Cardinality(huge) + spare + Chunks!NodesInHand(steps[t]) - made
    BY ONLY <1>3, <1>4, <2>2, <2>3
  <2> QED BY <2>1, <2>4
<1>6. curchunks' + miscounted' - (curchunks + miscounted)
        = Cardinality(Weight(base', huge', v)) - Cardinality(Weight(base, huge, steps[t]))
  BY <1>2, <1>3
<1> QED BY <1>1, <1>2, <1>5, <1>6, ChunksStep

LEMMA TheStep ==
    ASSUME ChunksInv, NEW t \in Threads
    PROVE  /\ steps[t] \in Chunks!Work /\ Shaped(steps[t]) /\ CleanHand(steps[t], dirty)
           /\ Chunks!InHand(steps[t]) \subseteq mapped
           /\ IsFiniteSet(Weight(base, huge, steps[t]))
           /\ Cardinality(Weight(base, huge, steps[t])) \in Nat
           /\ room \in 0 .. BaseNodes - 1 /\ spare \in Nat /\ made \in Nat /\ miscounted \in Nat
           /\ curchunks \in Int /\ BaseNodes \in Nat \ {0}
<1>1. steps[t] \in Chunks!Work /\ Shaped(steps[t]) /\ CleanHand(steps[t], dirty)
  BY DEF ChunksInv, ChunksTyped, Clean
<1>2. Chunks!InHand(steps[t]) \subseteq HandsOf(steps)
  BY DEF HandsOf, AllOf, Here
<1>3. Chunks!InHand(steps[t]) \subseteq mapped /\ Weight(base, huge, steps[t]) \subseteq mapped
  BY <1>2, CountedIsHeld DEF ChunksInv, Parted, Weight
<1>4. IsFiniteSet(0 .. Space - 1) /\ mapped \subseteq 0 .. Space - 1
  <2>1. Space \in Nat /\ mapped \union dirty \subseteq 0 .. Space - 1
    BY PartsAssumption DEF PartsAssumption, ChunksInv, ChunksTyped
  <2>2. 0 \in Int /\ Space - 1 \in Int
    BY <2>1
  <2>3. IsFiniteSet(0 .. Space - 1)
    BY <2>2, FS_Interval
  <2> QED BY <2>1, <2>3
<1>5. IsFiniteSet(Weight(base, huge, steps[t]))
  BY <1>3, <1>4, FS_Subset
<1>6. Cardinality(Weight(base, huge, steps[t])) \in Nat
  BY <1>5, FS_CardinalityType
<1>7. /\ room \in 0 .. BaseNodes - 1 /\ spare \in Nat /\ made \in Nat /\ miscounted \in Nat
      /\ curchunks \in Int /\ BaseNodes \in Nat \ {0}
  BY PartsAssumption DEF PartsAssumption, ChunksInv, ChunksTyped
<1> QED BY <1>1, <1>3, <1>5, <1>6, <1>7

\* A step of a thread that has the same in hand after as before, counted or not.
LEMMA SameWeight ==
    ASSUME ChunksInv, NEW t \in Threads, NEW v, Chunks!CountedInHand(v) = Chunks!CountedInHand(steps[t])
    PROVE  /\ Weight(base, huge, v) = Weight(base, huge, steps[t])
           /\ Cardinality(Weight(base, huge, v)) - Cardinality(Weight(base, huge, steps[t])) = 0
<1>1. Weight(base, huge, v) = Weight(base, huge, steps[t])
  BY DEF Weight
<1> QED BY <1>1, TheStep

LEMMA HugePallocKeeps ==
    ASSUME ChunksInv, NEW t \in Threads, NEW size \in ChunkSizes, NEW alignment \in Alignments,
           Chunks!HugePalloc(t, size, alignment)
    PROVE  ChunksInv'
<1> DEFINE v == [Chunks!Idle EXCEPT !.pc = "node", !.next = "recycle", !.size = size, !.alignment = alignment]
<1>1. /\ steps[t].pc = "idle" /\ steps' = [steps EXCEPT ![t] = v]
      /\ UNCHANGED <<extents, huge, base, room, spare, mapped, dirty, curchunks, made, leaked, miscounted>>
  BY DEF Chunks!HugePalloc, Chunks!At, Chunks!Goto
<1>2. size \in Nat /\ alignment \in Nat \ {0}
  BY PartsAssumption DEF PartsAssumption
<1>3. v \in Chunks!Work /\ v.pc = "node" /\ v.next = "recycle" /\ v.size = size /\ v.have = FALSE
  BY <1>2 DEF Chunks!Idle, Chunks!Work, Chunks!Extent
<1> HIDE DEF v
<1>4. Shaped(v) /\ CleanHand(v, dirty')
  BY <1>3 DEF Shaped, CleanHand
<1>5. steps[t].next = "none"
  BY <1>1, TheStep DEF Shaped
<1>6. /\ Chunks!InHand(v) = {} /\ Chunks!InHand(steps[t]) = {}
      /\ Chunks!NodesInHand(v) = 0 /\ Chunks!NodesInHand(steps[t]) = 0
      /\ Chunks!CountedInHand(v) = {} /\ Chunks!CountedInHand(steps[t]) = {}
  BY <1>1, <1>3, <1>5 DEF Chunks!InHand, Chunks!NodesInHand, Chunks!CountedInHand, Chunks!One
<1>7. /\ Cardinality(Weight(base, huge, v)) - Cardinality(Weight(base, huge, steps[t])) = 0
      /\ room \in 0 .. BaseNodes - 1 /\ spare \in Nat /\ made \in Nat /\ curchunks \in Int
  BY <1>6, SameWeight, TheStep
<1>8. spare' + Chunks!NodesInHand(v) - made' = spare + Chunks!NodesInHand(steps[t]) - made
  BY <1>1, <1>6
<1>9. curchunks' - curchunks = Cardinality(Weight(base, huge, v)) - Cardinality(Weight(base, huge, steps[t]))
  BY <1>1, <1>7
<1> QED BY <1>1, <1>4, <1>6, <1>7, <1>8, <1>9, QuietStep

\* Where a step goes on from base_node_alloc.
LEMMA NodeStep ==
    ASSUME ChunksInv, NEW t \in Threads, steps[t].pc \in {"node", "base"}, NEW at, NEW have \in BOOLEAN,
           (at = "base" /\ ~have) \/ at = steps[t].next
    PROVE  LET v == [steps[t] EXCEPT !.pc = at, !.have = have]
           IN /\ Shaped(v) /\ CleanHand(v, dirty)
              /\ Chunks!InHand(v) = Chunks!InHand(steps[t])
              /\ Chunks!NodesInHand(v) = Chunks!NodesInHand(steps[t]) + (IF have THEN 1 ELSE 0)
              /\ Chunks!NodesInHand(steps[t]) \in Nat
              /\ Chunks!CountedInHand(v) = {} /\ Chunks!CountedInHand(steps[t]) = {}
<1> DEFINE w == steps[t]
           v == [w EXCEPT !.pc = at, !.have = have]
<1>1. w \in Chunks!Work /\ Shaped(w) /\ CleanHand(w, dirty)
  BY TheStep
<1>2. w.next \in {"recycle", "trail", "record"} /\ ~w.have
  BY <1>1 DEF Shaped, Chunks!Work
<1>3. /\ v \in Chunks!Work /\ v.pc = at /\ v.have = have /\ v.next = w.next /\ v.size = w.size
      /\ v.addr = w.addr /\ v.trail = w.trail /\ v.unzeroed = w.unzeroed
  BY <1>1, <1>2 DEF Chunks!Work
<1> HIDE DEF w, v
<1>4. w.pc \in {"node", "base"} /\ ((at = "base" /\ ~have) \/ at = w.next)
  BY DEF w
<1>5. Shaped(v)
  BY <1>1, <1>2, <1>3, <1>4 DEF Shaped
<1>6. Chunks!Span(v) = Chunks!Span(w) /\ Chunks!Span(v.trail) = Chunks!Span(w.trail)
  BY <1>3 DEF Chunks!Span
<1>7. CleanHand(v, dirty)
  BY <1>1, <1>3, <1>6 DEF CleanHand
<1>8. Chunks!InHand(v) = Chunks!InHand(w)
  BY <1>2, <1>3, <1>4, <1>6 DEF Chunks!InHand
<1>9. /\ Chunks!NodesInHand(v) = Chunks!NodesInHand(w) + (IF have THEN 1 ELSE 0)
      /\ Chunks!NodesInHand(w) \in Nat
  BY <1>2, <1>3, <1>4 DEF Chunks!NodesInHand, Chunks!One
<1>10. Chunks!CountedInHand(v) = {} /\ Chunks!CountedInHand(w) = {}
  BY <1>2, <1>3, <1>4 DEF Chunks!CountedInHand
<1> QED BY <1>5, <1>7, <1>8, <1>9, <1>10 DEF v, w

LEMMA PopNodeKeeps ==
    ASSUME ChunksInv, NEW t \in Threads, Chunks!PopNode(t)
    PROVE  ChunksInv'
<1>1. /\ steps[t].pc = "node"
      /\ UNCHANGED <<extents, huge, base, room, mapped, dirty, curchunks, made, leaked, miscounted>>
  BY DEF Chunks!PopNode, Chunks!At
<1>2. PICK at \in {"base", steps[t].next}, have \in BOOLEAN :
        /\ (at = "base" /\ ~have) \/ at = steps[t].next
        /\ steps' = [steps EXCEPT ![t] = [steps[t] EXCEPT !.pc = at, !.have = have]]
        /\ spare' = spare - (IF have THEN 1 ELSE 0) /\ (have => spare > 0)
  <2>1. CASE spare > 0 /\ spare' = spare - 1 /\ Chunks!Goto(t, Chunks!HasNode(steps[t], TRUE))
    <3>1. /\ steps' = [steps EXCEPT ![t] = [steps[t] EXCEPT !.pc = steps[t].next, !.have = TRUE]]
          /\ spare' = spare - (IF TRUE THEN 1 ELSE 0)
      BY <2>1 DEF Chunks!Goto, Chunks!HasNode
    <3> QED BY <2>1, <3>1
  <2>2. CASE spare = 0 /\ spare' = spare /\ Chunks!Goto(t, [steps[t] EXCEPT !.pc = "base"])
    <3>1. steps[t] \in Chunks!Work /\ steps[t].have = FALSE
      BY <1>1, TheStep DEF Shaped, Chunks!Work
    <3>2. [steps[t] EXCEPT !.pc = "base"] = [steps[t] EXCEPT !.pc = "base", !.have = FALSE]
      BY <3>1 DEF Chunks!Work
    <3>3. /\ steps' = [steps EXCEPT ![t] = [steps[t] EXCEPT !.pc = "base", !.have = FALSE]]
          /\ spare' = spare - (IF FALSE THEN 1 ELSE 0)
      <4>1. spare \in Nat
        BY TheStep
      <4>2. spare' = spare - (IF FALSE THEN 1 ELSE 0)
        BY ONLY <2>2, <4>1
      <4>3. steps' = [steps EXCEPT ![t] = [steps[t] EXCEPT !.pc = "base"]]
        BY <2>2 DEF Chunks!Goto
      <4> QED BY <3>2, <4>2, <4>3
    <3> QED BY <3>3
  <2> QED BY <2>1, <2>2 DEF Chunks!PopNode
<1> DEFINE v == [steps[t] EXCEPT !.pc = at, !.have = have]
<1>3. /\ Shaped(v) /\ CleanHand(v, dirty) /\ Chunks!InHand(v) = Chunks!InHand(steps[t])
      /\ Chunks!NodesInHand(v) = Chunks!NodesInHand(steps[t]) + (IF have THEN 1 ELSE 0)
      /\ Chunks!NodesInHand(steps[t]) \in Nat
      /\ Chunks!CountedInHand(v) = {} /\ Chunks!CountedInHand(steps[t]) = {}
  BY <1>1, <1>2, NodeStep
<1>4. steps' = [steps EXCEPT ![t] = v]
  BY <1>2
<1> HIDE DEF v
<1>5. /\ Cardinality(Weight(base, huge, v)) - Cardinality(Weight(base, huge, steps[t])) = 0
      /\ room \in 0 .. BaseNodes - 1 /\ spare \in Nat /\ made \in Nat /\ curchunks \in Int
  BY <1>3, SameWeight, TheStep
<1>6. spare' \in Nat
        /\ spare' + Chunks!NodesInHand(v) - made' = spare + Chunks!NodesInHand(steps[t]) - made
  BY ONLY <1>1, <1>2, <1>3, <1>5
<1>7. curchunks' - curchunks = Cardinality(Weight(base, huge, v)) - Cardinality(Weight(base, huge, steps[t]))
  BY <1>1, <1>5
<1> QED BY <1>1, <1>3, <1>4, <1>5, <1>6, <1>7, QuietStep

LEMMA NoBlocks ==
    /\ Chunks!Spans({}) = {} /\ Chunks!Apart({})
    /\ \A e : Chunks!Spans({e}) = Chunks!Span(e) /\ Chunks!Apart({e})
  BY DEF Chunks!Spans, Chunks!Apart

\* A chunk for base_pages.
LEMMA BaseChunk ==
    ASSUME ChunksInv, NEW t \in Threads, NEW v, steps' = [steps EXCEPT ![t] = v], Shaped(v),
           CleanHand(v, dirty'),
           Chunks!InHand(v) = Chunks!InHand(steps[t]),
           Chunks!CountedInHand(v) = {}, Chunks!CountedInHand(steps[t]) = {},
           NEW a \in (0 .. Space - 1) \ mapped, base' = base \union {a}, mapped' = mapped \union {a},
           curchunks' = curchunks + 1, made' = made + 1, room' \in 0 .. BaseNodes - 1,
           Chunks!NodesInHand(v) = Chunks!NodesInHand(steps[t]) + 1,
           Chunks!NodesInHand(steps[t]) \in Nat,
           UNCHANGED <<extents, huge, spare, dirty, leaked, miscounted>>
    PROVE  ChunksInv'
<1>1. Chunks!InHand(steps[t]) \subseteq mapped
  BY TheStep
<1>2. Transfer(t, v, {}, {}, {}, {}, {a}, {}, {a})
  BY <1>1, NoBlocks DEF Transfer, Disjoint
<1>3. Parted'
  BY <1>2, BlocksStep
<1>4. /\ extents' \subseteq [addr : Nat, size : Nat \ {0}, zeroed : BOOLEAN] /\ IsFiniteSet(extents')
      /\ huge' \subseteq [addr : Nat, size : ChunkSizes] /\ IsFiniteSet(huge')
      /\ mapped' \union dirty' \subseteq 0 .. Space - 1
      /\ dirty' \subseteq dirty \union Chunks!InHand(steps[t]) /\ extents' \ extents = {}
      /\ extents' = extents /\ huge' = huge /\ spare' = spare /\ miscounted' = miscounted
  BY DEF ChunksInv, ChunksTyped
<1>5. /\ Cardinality(extents) \in Nat /\ Cardinality(huge) \in Nat /\ spare \in Nat /\ made \in Nat
      /\ curchunks \in Int /\ miscounted \in Nat
  BY FS_CardinalityType DEF ChunksInv, ChunksTyped
<1>6. spare' \in Nat /\ made' \in Nat /\ miscounted' \in Nat /\ curchunks' \in Int
  BY <1>4, <1>5
<1>7. made' = made + 1 /\ curchunks' = curchunks + 1
      /\ Chunks!NodesInHand(v) = Chunks!NodesInHand(steps[t]) + 1
      /\ Chunks!NodesInHand(steps[t]) \in Nat
  OBVIOUS
<1>8. Cardinality(extents') + Cardinality(huge') + spare' + Chunks!NodesInHand(v) - made'
        = Cardinality(extents) + Cardinality(huge) + spare + Chunks!NodesInHand(steps[t]) - made
  <2>1. Cardinality(extents) + Cardinality(huge) + spare + Chunks!NodesInHand(v) - made'
          = Cardinality(extents) + Cardinality(huge) + spare + Chunks!NodesInHand(steps[t]) - made
    BY ONLY <1>5, <1>7
  <2> QED BY <1>4, <2>1
<1>9. Weight(base', huge', v) = Weight(base, huge, steps[t]) \union {a}
        /\ a \notin Weight(base, huge, steps[t])
  BY CountedIsHeld, <1>1, <1>4 DEF Weight, ChunksInv, Parted
<1>10. IsFiniteSet(Weight(base, huge, steps[t])) /\ Cardinality(Weight(base, huge, steps[t])) \in Nat
  BY TheStep
<1>11. Cardinality(Weight(base', huge', v)) = Cardinality(Weight(base, huge, steps[t])) + 1
  BY <1>9, <1>10, FS_AddElement
<1>12. curchunks' + miscounted - (curchunks + miscounted)
         = Cardinality(Weight(base', huge', v)) - Cardinality(Weight(base, huge, steps[t]))
  BY ONLY <1>5, <1>7, <1>10, <1>11
<1> QED BY <1>3, <1>4, <1>6, <1>8, <1>12, ChunksStep

LEMMA BaseAllocKeeps ==
    ASSUME ChunksInv, NEW t \in Threads, Chunks!BaseAlloc(t)
    PROVE  ChunksInv'
<1>1. steps[t].pc = "base" /\ UNCHANGED <<extents, huge, spare, dirty, leaked, miscounted>>
  BY DEF Chunks!BaseAlloc, Chunks!At
<1>2. PICK have \in BOOLEAN :
        /\ steps' = [steps EXCEPT ![t] = [steps[t] EXCEPT !.pc = steps[t].next, !.have = have]]
        /\ \/ have /\ room > 0 /\ room' = room - 1 /\ made' = made + 1
                /\ UNCHANGED <<base, mapped, curchunks>>
           \/ /\ have /\ room' = BaseNodes - 1 /\ made' = made + 1 /\ curchunks' = curchunks + 1
              /\ \E a \in (0 .. Space - 1) \ mapped : base' = base \union {a}
                   /\ mapped' = mapped \union {a}
           \/ ~have /\ room' = room /\ made' = made /\ UNCHANGED <<base, mapped, curchunks>>
  BY DEF Chunks!BaseAlloc, Chunks!Goto, Chunks!HasNode
<1> DEFINE v == [steps[t] EXCEPT !.pc = steps[t].next, !.have = have]
<1>3. /\ Shaped(v) /\ CleanHand(v, dirty) /\ Chunks!InHand(v) = Chunks!InHand(steps[t])
      /\ Chunks!NodesInHand(v) = Chunks!NodesInHand(steps[t]) + (IF have THEN 1 ELSE 0)
      /\ Chunks!NodesInHand(steps[t]) \in Nat
      /\ Chunks!CountedInHand(v) = {} /\ Chunks!CountedInHand(steps[t]) = {}
  BY <1>1, NodeStep
<1>4. steps' = [steps EXCEPT ![t] = v]
  BY <1>2
<1> HIDE DEF v
<1>5. /\ Cardinality(Weight(base, huge, v)) - Cardinality(Weight(base, huge, steps[t])) = 0
      /\ room \in 0 .. BaseNodes - 1 /\ spare \in Nat /\ made \in Nat /\ curchunks \in Int
      /\ BaseNodes \in Nat \ {0}
  BY <1>3, SameWeight, TheStep
<1>6. CASE UNCHANGED <<base, mapped, curchunks>> /\ made' = made + (IF have THEN 1 ELSE 0)
        /\ room' \in 0 .. BaseNodes - 1
  <2>1. /\ UNCHANGED <<extents, huge, base, mapped, leaked, miscounted>> /\ spare' = spare
        /\ dirty' \subseteq dirty
        /\ CleanHand(v, dirty') /\ room' \in 0 .. BaseNodes - 1 /\ curchunks' = curchunks
        /\ made' = made + (IF have THEN 1 ELSE 0)
    BY <1>1, <1>3, <1>6
  <2>2. spare' \in Nat /\ made' \in Nat /\ curchunks' \in Int
        /\ spare' + Chunks!NodesInHand(v) - made' = spare + Chunks!NodesInHand(steps[t]) - made
    BY ONLY <1>2, <1>3, <1>5, <2>1
  <2>3. curchunks' - curchunks = Cardinality(Weight(base, huge, v)) - Cardinality(Weight(base, huge, steps[t]))
    BY <1>5, <2>1
  <2> QED BY <1>3, <1>4, <2>1, <2>2, <2>3, QuietStep
<1>7. CASE /\ have /\ room' = BaseNodes - 1 /\ made' = made + 1 /\ curchunks' = curchunks + 1
           /\ \E a \in (0 .. Space - 1) \ mapped : base' = base \union {a}
                /\ mapped' = mapped \union {a}
  <2>1. PICK a \in (0 .. Space - 1) \ mapped : base' = base \union {a} /\ mapped' = mapped \union {a}
    BY <1>7
  <2>2. room' \in 0 .. BaseNodes - 1 /\ Chunks!NodesInHand(v) = Chunks!NodesInHand(steps[t]) + 1
          /\ CleanHand(v, dirty')
    BY <1>1, <1>3, <1>5, <1>7
  <2> QED BY <1>1, <1>3, <1>4, <1>7, <2>1, <2>2, BaseChunk
<1>8. \/ UNCHANGED <<base, mapped, curchunks>> /\ made' = made + (IF have THEN 1 ELSE 0)
           /\ room' \in 0 .. BaseNodes - 1
      \/ /\ have /\ room' = BaseNodes - 1 /\ made' = made + 1 /\ curchunks' = curchunks + 1
         /\ \E a \in (0 .. Space - 1) \ mapped : base' = base \union {a} /\ mapped' = mapped \union {a}
  BY <1>2, <1>5
<1> QED BY <1>6, <1>7, <1>8

\* A thread with a block in hand.
Block(v, at, size, addr) ==
    /\ v \in Chunks!Work /\ v.pc = at /\ v.next = "none" /\ v.have = FALSE /\ v.size = size
    /\ v.addr = addr

LEMMA BlockIs ==
    ASSUME NEW at \in {"count", "insert", "dealloc"}, NEW size \in ChunkSizes, NEW addr, NEW v,
           Block(v, at, size, addr)
    PROVE  /\ Shaped(v) /\ v.size = size /\ v.addr = addr /\ Chunks!Span(v) = addr .. addr + size - 1
           /\ Chunks!InHand(v) = Chunks!Span(v) /\ Chunks!NodesInHand(v) = 1
           /\ Chunks!CountedInHand(v) = (IF at = "count" THEN {} ELSE Chunks!Span(v))
           /\ \A written : CleanHand(v, written)
<1>1. v \in Chunks!Work /\ v.pc = at /\ v.next = "none" /\ v.have = FALSE /\ v.size = size
        /\ v.addr = addr
  BY DEF Block
<1>2. Shaped(v) /\ \A written : CleanHand(v, written)
  BY <1>1 DEF Shaped, CleanHand
<1>3. Chunks!Span(v) = addr .. addr + size - 1
  BY <1>1 DEF Chunks!Span
<1>4. Chunks!InHand(v) = Chunks!Span(v) /\ Chunks!NodesInHand(v) = 1
  BY <1>1 DEF Chunks!InHand, Chunks!NodesInHand, Chunks!One
<1>5. Chunks!CountedInHand(v) = IF at = "count" THEN {} ELSE Chunks!Span(v)
  BY <1>1 DEF Chunks!CountedInHand
<1> QED BY <1>1, <1>2, <1>3, <1>4, <1>5

LEMMA DoingIs ==
    ASSUME NEW at \in {"count", "insert", "dealloc"}, NEW size \in ChunkSizes, NEW addr \in Nat
    PROVE  /\ Block(Chunks!Doing(at, size, addr), at, size, addr)
           /\ Block([Chunks!Doing(at, size, addr) EXCEPT !.back = "idle"], at, size, addr)
<1>1. size \in Nat \ {0}
  BY PartsAssumption DEF PartsAssumption
<1>2. Block(Chunks!Doing(at, size, addr), at, size, addr)
  <2> DEFINE v == [Chunks!Idle EXCEPT !.pc = at, !.size = size, !.addr = addr]
  <2>1. v \in Chunks!Work
    <3>1. Chunks!Idle \in Chunks!Work
      BY DEF Chunks!Idle, Chunks!Work, Chunks!Extent
    <3> QED BY <1>1, <3>1 DEF Chunks!Work
  <2>2. v.pc = at /\ v.next = "none" /\ v.have = FALSE /\ v.size = size /\ v.addr = addr
    BY DEF Chunks!Idle, Chunks!Extent
  <2>3. Chunks!Doing(at, size, addr) = v
    BY DEF Chunks!Doing
  <2> HIDE DEF v
  <2> QED BY <2>1, <2>2, <2>3 DEF Block
<1>3. ASSUME NEW v, Block(v, at, size, addr)
      PROVE  Block([v EXCEPT !.back = "idle"], at, size, addr)
  BY <1>3 DEF Block, Chunks!Work
<1> QED BY <1>2, <1>3

LEMMA IdleIs ==
    /\ Shaped(Chunks!Idle) /\ Chunks!InHand(Chunks!Idle) = {} /\ Chunks!CountedInHand(Chunks!Idle) = {}
    /\ Chunks!NodesInHand(Chunks!Idle) = 0 /\ \A written : CleanHand(Chunks!Idle, written)
<1>1. /\ Chunks!Idle \in Chunks!Work /\ Chunks!Idle.pc = "idle" /\ Chunks!Idle.next = "none"
      /\ Chunks!Idle.have = FALSE
  BY DEF Chunks!Idle, Chunks!Work, Chunks!Extent
<1> QED BY <1>1 DEF Shaped, Chunks!InHand, Chunks!CountedInHand, Chunks!NodesInHand, CleanHand

LEMMA AddBlock ==
    ASSUME NEW a, IsFiniteSet(a), NEW x, x.addr \in Nat, x.size \in Nat, a \cap Chunks!Span(x) = {}
    PROVE  Cardinality(a \union Chunks!Span(x)) = Cardinality(a) + x.size
<1>1. IsFiniteSet(Chunks!Span(x)) /\ Cardinality(Chunks!Span(x)) = x.size
  BY SpanSize
<1> DEFINE s == Chunks!Span(x)
<1> HIDE DEF s
<1>2. IsFiniteSet(s) /\ Cardinality(s) = x.size /\ a \cap s = {}
  BY <1>1 DEF s
<1>3. Cardinality(a \union s) = Cardinality(a) + Cardinality(s) - Cardinality(a \cap s)
  BY <1>2, FS_Union
<1>4. Cardinality(a \cap s) = 0 /\ Cardinality(a) \in Nat
  BY <1>2, FS_EmptySet, FS_CardinalityType
<1>5. Cardinality(a \union s) = Cardinality(a) + x.size
  BY <1>2, <1>3, <1>4
<1> QED BY <1>5 DEF s

\* A thread that begins to count what it has in hand, or ends it.
LEMMA CountsIn ==
    ASSUME ChunksInv, NEW t \in Threads, NEW a, NEW x, x.addr \in Nat, x.size \in Nat,
           Chunks!Span(x) \subseteq Chunks!InHand(steps[t]), Chunks!CountedInHand(a) = {},
           NEW z, Chunks!CountedInHand(z) = Chunks!Span(x)
    PROVE  /\ Cardinality(Weight(base, huge, z)) = Cardinality(Weight(base, huge, a)) + x.size
           /\ Cardinality(Weight(base, huge, a)) \in Nat
<1>1. Chunks!InHand(steps[t]) \subseteq HandsOf(steps)
  BY DEF HandsOf, AllOf, Here
<1>2. /\ Weight(base, huge, z) = Weight(base, huge, a) \union Chunks!Span(x)
      /\ Weight(base, huge, a) \cap Chunks!Span(x) = {} /\ Weight(base, huge, a) \subseteq mapped
  <2>1. Weight(base, huge, a) = base \union Chunks!Spans(huge)
    BY DEF Weight
  <2>2. Weight(base, huge, z) = base \union Chunks!Spans(huge) \union Chunks!Span(x)
    BY DEF Weight
  <2>3. base \cap HandsOf(steps) = {} /\ Chunks!Spans(huge) \cap HandsOf(steps) = {}
    BY DEF ChunksInv, Parted, Disjoint
  <2>4. base \union Chunks!Spans(huge) \subseteq mapped
    BY DEF ChunksInv, Parted
  <2> QED BY <1>1, <2>1, <2>2, <2>3, <2>4
<1>3. IsFiniteSet(0 .. Space - 1) /\ mapped \subseteq 0 .. Space - 1
  <2>1. IsFiniteSet(0 .. Space - 1)
    BY PartsAssumption, FS_Interval DEF PartsAssumption
  <2> QED BY <2>1 DEF ChunksInv, ChunksTyped
<1>4. IsFiniteSet(Weight(base, huge, a))
  BY <1>2, <1>3, FS_Subset
<1>5. Cardinality(Weight(base, huge, a) \union Chunks!Span(x)) = Cardinality(Weight(base, huge, a)) + x.size
  BY <1>2, <1>4, AddBlock
<1> QED BY <1>2, <1>4, <1>5, FS_CardinalityType

LEMMA CountKeeps ==
    ASSUME ChunksInv, NEW t \in Threads, Chunks!Count(t)
    PROVE  ChunksInv'
<1> DEFINE w == steps[t]
           v == Chunks!Doing("insert", w.size, w.addr)
<1>1. /\ w.pc = "count" /\ steps' = [steps EXCEPT ![t] = v] /\ curchunks' = curchunks + w.size
      /\ UNCHANGED <<extents, huge, base, room, spare, mapped, dirty, made, leaked, miscounted>>
  BY DEF Chunks!Count, Chunks!At, Chunks!Goto
<1>2. w \in Chunks!Work /\ Shaped(w)
  BY TheStep
<1>3. w.size \in ChunkSizes /\ w.size \in Nat /\ w.addr \in Nat /\ w.next = "none" /\ ~w.have
  BY <1>1, <1>2 DEF Shaped, Chunks!Work
<1>4. /\ Shaped(v) /\ Chunks!Span(v) = w.addr .. w.addr + w.size - 1
      /\ Chunks!InHand(v) = Chunks!Span(v) /\ Chunks!NodesInHand(v) = 1
      /\ Chunks!CountedInHand(v) = Chunks!Span(v) /\ CleanHand(v, dirty')
  <2>1. Block(v, "insert", w.size, w.addr)
    BY <1>3, DoingIs
  <2> HIDE DEF v
  <2> QED BY <1>3, <2>1, BlockIs
<1> HIDE DEF v, w
<1>5. /\ Chunks!InHand(w) = Chunks!Span(w) /\ Chunks!CountedInHand(w) = {} /\ Chunks!NodesInHand(w) = 1
      /\ Chunks!Span(w) = w.addr .. w.addr + w.size - 1
  BY <1>1, <1>3 DEF Chunks!InHand, Chunks!CountedInHand, Chunks!NodesInHand, Chunks!One, Chunks!Span
<1>6. /\ Cardinality(Weight(base, huge, v)) = Cardinality(Weight(base, huge, w)) + w.size
      /\ Cardinality(Weight(base, huge, w)) \in Nat
  BY <1>3, <1>4, <1>5, CountsIn DEF w
<1>7. room \in 0 .. BaseNodes - 1 /\ spare \in Nat /\ made \in Nat /\ curchunks \in Int
  BY TheStep
<1>8. curchunks' \in Int
        /\ curchunks' - curchunks = Cardinality(Weight(base, huge, v)) - Cardinality(Weight(base, huge, w))
  BY ONLY <1>1, <1>3, <1>6, <1>7
<1>9. /\ room' \in 0 .. BaseNodes - 1 /\ spare' \in Nat /\ made' \in Nat /\ dirty' \subseteq dirty
      /\ spare' + Chunks!NodesInHand(v) - made' = spare + Chunks!NodesInHand(w) - made
      /\ Chunks!InHand(v) = Chunks!InHand(w)
      /\ UNCHANGED <<extents, huge, base, mapped, leaked, miscounted>>
  BY <1>1, <1>4, <1>5, <1>7
<1> QED BY <1>1, <1>4, <1>8, <1>9, QuietStep DEF w

LEMMA DeallocKeeps ==
    ASSUME ChunksInv, NEW t \in Threads, Chunks!Dealloc(t)
    PROVE  ChunksInv'
<1> DEFINE w == steps[t]
<1>1. PICK unzeroed \in BOOLEAN :
        /\ w.pc = "dealloc"
        /\ steps' = [steps EXCEPT ![t] = [w EXCEPT !.pc = "node", !.next = "record", !.unzeroed = unzeroed]]
        /\ curchunks' = curchunks - w.size
        /\ dirty' = IF unzeroed THEN dirty ELSE dirty \ Chunks!Span(w)
        /\ UNCHANGED <<extents, huge, base, room, spare, mapped, made, leaked, miscounted>>
  BY DEF Chunks!Dealloc, Chunks!At, Chunks!Goto
<1> DEFINE v == [w EXCEPT !.pc = "node", !.next = "record", !.unzeroed = unzeroed]
<1>2. w \in Chunks!Work /\ Shaped(w)
  BY TheStep
<1>3. w.size \in ChunkSizes /\ w.size \in Nat /\ w.addr \in Nat /\ w.next = "none" /\ ~w.have
  BY <1>1, <1>2 DEF Shaped, Chunks!Work
<1>4. /\ v \in Chunks!Work /\ v.pc = "node" /\ v.next = "record" /\ v.have = FALSE /\ v.size = w.size
      /\ v.addr = w.addr /\ v.unzeroed = unzeroed
  BY <1>2, <1>3 DEF Chunks!Work
<1>5. steps' = [steps EXCEPT ![t] = v]
  BY <1>1
<1> HIDE DEF v, w
<1>6. Shaped(v)
  BY <1>3, <1>4 DEF Shaped
<1>7. /\ Chunks!Span(v) = Chunks!Span(w) /\ Chunks!InHand(v) = Chunks!InHand(w)
      /\ Chunks!InHand(w) = Chunks!Span(w) /\ Chunks!NodesInHand(v) = 1 /\ Chunks!NodesInHand(w) = 1
      /\ Chunks!CountedInHand(v) = {} /\ Chunks!CountedInHand(w) = Chunks!Span(w)
  BY <1>1, <1>3, <1>4 DEF Chunks!Span, Chunks!InHand, Chunks!NodesInHand, Chunks!CountedInHand, Chunks!One
<1>8. CleanHand(v, dirty')
  BY <1>1, <1>4, <1>7 DEF CleanHand
<1>9. /\ Cardinality(Weight(base, huge, w)) = Cardinality(Weight(base, huge, v)) + w.size
      /\ Cardinality(Weight(base, huge, v)) \in Nat
  BY <1>3, <1>7, CountsIn DEF w
<1>10. room \in 0 .. BaseNodes - 1 /\ spare \in Nat /\ made \in Nat /\ curchunks \in Int
  BY TheStep
<1>11. curchunks' \in Int
         /\ curchunks' - curchunks = Cardinality(Weight(base, huge, v)) - Cardinality(Weight(base, huge, w))
  BY ONLY <1>1, <1>3, <1>9, <1>10
<1>12. /\ room' \in 0 .. BaseNodes - 1 /\ spare' \in Nat /\ made' \in Nat /\ dirty' \subseteq dirty
       /\ spare' + Chunks!NodesInHand(v) - made' = spare + Chunks!NodesInHand(w) - made
       /\ UNCHANGED <<extents, huge, base, mapped, leaked, miscounted>>
  BY <1>1, <1>7, <1>10
<1> QED BY <1>5, <1>6, <1>7, <1>8, <1>11, <1>12, QuietStep DEF w

LEMMA TheState ==
    ASSUME ChunksInv
    PROVE  /\ extents \subseteq [addr : Nat, size : Nat \ {0}, zeroed : BOOLEAN] /\ IsFiniteSet(extents)
           /\ huge \subseteq [addr : Nat, size : ChunkSizes] /\ IsFiniteSet(huge)
           /\ mapped \union dirty \subseteq 0 .. Space - 1
           /\ Cardinality(extents) \in Nat /\ Cardinality(huge) \in Nat
           /\ room \in 0 .. BaseNodes - 1 /\ spare \in Nat /\ made \in Nat /\ miscounted \in Nat
           /\ curchunks \in Int
           /\ \A t \in Threads : Chunks!InHand(steps[t]) \subseteq HandsOf(steps)
                /\ HandsOf(steps) \subseteq mapped
           /\ Disjoint(base, leaked, Chunks!Spans(extents), Chunks!Spans(huge), HandsOf(steps))
           /\ Chunks!Spans(extents) \subseteq mapped /\ Chunks!Spans(huge) \subseteq mapped
           /\ Chunks!Apart(extents) /\ Chunks!Apart(huge)
<1>1. \A t \in Threads : Chunks!InHand(steps[t]) \subseteq HandsOf(steps)
  BY DEF HandsOf, AllOf, Here
<1>2. /\ Disjoint(base, leaked, Chunks!Spans(extents), Chunks!Spans(huge), HandsOf(steps))
      /\ Chunks!Spans(extents) \subseteq mapped /\ Chunks!Spans(huge) \subseteq mapped
      /\ HandsOf(steps) \subseteq mapped /\ Chunks!Apart(extents) /\ Chunks!Apart(huge)
  BY DEF ChunksInv, Parted
<1>3. ChunksTyped
  BY DEF ChunksInv
<1>4. Cardinality(extents) \in Nat /\ Cardinality(huge) \in Nat
  BY <1>3, FS_CardinalityType DEF ChunksTyped
<1> QED BY <1>1, <1>2, <1>3, <1>4 DEF ChunksTyped

LEMMA InsertKeeps ==
    ASSUME ChunksInv, NEW t \in Threads, Chunks!Insert(t)
    PROVE  ChunksInv'
<1> DEFINE w == steps[t]
           h == [addr |-> w.addr, size |-> w.size]
           v == Chunks!Idle
<1>1. /\ w.pc = "insert" /\ steps' = [steps EXCEPT ![t] = v]
      /\ huge' = huge \union {h} /\ dirty' = dirty \union Chunks!Span(h)
      /\ UNCHANGED <<extents, base, room, spare, mapped, curchunks, made, leaked, miscounted>>
  BY DEF Chunks!Insert, Chunks!At, Chunks!Goto
<1>2. w \in Chunks!Work /\ Shaped(w)
  BY TheStep
<1>3. w.size \in ChunkSizes /\ w.size \in Nat \ {0} /\ w.addr \in Nat /\ w.next = "none" /\ ~w.have
  BY <1>1, <1>2, PartsAssumption DEF Shaped, Chunks!Work, PartsAssumption
<1>4. /\ Shaped(v) /\ Chunks!InHand(v) = {} /\ Chunks!CountedInHand(v) = {} /\ Chunks!NodesInHand(v) = 0
      /\ CleanHand(v, dirty')
  BY IdleIs
<1>5. h \in [addr : Nat, size : ChunkSizes] /\ Chunks!Span(h) = Chunks!Span(w)
        /\ w.addr \in Chunks!Span(w)
  BY <1>3 DEF Chunks!Span
<1> HIDE DEF v, w, h
<1>6. /\ Chunks!InHand(w) = Chunks!Span(w) /\ Chunks!CountedInHand(w) = Chunks!Span(w)
      /\ Chunks!NodesInHand(w) = 1
  BY <1>1, <1>3 DEF Chunks!InHand, Chunks!CountedInHand, Chunks!NodesInHand, Chunks!One
<1>7. Chunks!InHand(w) \subseteq HandsOf(steps) /\ HandsOf(steps) \subseteq mapped
        /\ Chunks!Spans(huge) \cap HandsOf(steps) = {}
  BY TheState DEF w, Disjoint
<1>8. Transfer(t, v, {}, {}, {}, {h}, {}, {}, {})
  BY <1>1, <1>4, <1>5, <1>6, NoBlocks DEF Transfer, Disjoint, w
<1>9. Parted'
  BY <1>8, BlocksStep
<1>10. h \notin huge
  BY <1>5, <1>6, <1>7 DEF Chunks!Spans
<1>11. IsFiniteSet(huge') /\ Cardinality(huge') = Cardinality(huge) + 1
  BY <1>1, <1>10, TheState, FS_AddElement
<1>12. /\ extents' \subseteq [addr : Nat, size : Nat \ {0}, zeroed : BOOLEAN] /\ IsFiniteSet(extents')
       /\ huge' \subseteq [addr : Nat, size : ChunkSizes]
       /\ mapped' \union dirty' \subseteq 0 .. Space - 1
       /\ room' \in 0 .. BaseNodes - 1 /\ spare' \in Nat /\ made' \in Nat /\ miscounted' \in Nat
       /\ curchunks' \in Int
       /\ dirty' \subseteq dirty \union Chunks!InHand(w) /\ extents' \ extents = {}
  BY <1>1, <1>5, <1>6, <1>7, TheState
<1>13. Cardinality(extents') + Cardinality(huge') + spare' + Chunks!NodesInHand(v) - made'
         = Cardinality(extents) + Cardinality(huge) + spare + Chunks!NodesInHand(w) - made
  <2>1. /\ Cardinality(extents) \in Nat /\ Cardinality(huge) \in Nat /\ spare \in Nat /\ made \in Nat
    BY TheState
  <2>2. extents' = extents /\ spare' = spare /\ made' = made
    BY <1>1
  <2> QED BY ONLY <1>4, <1>6, <1>11, <2>1, <2>2
<1>14. Weight(base', huge', v) = Weight(base, huge, w)
  <2>1. Chunks!Spans(huge') = Chunks!Spans(huge) \union Chunks!Span(h)
    BY <1>1 DEF Chunks!Spans
  <2> QED BY <1>1, <1>4, <1>5, <1>6, <2>1 DEF Weight
<1>15. curchunks' + miscounted' - (curchunks + miscounted)
         = Cardinality(Weight(base', huge', v)) - Cardinality(Weight(base, huge, w))
  <2>1. /\ curchunks \in Int /\ miscounted \in Nat /\ curchunks' = curchunks /\ miscounted' = miscounted
    BY <1>1, TheState
  <2>2. Cardinality(Weight(base, huge, w)) \in Nat
    BY TheStep DEF w
  <2> QED BY ONLY <1>14, <2>1, <2>2
<1> QED BY <1>1, <1>4, <1>9, <1>11, <1>12, <1>13, <1>15, ChunksStep DEF w

LEMMA HugeDallocKeeps ==
    ASSUME ChunksInv, NEW t \in Threads, NEW h \in huge, Chunks!HugeDalloc(t, h)
    PROVE  ChunksInv'
<1> DEFINE w == steps[t]
           v == [Chunks!Doing("dealloc", h.size, h.addr) EXCEPT !.back = "idle"]
<1>1. /\ w.pc = "idle" /\ steps' = [steps EXCEPT ![t] = v] /\ huge' = huge \ {h}
      /\ UNCHANGED <<extents, base, room, spare, mapped, dirty, curchunks, made, leaked, miscounted>>
  BY DEF Chunks!HugeDalloc, Chunks!At, Chunks!Goto
<1>2. w \in Chunks!Work /\ Shaped(w)
  BY TheStep
<1>3. w.next = "none"
  BY <1>1, <1>2 DEF Shaped
<1>4. h.size \in ChunkSizes /\ h.size \in Nat /\ h.addr \in Nat
  BY TheState, PartsAssumption DEF PartsAssumption
<1>5. Block(v, "dealloc", h.size, h.addr)
  BY <1>4, DoingIs
<1> HIDE DEF v, w
<1>6. /\ Shaped(v) /\ Chunks!Span(v) = h.addr .. h.addr + h.size - 1
      /\ Chunks!InHand(v) = Chunks!Span(v) /\ Chunks!NodesInHand(v) = 1
      /\ Chunks!CountedInHand(v) = Chunks!Span(v) /\ CleanHand(v, dirty')
  BY <1>4, <1>5, BlockIs
<1>7. /\ Chunks!InHand(w) = {} /\ Chunks!CountedInHand(w) = {} /\ Chunks!NodesInHand(w) = 0
  BY <1>1, <1>3 DEF Chunks!InHand, Chunks!CountedInHand, Chunks!NodesInHand
<1>8. Chunks!Span(h) = Chunks!Span(v)
  BY <1>6 DEF Chunks!Span
<1>9. Transfer(t, v, {}, {}, {h}, {}, {}, {}, {})
  BY <1>1, <1>6, <1>7, <1>8, NoBlocks DEF Transfer, Disjoint, w
<1>10. Parted'
  BY <1>9, BlocksStep
<1>11. IsFiniteSet(huge') /\ Cardinality(huge') = Cardinality(huge) - 1
  BY <1>1, TheState, FS_RemoveElement
<1>12. /\ extents' \subseteq [addr : Nat, size : Nat \ {0}, zeroed : BOOLEAN] /\ IsFiniteSet(extents')
       /\ huge' \subseteq [addr : Nat, size : ChunkSizes]
       /\ mapped' \union dirty' \subseteq 0 .. Space - 1
       /\ room' \in 0 .. BaseNodes - 1 /\ spare' \in Nat /\ made' \in Nat /\ miscounted' \in Nat
       /\ curchunks' \in Int
       /\ dirty' \subseteq dirty \union Chunks!InHand(w) /\ extents' \ extents = {}
  BY <1>1, TheState
<1>13. Cardinality(extents') + Cardinality(huge') + spare' + Chunks!NodesInHand(v) - made'
         = Cardinality(extents) + Cardinality(huge) + spare + Chunks!NodesInHand(w) - made
  <2>1. /\ Cardinality(extents) \in Nat /\ Cardinality(huge) \in Nat /\ spare \in Nat /\ made \in Nat
    BY TheState
  <2>2. extents' = extents /\ spare' = spare /\ made' = made
    BY <1>1
  <2> QED BY ONLY <1>6, <1>7, <1>11, <2>1, <2>2
<1>14. Weight(base', huge', v) = Weight(base, huge, w)
  <2>1. Chunks!Spans(huge) = Chunks!Spans(huge') \union Chunks!Span(h)
    BY <1>1 DEF Chunks!Spans
  <2> QED BY <1>1, <1>6, <1>7, <1>8, <2>1 DEF Weight
<1>15. curchunks' + miscounted' - (curchunks + miscounted)
         = Cardinality(Weight(base', huge', v)) - Cardinality(Weight(base, huge, w))
  <2>1. /\ curchunks \in Int /\ miscounted \in Nat /\ curchunks' = curchunks /\ miscounted' = miscounted
    BY <1>1, TheState
  <2>2. Cardinality(Weight(base, huge, w)) \in Nat
    BY TheStep DEF w
  <2> QED BY ONLY <1>14, <2>1, <2>2
<1> QED BY <1>1, <1>6, <1>10, <1>11, <1>12, <1>13, <1>15, ChunksStep DEF w

\* The numbers in a step that leaves what is counted as it was.
LEMMA SameCount ==
    ASSUME ChunksInv, NEW t \in Threads, NEW v,
           Chunks!CountedInHand(v) = Chunks!CountedInHand(steps[t]),
           UNCHANGED <<base, huge, curchunks, miscounted>>
    PROVE  curchunks' + miscounted' - (curchunks + miscounted)
             = Cardinality(Weight(base', huge', v)) - Cardinality(Weight(base, huge, steps[t]))
<1>1. Cardinality(Weight(base', huge', v)) - Cardinality(Weight(base, huge, steps[t])) = 0
  BY SameWeight
<1>2. curchunks \in Int /\ miscounted \in Nat /\ curchunks' = curchunks /\ miscounted' = miscounted
  BY TheState
<1>3. curchunks' + miscounted' - (curchunks + miscounted) = 0
  BY ONLY <1>2
<1> QED BY <1>1, <1>3

LEMMA TrailKeeps ==
    ASSUME ChunksInv, NEW t \in Threads, Chunks!Trail(t)
    PROVE  ChunksInv'
<1> DEFINE w == steps[t]
           v == Chunks!Doing("count", w.size, w.addr)
           z == [w EXCEPT !.pc = "dealloc", !.next = "none", !.back = "mmap", !.trail = Chunks!Idle.trail]
<1>1. /\ w.pc = "trail" /\ UNCHANGED <<huge, base, room, spare, mapped, dirty, curchunks, made>>
      /\ \/ /\ w.have /\ extents' = extents \union {w.trail} /\ steps' = [steps EXCEPT ![t] = v]
            /\ UNCHANGED <<leaked, miscounted>>
         \/ /\ ~w.have /\ leaked' = leaked \union Chunks!Span(w.trail)
            /\ miscounted' = miscounted + w.size
            /\ steps' = [steps EXCEPT ![t] = z] /\ UNCHANGED extents
  BY DEF Chunks!Trail, Chunks!At, Chunks!Goto
<1>2. w \in Chunks!Work /\ Shaped(w) /\ CleanHand(w, dirty)
  BY TheStep
<1>3. w.size \in ChunkSizes /\ w.size \in Nat \ {0} /\ w.addr \in Nat /\ w.next = "trail"
        /\ w.have \in BOOLEAN
  BY <1>1, <1>2, PartsAssumption DEF Shaped, Chunks!Work, PartsAssumption
<1>4. /\ w.trail \in [addr : Nat, size : Nat, zeroed : BOOLEAN] /\ w.trail.addr = w.addr + w.size
      /\ w.trail.size > 0
  BY <1>2, <1>3 DEF Shaped, Chunks!Work
<1>5. Block(v, "count", w.size, w.addr)
  BY <1>3, DoingIs
<1>6. ~w.have => Block(z, "dealloc", w.size, w.addr)
  <2>1. Chunks!Idle.trail \in [addr : Nat, size : Nat, zeroed : BOOLEAN]
    BY DEF Chunks!Idle, Chunks!Extent
  <2>2. w \in Chunks!Work
    BY <1>2
  <2> HIDE DEF w
  <2> QED BY <1>3, <2>1, <2>2 DEF Block, Chunks!Work
<1> HIDE DEF v, w, z
<1>7. /\ Shaped(v) /\ Chunks!Span(v) = w.addr .. w.addr + w.size - 1
      /\ Chunks!InHand(v) = Chunks!Span(v) /\ Chunks!NodesInHand(v) = 1
      /\ Chunks!CountedInHand(v) = {} /\ CleanHand(v, dirty')
  BY <1>3, <1>5, BlockIs
<1>8. /\ Chunks!Span(w) = Chunks!Span(v)
      /\ Chunks!InHand(w) = Chunks!Span(w) \union Chunks!Span(w.trail)
      /\ Chunks!CountedInHand(w) = {} /\ Chunks!NodesInHand(w) = 1 + (IF w.have THEN 1 ELSE 0)
      /\ Chunks!Span(w) \cap Chunks!Span(w.trail) = {} /\ w.trail.addr \in Chunks!Span(w.trail)
  <2>1. Chunks!Span(w) = w.addr .. w.addr + w.size - 1
    BY DEF Chunks!Span
  <2>2. Chunks!Span(w.trail) = w.trail.addr .. w.trail.addr + w.trail.size - 1
    BY DEF Chunks!Span
  <2>3. Chunks!Span(w) \cap Chunks!Span(w.trail) = {} /\ w.trail.addr \in Chunks!Span(w.trail)
    BY <1>3, <1>4, <2>1, <2>2
  <2>4. Chunks!InHand(w) = Chunks!Span(w) \union Chunks!Span(w.trail) /\ Chunks!CountedInHand(w) = {}
    BY <1>1, <1>3 DEF Chunks!InHand, Chunks!CountedInHand
  <2>5. Chunks!NodesInHand(w) = 1 + (IF w.have THEN 1 ELSE 0)
    BY <1>1, <1>3 DEF Chunks!NodesInHand, Chunks!One
  <2> QED BY <1>7, <2>1, <2>3, <2>4, <2>5
<1>9. /\ huge' \subseteq [addr : Nat, size : ChunkSizes] /\ IsFiniteSet(huge')
      /\ mapped' \union dirty' \subseteq 0 .. Space - 1
      /\ room' \in 0 .. BaseNodes - 1 /\ spare' \in Nat /\ made' \in Nat /\ curchunks' \in Int
      /\ miscounted \in Nat
      /\ dirty' \subseteq dirty \union Chunks!InHand(w)
  BY <1>1, TheState
<1>10. /\ Cardinality(extents) \in Nat /\ Cardinality(huge) \in Nat /\ spare \in Nat /\ made \in Nat
       /\ huge' = huge /\ spare' = spare /\ made' = made /\ curchunks \in Int /\ curchunks' = curchunks
  BY <1>1, TheState
<1>11. CASE /\ w.have /\ extents' = extents \union {w.trail} /\ steps' = [steps EXCEPT ![t] = v]
            /\ UNCHANGED <<leaked, miscounted>>
  <2>1. Transfer(t, v, {}, {w.trail}, {}, {}, {}, {}, {})
    <3>1. /\ Chunks!Spans({w.trail}) = Chunks!Span(w.trail) /\ Chunks!Apart({w.trail})
          /\ Chunks!Spans({}) = {} /\ Chunks!Apart({})
      BY NoBlocks
    <3>2. Chunks!InHand(steps[t]) = Chunks!Span(w) \union Chunks!Span(w.trail)
      BY <1>8 DEF w
    <3>3. /\ Disjoint({}, {}, Chunks!Spans({w.trail}), Chunks!Spans({}), Chunks!InHand(v))
          /\ {} \union {} \union Chunks!Spans({w.trail}) \union Chunks!Spans({}) \union Chunks!InHand(v)
               = Chunks!Spans({}) \union Chunks!Spans({}) \union Chunks!InHand(steps[t]) \union {}
      BY <1>7, <1>8, <3>1, <3>2 DEF Disjoint
    <3>4. /\ {} \subseteq extents /\ {} \subseteq huge /\ {} \intersect mapped = {}
          /\ extents' = (extents \ {}) \union {w.trail} /\ huge' = (huge \ {}) \union {}
          /\ base' = base \union {} /\ leaked' = leaked \union {} /\ mapped' = mapped \union {}
      BY <1>1, <1>11
    <3> QED BY <1>11, <3>1, <3>3, <3>4 DEF Transfer
  <2>2. Parted'
    BY <2>1, BlocksStep
  <2>3. w.trail \notin extents
    <3>1. Chunks!InHand(w) \subseteq HandsOf(steps) /\ Chunks!Spans(extents) \cap HandsOf(steps) = {}
      BY TheState DEF w, Disjoint
    <3> QED BY <1>8, <3>1 DEF Chunks!Spans
  <2>4. IsFiniteSet(extents') /\ Cardinality(extents') = Cardinality(extents) + 1
    BY <1>11, <2>3, TheState, FS_AddElement
  <2>5. extents' \subseteq [addr : Nat, size : Nat \ {0}, zeroed : BOOLEAN]
    BY <1>4, <1>11, TheState
  <2>6. \A e \in extents' \ extents : e.zeroed => Chunks!Span(e) \cap dirty' = {}
    BY <1>1, <1>2, <1>3, <1>11 DEF CleanHand
  <2>7. Cardinality(extents') + Cardinality(huge') + spare' + Chunks!NodesInHand(v) - made'
          = Cardinality(extents) + Cardinality(huge) + spare + Chunks!NodesInHand(w) - made
    BY ONLY <1>7, <1>8, <1>10, <1>11, <2>4
  <2>8. curchunks' + miscounted' - (curchunks + miscounted)
          = Cardinality(Weight(base', huge', v)) - Cardinality(Weight(base, huge, w))
    BY <1>1, <1>7, <1>8, <1>11, SameCount DEF w
  <2>9. miscounted' \in Nat
    BY <1>9, <1>11
  <2> QED BY <1>7, <1>9, <1>11, <2>2, <2>4, <2>5, <2>6, <2>7, <2>8, <2>9, ChunksStep DEF w
<1>12. CASE /\ ~w.have /\ leaked' = leaked \union Chunks!Span(w.trail)
         /\ miscounted' = miscounted + w.size
            /\ steps' = [steps EXCEPT ![t] = z] /\ UNCHANGED extents
  <2>1. /\ Shaped(z) /\ Chunks!Span(z) = Chunks!Span(w) /\ Chunks!InHand(z) = Chunks!Span(w)
        /\ Chunks!NodesInHand(z) = 1 /\ Chunks!CountedInHand(z) = Chunks!Span(w) /\ CleanHand(z, dirty')
    BY <1>3, <1>6, <1>7, <1>8, <1>12, BlockIs
  <2>2. Transfer(t, z, {}, {}, {}, {}, {}, Chunks!Span(w.trail), {})
    BY <1>1, <1>8, <1>12, <2>1, NoBlocks DEF Transfer, Disjoint, w
  <2>3. Parted'
    BY <2>2, BlocksStep
  <2>4. /\ extents' \subseteq [addr : Nat, size : Nat \ {0}, zeroed : BOOLEAN] /\ IsFiniteSet(extents')
        /\ extents' \ extents = {} /\ extents' = extents
    BY <1>12, TheState
  <2>5. Cardinality(extents') + Cardinality(huge') + spare' + Chunks!NodesInHand(z) - made'
          = Cardinality(extents) + Cardinality(huge) + spare + Chunks!NodesInHand(w) - made
    BY ONLY <1>8, <1>10, <1>12, <2>1, <2>4
  <2>6. /\ Cardinality(Weight(base, huge, z)) = Cardinality(Weight(base, huge, w)) + w.size
        /\ Cardinality(Weight(base, huge, w)) \in Nat
    <3>1. w.addr \in Nat /\ w.size \in Nat /\ Chunks!Span(w) \subseteq Chunks!InHand(w)
      BY <1>3, <1>8
    <3> QED BY <1>8, <2>1, <3>1, CountsIn DEF w
  <2>7. miscounted' \in Nat /\ miscounted' = miscounted + w.size
    BY <1>3, <1>9, <1>12
  <2>8. curchunks' + miscounted' - (curchunks + miscounted)
          = Cardinality(Weight(base, huge, z)) - Cardinality(Weight(base, huge, w))
    BY ONLY <1>3, <1>9, <1>10, <2>6, <2>7
  <2>9. base' = base /\ huge' = huge
    BY <1>1
  <2> QED BY <1>9, <1>12, <2>1, <2>3, <2>4, <2>5, <2>7, <2>8, <2>9, ChunksStep DEF w
<1> QED BY <1>1, <1>11, <1>12

LEMMA MmapKeeps ==
    ASSUME ChunksInv, NEW t \in Threads, Chunks!Mmap(t)
    PROVE  ChunksInv'
<1> DEFINE w == steps[t]
<1>1. /\ w.pc = "mmap"
      /\ UNCHANGED <<extents, huge, base, room, dirty, curchunks, made, leaked, miscounted>>
      /\ \/ \E a \in {b \in 0 .. Space - w.size : b % w.alignment = 0
                        /\ Chunks!Span(Chunks!Doing("count", w.size, b)) \cap mapped = {}} :
               /\ mapped' = mapped \union Chunks!Span(Chunks!Doing("count", w.size, a))
               /\ steps' = [steps EXCEPT ![t] = Chunks!Doing("count", w.size, a)] /\ UNCHANGED spare
         \/ spare' = spare + 1 /\ steps' = [steps EXCEPT ![t] = Chunks!Idle] /\ UNCHANGED mapped
  BY DEF Chunks!Mmap, Chunks!At, Chunks!Goto
<1>2. w \in Chunks!Work /\ Shaped(w)
  BY TheStep
<1>3. w.size \in ChunkSizes /\ w.size \in Nat \ {0} /\ w.next = "none" /\ ~w.have
  BY <1>1, <1>2, PartsAssumption DEF Shaped, Chunks!Work, PartsAssumption
<1> HIDE DEF w
<1>4. Chunks!InHand(w) = {} /\ Chunks!CountedInHand(w) = {} /\ Chunks!NodesInHand(w) = 1
  BY <1>1, <1>3 DEF Chunks!InHand, Chunks!CountedInHand, Chunks!NodesInHand, Chunks!One
<1>5. CASE \E a \in {b \in 0 .. Space - w.size : b % w.alignment = 0
                       /\ Chunks!Span(Chunks!Doing("count", w.size, b)) \cap mapped = {}} :
             /\ mapped' = mapped \union Chunks!Span(Chunks!Doing("count", w.size, a))
             /\ steps' = [steps EXCEPT ![t] = Chunks!Doing("count", w.size, a)] /\ UNCHANGED spare
  <2>1. PICK a \in 0 .. Space - w.size :
          /\ Chunks!Span(Chunks!Doing("count", w.size, a)) \cap mapped = {}
          /\ mapped' = mapped \union Chunks!Span(Chunks!Doing("count", w.size, a))
          /\ steps' = [steps EXCEPT ![t] = Chunks!Doing("count", w.size, a)] /\ UNCHANGED spare
    BY <1>5
  <2> DEFINE v == Chunks!Doing("count", w.size, a)
  <2>2. Block(v, "count", w.size, a)
    <3>1. a \in Nat
      BY <2>1
    <3> QED BY <1>3, <3>1, DoingIs
  <2>3. Chunks!Span(v) \cap mapped = {} /\ mapped' = mapped \union Chunks!Span(v)
          /\ steps' = [steps EXCEPT ![t] = v]
    BY <2>1
  <2> HIDE DEF v
  <2>4. /\ Shaped(v) /\ Chunks!Span(v) = a .. a + w.size - 1
        /\ Chunks!InHand(v) = Chunks!Span(v) /\ Chunks!NodesInHand(v) = 1
        /\ Chunks!CountedInHand(v) = {} /\ CleanHand(v, dirty')
    BY <1>3, <2>2, BlockIs
  <2>5. Transfer(t, v, {}, {}, {}, {}, {}, {}, Chunks!Span(v))
    BY <1>1, <1>4, <2>3, <2>4, NoBlocks DEF Transfer, Disjoint, w
  <2>6. Parted'
    BY <2>5, BlocksStep
  <2>7. a .. a + w.size - 1 \subseteq 0 .. Space - 1
    BY <1>3, PartsAssumption DEF PartsAssumption
  <2>8. /\ extents' \subseteq [addr : Nat, size : Nat \ {0}, zeroed : BOOLEAN] /\ IsFiniteSet(extents')
        /\ huge' \subseteq [addr : Nat, size : ChunkSizes] /\ IsFiniteSet(huge')
        /\ mapped' \union dirty' \subseteq 0 .. Space - 1
        /\ room' \in 0 .. BaseNodes - 1 /\ spare' \in Nat /\ made' \in Nat /\ curchunks' \in Int
        /\ miscounted' \in Nat
        /\ dirty' \subseteq dirty \union Chunks!InHand(w) /\ extents' \ extents = {}
    BY <1>1, <2>1, <2>3, <2>4, <2>7, TheState
  <2>9. Cardinality(extents') + Cardinality(huge') + spare' + Chunks!NodesInHand(v) - made'
          = Cardinality(extents) + Cardinality(huge) + spare + Chunks!NodesInHand(w) - made
    BY <1>1, <1>4, <2>1, <2>4
  <2>10. curchunks' + miscounted' - (curchunks + miscounted)
           = Cardinality(Weight(base', huge', v)) - Cardinality(Weight(base, huge, w))
    BY <1>1, <1>4, <2>4, SameCount DEF w
  <2> QED BY <2>3, <2>4, <2>6, <2>8, <2>9, <2>10, ChunksStep DEF w
<1>6. CASE spare' = spare + 1 /\ steps' = [steps EXCEPT ![t] = Chunks!Idle] /\ UNCHANGED mapped
  <2> DEFINE v == Chunks!Idle
  <2>1. /\ Shaped(v) /\ Chunks!InHand(v) = {} /\ Chunks!CountedInHand(v) = {}
        /\ Chunks!NodesInHand(v) = 0
        /\ CleanHand(v, dirty')
    BY IdleIs
  <2> HIDE DEF v
  <2>2. room' \in 0 .. BaseNodes - 1 /\ spare \in Nat /\ made \in Nat /\ made' = made
          /\ curchunks \in Int /\ curchunks' = curchunks
    BY <1>1, TheState
  <2>3. spare' + Chunks!NodesInHand(v) - made' = spare + Chunks!NodesInHand(w) - made /\ spare' \in Nat
          /\ made' \in Nat
    BY ONLY <1>4, <1>6, <2>1, <2>2
  <2>4. Cardinality(Weight(base, huge, v)) - Cardinality(Weight(base, huge, w)) = 0
    BY <1>4, <2>1, SameWeight DEF w
  <2>5. curchunks' - curchunks = Cardinality(Weight(base, huge, v)) - Cardinality(Weight(base, huge, w))
          /\ curchunks' \in Int
    BY <2>2, <2>4
  <2>6. steps' = [steps EXCEPT ![t] = v]
          /\ UNCHANGED <<extents, huge, base, mapped, leaked, miscounted>> /\ dirty' \subseteq dirty
    BY <1>1, <1>6 DEF v
  <2> QED BY <1>4, <2>1, <2>2, <2>3, <2>5, <2>6, QuietStep DEF w
<1> QED BY <1>1, <1>5, <1>6

\* extent_tree_szad_nsearch finds an extent when there is one.
LEMMA BestFitIs ==
    ASSUME NEW es, IsFiniteSet(es), es # {}, \A e \in es : e.addr \in Nat /\ e.size \in Nat
    PROVE  Chunks!BestFit(es) \in es
<1> DEFINE R == {p \in es \X es : p[1].size < p[2].size \/ (p[1].size = p[2].size /\ p[1].addr <= p[2].addr)}
<1>1. \A x, y \in es : <<x, y>> \in R <=> (x.size < y.size \/ (x.size = y.size /\ x.addr <= y.addr))
  OBVIOUS
<1> HIDE DEF R
<1>2. ASSUME NEW x \in es, NEW y \in es
      PROVE  <<x, y>> \in R \/ <<y, x>> \in R
  <2>1. x.addr \in Nat /\ x.size \in Nat /\ y.addr \in Nat /\ y.size \in Nat
    OBVIOUS
  <2>2. x.size < y.size \/ (x.size = y.size /\ x.addr <= y.addr) \/ y.size < x.size \/ (y.size = x.size /\ y.addr <= x.addr)
    BY ONLY <2>1
  <2> QED BY <1>1, <2>2
<1>3. \A x, y, z \in es : <<x, y>> \in R /\ <<y, z>> \in R => <<x, z>> \in R
  BY <1>1
<1>4. \E m \in es : \A x \in es : <<m, x>> \in R
  BY <1>2, <1>3, FiniteLeast
<1>5. \E m \in es : \A x \in es : m.size < x.size \/ (m.size = x.size /\ m.addr <= x.addr)
  BY <1>1, <1>4
<1> QED BY <1>5 DEF Chunks!BestFit

LEMMA Ceiling ==
    ASSUME NEW a \in Nat, NEW al \in Nat \ {0}
    PROVE  /\ Chunks!AlignmentCeiling(a, al) \in Nat
           /\ Chunks!AlignmentCeiling(a, al) >= a /\ Chunks!AlignmentCeiling(a, al) <= a + al - 1
<1> DEFINE b == a + al - 1
           c == al * (b \div al)
           r == b % al
<1>1. b \in Nat
  OBVIOUS
<1>2. b = al * (b \div al) + (b % al) /\ b % al \in 0 .. al - 1 /\ b \div al \in Int
  <2> HIDE DEF b
  <2> QED BY <1>1, DivMod
<1>3. c \in Int
  <2> HIDE DEF b
  <2> QED BY <1>2
<1>4. b = c + r /\ r \in 0 .. al - 1
  BY <1>2
<1>5. Chunks!AlignmentCeiling(a, al) = c
  BY DEF Chunks!AlignmentCeiling
<1> HIDE DEF c, r
<1>6. c >= a /\ c <= a + al - 1
  BY <1>3, <1>4
<1> QED BY <1>3, <1>5, <1>6

\* What chunk_recycle cuts an extent into.
Cuts(e, size, al, addr, lead, trail) ==
    /\ e.size >= size + al - 1 /\ addr = Chunks!AlignmentCeiling(e.addr, al)
    /\ lead = Chunks!Extent(e.addr, addr - e.addr, e.zeroed)
    /\ trail = Chunks!Extent(addr + size, Chunks!End(e) - addr - size, e.zeroed)

CutInto(e, size, addr, lead, trail) ==
    /\ addr \in Nat
    /\ {lead, trail} \subseteq [addr : Nat, size : Nat, zeroed : BOOLEAN]
    /\ lead.zeroed = e.zeroed /\ trail.zeroed = e.zeroed /\ trail.addr = addr + size
    /\ Chunks!Span(lead) \union (addr .. addr + size - 1) \union Chunks!Span(trail) = Chunks!Span(e)
    /\ Chunks!Span(lead) \cap (addr .. addr + size - 1) = {}
    /\ Chunks!Span(lead) \cap Chunks!Span(trail) = {}
    /\ Chunks!Span(trail) \cap (addr .. addr + size - 1) = {}
    /\ lead.size = 0 => Chunks!Span(lead) = {}
    /\ trail.size = 0 => Chunks!Span(trail) = {}

LEMMA Cut ==
    ASSUME NEW e \in [addr : Nat, size : Nat \ {0}, zeroed : BOOLEAN], NEW size \in Nat \ {0},
           NEW al \in Nat \ {0},
           NEW addr, NEW lead, NEW trail, Cuts(e, size, al, addr, lead, trail)
    PROVE  CutInto(e, size, addr, lead, trail)
<1> USE DEF Cuts
<1> DEFINE a == e.addr
           n == e.size
<1>1. a \in Nat /\ n \in Nat /\ e.zeroed \in BOOLEAN /\ n >= size + al - 1 /\ Chunks!End(e) = a + n
  BY DEF Chunks!End
<1>2. Chunks!Span(e) = a .. a + n - 1
  BY DEF Chunks!Span
<1>3. addr \in Nat /\ addr >= a /\ addr <= a + al - 1
  BY <1>1, Ceiling
<1>4. lead = [addr |-> a, size |-> addr - a, zeroed |-> e.zeroed]
  BY DEF Chunks!Extent
<1>5. trail = [addr |-> addr + size, size |-> a + n - addr - size, zeroed |-> e.zeroed]
  <2>1. trail = [addr |-> addr + size, size |-> Chunks!End(e) - addr - size, zeroed |-> e.zeroed]
    BY DEF Chunks!Extent
  <2> HIDE DEF a, n
  <2>2. Chunks!End(e) = a + n
    BY <1>1
  <2> DEFINE k == Chunks!End(e) - addr - size
             m == a + n - addr - size
  <2>3. k = m
    BY ONLY <1>1, <1>3, <2>2
  <2>4. trail = [addr |-> addr + size, size |-> k, zeroed |-> e.zeroed]
    BY <2>1
  <2>5. trail = [addr |-> addr + size, size |-> m, zeroed |-> e.zeroed]
    <3> HIDE DEF k, m
    <3> QED BY <2>3, <2>4
  <2> QED BY <2>5
<1> HIDE DEF a, n
<1>6. addr - a \in Nat /\ a + n - addr - size \in Nat /\ addr + size \in Nat
  BY <1>1, <1>3
<1>7. {lead, trail} \subseteq [addr : Nat, size : Nat, zeroed : BOOLEAN]
  BY <1>1, <1>3, <1>4, <1>5, <1>6
<1>8. Chunks!Span(lead) = a .. addr - 1
  <2>1. Chunks!Span(lead) = a .. a + (addr - a) - 1
    BY <1>4 DEF Chunks!Span
  <2>2. a + (addr - a) - 1 = addr - 1
    BY <1>1, <1>3
  <2> QED BY <2>1, <2>2
<1>9. Chunks!Span(trail) = addr + size .. a + n - 1
  <2>1. Chunks!Span(trail) = addr + size .. (addr + size) + (a + n - addr - size) - 1
    BY <1>5 DEF Chunks!Span
  <2>2. (addr + size) + (a + n - addr - size) - 1 = a + n - 1
    BY <1>1, <1>3
  <2> QED BY <2>1, <2>2
<1>10. /\ (a .. addr - 1) \union (addr .. addr + size - 1) \union (addr + size .. a + n - 1) = a .. a + n - 1
       /\ (a .. addr - 1) \cap (addr .. addr + size - 1) = {}
       /\ (a .. addr - 1) \cap (addr + size .. a + n - 1) = {}
       /\ (addr + size .. a + n - 1) \cap (addr .. addr + size - 1) = {}
  BY <1>1, <1>3, <1>6
<1>11. lead.size = 0 => Chunks!Span(lead) = {}
  <2>1. lead.size = addr - a
    BY <1>4
  <2>2. addr - a = 0 => a .. addr - 1 = {}
    BY <1>1, <1>3
  <2> QED BY <1>8, <2>1, <2>2
<1>12. trail.size = 0 => Chunks!Span(trail) = {}
  <2>1. trail.size = a + n - addr - size
    BY <1>5
  <2>2. a + n - addr - size = 0 => addr + size .. a + n - 1 = {}
    BY <1>1, <1>3
  <2> QED BY <1>9, <2>1, <2>2
<1>13. lead.zeroed = e.zeroed /\ trail.zeroed = e.zeroed /\ trail.addr = addr + size
  BY <1>4, <1>5
<1> QED BY <1>2, <1>3, <1>7, <1>8, <1>9, <1>10, <1>11, <1>12, <1>13 DEF CutInto

\* A thread takes a piece of an extent; at most one extent is left of it.
LEMMA Recycled ==
    ASSUME ChunksInv, NEW t \in Threads, NEW v, steps' = [steps EXCEPT ![t] = v], Shaped(v),
           CleanHand(v, dirty),
           Chunks!CountedInHand(v) = {}, Chunks!CountedInHand(steps[t]) = {},
           Chunks!InHand(steps[t]) = {},
           Chunks!NodesInHand(v) = 1, Chunks!NodesInHand(steps[t]) = 1,
           NEW e \in extents, NEW new, extents' = (extents \ {e}) \union new,
           new = {} \/ \E y \in [addr : Nat, size : Nat \ {0}, zeroed : BOOLEAN] : new = {y}
             /\ y.zeroed = e.zeroed,
           Chunks!Spans(new) \cap Chunks!InHand(v) = {},
           Chunks!Spans(new) \union Chunks!InHand(v) = Chunks!Span(e),
           spare' = spare + (IF new = {} THEN 1 ELSE 0),
           UNCHANGED <<huge, base, room, mapped, dirty, curchunks, made, leaked, miscounted>>
    PROVE  ChunksInv'
<1>1. Chunks!Apart(new)
  BY NoBlocks
<1>2. Transfer(t, v, {e}, new, {}, {}, {}, {}, {})
  <2>1. Chunks!Spans({e}) = Chunks!Span(e) /\ Chunks!Spans({}) = {} /\ Chunks!Apart({})
    BY NoBlocks
  <2>2. /\ Disjoint({}, {}, Chunks!Spans(new), Chunks!Spans({}), Chunks!InHand(v))
        /\ {} \union {} \union Chunks!Spans(new) \union Chunks!Spans({}) \union Chunks!InHand(v)
             = Chunks!Spans({e}) \union Chunks!Spans({}) \union Chunks!InHand(steps[t]) \union {}
    BY <2>1 DEF Disjoint
  <2>3. /\ {e} \subseteq extents /\ {} \subseteq huge /\ {} \intersect mapped = {}
        /\ huge' = (huge \ {}) \union {}
        /\ base' = base \union {} /\ leaked' = leaked \union {} /\ mapped' = mapped \union {}
    OBVIOUS
  <2> QED BY <1>1, <2>1, <2>2, <2>3 DEF Transfer
<1>3. Parted'
  BY <1>2, BlocksStep
<1>4. /\ huge' \subseteq [addr : Nat, size : ChunkSizes] /\ IsFiniteSet(huge')
      /\ mapped' \union dirty' \subseteq 0 .. Space - 1
      /\ room' \in 0 .. BaseNodes - 1 /\ spare' \in Nat /\ made' \in Nat /\ curchunks' \in Int
      /\ miscounted' \in Nat
      /\ dirty' \subseteq dirty \union Chunks!InHand(steps[t]) /\ CleanHand(v, dirty')
  BY TheState
<1>5. extents' \subseteq [addr : Nat, size : Nat \ {0}, zeroed : BOOLEAN]
  BY TheState
<1>6. \A x \in extents' \ extents : x.zeroed => Chunks!Span(x) \cap dirty' = {}
  <2> SUFFICES ASSUME NEW x \in new, x.zeroed
               PROVE  Chunks!Span(x) \cap dirty = {}
    OBVIOUS
  <2>1. e.zeroed /\ Chunks!Span(x) \subseteq Chunks!Span(e)
    BY DEF Chunks!Spans
  <2>2. Chunks!Span(e) \cap dirty = {}
    BY <2>1 DEF ChunksInv, Clean
  <2> QED BY <2>1, <2>2
<1>7. IsFiniteSet(extents \ {e}) /\ Cardinality(extents \ {e}) = Cardinality(extents) - 1
  BY TheState, FS_RemoveElement
<1>8. /\ IsFiniteSet(extents')
      /\ Cardinality(extents') = Cardinality(extents) - (IF new = {} THEN 1 ELSE 0)
  <2>1. CASE new = {}
    BY <1>7, <2>1
  <2>2. CASE new # {}
    <3>1. PICK y \in [addr : Nat, size : Nat \ {0}, zeroed : BOOLEAN] : new = {y}
      BY <2>2
    <3>2. y.addr \in Chunks!Span(y)
      BY DEF Chunks!Span
    <3>3. Chunks!Span(y) \subseteq Chunks!Span(e)
      BY <3>1 DEF Chunks!Spans
    <3>4. y \notin extents \ {e}
      BY <3>2, <3>3, TheState DEF Chunks!Apart
    <3>5. IsFiniteSet(extents') /\ Cardinality(extents') = Cardinality(extents \ {e}) + 1
      BY <1>7, <3>1, <3>4, FS_AddElement
    <3>6. Cardinality(extents) \in Nat
      BY TheState
    <3> QED BY <1>7, <2>2, <3>5, <3>6
  <2> QED BY <2>1, <2>2
<1>9. Cardinality(extents') + Cardinality(huge') + spare' + Chunks!NodesInHand(v) - made'
        = Cardinality(extents) + Cardinality(huge) + spare + Chunks!NodesInHand(steps[t]) - made
  <2>1. /\ Cardinality(extents) \in Nat /\ Cardinality(huge) \in Nat /\ spare \in Nat /\ made \in Nat
        /\ huge' = huge /\ made' = made /\ spare' = spare + (IF new = {} THEN 1 ELSE 0)
        /\ Chunks!NodesInHand(v) = 1 /\ Chunks!NodesInHand(steps[t]) = 1
    BY TheState
  <2> QED BY ONLY <1>8, <2>1
<1>10. curchunks' + miscounted' - (curchunks + miscounted)
         = Cardinality(Weight(base', huge', v)) - Cardinality(Weight(base, huge, steps[t]))
  BY SameCount
<1> QED BY <1>3, <1>4, <1>5, <1>6, <1>8, <1>9, <1>10, ChunksStep

LEMMA MappingIs ==
    ASSUME NEW w, w.size \in ChunkSizes, w.alignment \in Nat \ {0}
    PROVE  /\ Shaped(Chunks!Mapping(w)) /\ Chunks!InHand(Chunks!Mapping(w)) = {}
           /\ Chunks!CountedInHand(Chunks!Mapping(w)) = {} /\ Chunks!NodesInHand(Chunks!Mapping(w)) = 1
           /\ \A written : CleanHand(Chunks!Mapping(w), written)
<1> DEFINE n == w.size
           al == w.alignment
           v == [Chunks!Idle EXCEPT !.pc = "mmap", !.size = n, !.alignment = al]
<1>1. n \in ChunkSizes /\ n \in Nat /\ al \in Nat \ {0}
  BY PartsAssumption DEF PartsAssumption
<1>2. Chunks!Mapping(w) = v
  BY DEF Chunks!Mapping
<1> HIDE DEF n, al
<1>3. v \in Chunks!Work
  <2>1. Chunks!Idle \in Chunks!Work
    BY DEF Chunks!Idle, Chunks!Work, Chunks!Extent
  <2> QED BY <1>1, <2>1 DEF Chunks!Work
<1>4. v.pc = "mmap" /\ v.next = "none" /\ v.have = FALSE /\ v.size = n
  BY DEF Chunks!Idle, Chunks!Extent
<1> HIDE DEF v
<1>5. Shaped(v)
  BY <1>1, <1>3, <1>4 DEF Shaped
<1>6. Chunks!InHand(v) = {} /\ Chunks!CountedInHand(v) = {} /\ Chunks!NodesInHand(v) = 1
  BY <1>4 DEF Chunks!InHand, Chunks!CountedInHand, Chunks!NodesInHand, Chunks!One
<1>7. \A written : CleanHand(v, written)
  BY <1>4 DEF CleanHand
<1> QED BY <1>2, <1>5, <1>6, <1>7

LEMMA RecycleKeeps ==
    ASSUME ChunksInv, NEW t \in Threads, Chunks!Recycle(t)
    PROVE  ChunksInv'
<1> DEFINE w == steps[t]
           es == Chunks!Fitting(w.size, w.alignment)
           e == Chunks!BestFit(es)
           addr == Chunks!AlignmentCeiling(e.addr, w.alignment)
           lead == Chunks!Extent(e.addr, addr - e.addr, e.zeroed)
           trail == Chunks!Extent(addr + w.size, Chunks!End(e) - addr - w.size, e.zeroed)
           Kept == {x \in {lead, trail} : x.size > 0}
<1>1. /\ w.pc = "recycle"
      /\ UNCHANGED <<huge, base, room, mapped, dirty, curchunks, made, leaked, miscounted>>
      /\ \/ ~w.have /\ steps' = [steps EXCEPT ![t] = Chunks!Idle] /\ UNCHANGED <<extents, spare>>
         \/ /\ w.have /\ es = {} /\ steps' = [steps EXCEPT ![t] = Chunks!Mapping(w)]
            /\ UNCHANGED <<extents, spare>>
         \/ /\ w.have /\ es # {} /\ lead.size > 0 /\ trail.size > 0
            /\ extents' = (extents \ {e}) \union {lead}
            /\ steps' = [steps EXCEPT ![t] = [w EXCEPT !.pc = "node", !.next = "trail", !.have = FALSE,
                                                       !.addr = addr, !.trail = trail]]
            /\ UNCHANGED spare
         \/ /\ w.have /\ es # {} /\ (lead.size = 0 \/ trail.size = 0)
            /\ extents' = (extents \ {e}) \union Kept
            /\ spare' = (IF lead.size = 0 /\ trail.size = 0 THEN spare + 1 ELSE spare)
            /\ steps' = [steps EXCEPT ![t] = Chunks!Doing("count", w.size, addr)]
  BY DEF Chunks!Recycle, Chunks!At, Chunks!Goto
<1>2. w \in Chunks!Work /\ Shaped(w)
  BY TheStep
<1>3. /\ w.size \in ChunkSizes /\ w.size \in Nat \ {0} /\ w.alignment \in Nat \ {0}
      /\ w.next = "recycle"
      /\ w.have \in BOOLEAN
  BY <1>1, <1>2, PartsAssumption DEF Shaped, Chunks!Work, PartsAssumption
<1>4. es # {} => e \in extents /\ e.size >= w.size + w.alignment - 1
  <2> SUFFICES ASSUME es # {}
               PROVE  e \in es
    BY DEF Chunks!Fitting
  <2>1. es \subseteq extents /\ IsFiniteSet(extents)
    BY TheState DEF Chunks!Fitting
  <2>2. IsFiniteSet(es)
    BY <2>1, FS_Subset
  <2>3. \A x \in es : x.addr \in Nat /\ x.size \in Nat
    BY <2>1, TheState
  <2> HIDE DEF es
  <2> QED BY <2>2, <2>3, BestFitIs
<1> HIDE DEF es, e
<1>5. es # {} => e \in [addr : Nat, size : Nat \ {0}, zeroed : BOOLEAN]
        /\ CutInto(e, w.size, addr, lead, trail)
  <2>1. es # {} => e \in [addr : Nat, size : Nat \ {0}, zeroed : BOOLEAN]
    BY <1>4, TheState
  <2>2. es # {} => Cuts(e, w.size, w.alignment, addr, lead, trail)
    BY <1>4 DEF Cuts
  <2> HIDE DEF w, addr, lead, trail
  <2> QED BY <1>3, <2>1, <2>2, Cut
<1> HIDE DEF w, addr, lead, trail
<1>6. Chunks!InHand(w) = {} /\ Chunks!CountedInHand(w) = {}
        /\ Chunks!NodesInHand(w) = IF w.have THEN 1 ELSE 0
  BY <1>1, <1>3 DEF Chunks!InHand, Chunks!CountedInHand, Chunks!NodesInHand, Chunks!One
<1>7. room' \in 0 .. BaseNodes - 1 /\ spare \in Nat /\ made \in Nat /\ made' = made /\ curchunks \in Int
        /\ curchunks' = curchunks
      /\ dirty' \subseteq dirty
  BY <1>1, TheState
<1>8. ASSUME NEW v, steps' = [steps EXCEPT ![t] = v], Shaped(v), \A written : CleanHand(v, written),
             Chunks!InHand(v) = {},
             Chunks!CountedInHand(v) = {}, Chunks!NodesInHand(v) = Chunks!NodesInHand(w), UNCHANGED <<extents, spare>>
      PROVE  ChunksInv'
  <2>1. Cardinality(Weight(base, huge, v)) - Cardinality(Weight(base, huge, w)) = 0
    BY <1>6, <1>8, SameWeight DEF w
  <2>2. curchunks' - curchunks = Cardinality(Weight(base, huge, v)) - Cardinality(Weight(base, huge, w))
          /\ curchunks' \in Int
    BY <1>7, <2>1
  <2>3. /\ spare' \in Nat /\ made' \in Nat /\ CleanHand(v, dirty')
        /\ Chunks!InHand(v) = Chunks!InHand(w)
        /\ spare' + Chunks!NodesInHand(v) - made' = spare + Chunks!NodesInHand(w) - made
        /\ UNCHANGED <<extents, huge, base, mapped, leaked, miscounted>>
    BY <1>1, <1>6, <1>7, <1>8
  <2> QED BY <1>7, <1>8, <2>2, <2>3, QuietStep DEF w
<1>9. CASE ~w.have /\ steps' = [steps EXCEPT ![t] = Chunks!Idle] /\ UNCHANGED <<extents, spare>>
  BY <1>6, <1>8, <1>9, IdleIs
<1>10. CASE w.have /\ steps' = [steps EXCEPT ![t] = Chunks!Mapping(w)] /\ UNCHANGED <<extents, spare>>
  BY <1>3, <1>6, <1>8, <1>10, MappingIs
<1>11. CASE /\ w.have /\ es # {} /\ lead.size > 0 /\ trail.size > 0
            /\ extents' = (extents \ {e}) \union {lead}
            /\ steps' = [steps EXCEPT ![t] = [w EXCEPT !.pc = "node", !.next = "trail", !.have = FALSE,
                                                       !.addr = addr, !.trail = trail]]
            /\ UNCHANGED spare
  <2> DEFINE v == [w EXCEPT !.pc = "node", !.next = "trail", !.have = FALSE, !.addr = addr, !.trail = trail]
  <2>1. v \in Chunks!Work
    BY <1>2, <1>5, <1>11 DEF Chunks!Work, CutInto
  <2>2. v.pc = "node" /\ v.next = "trail" /\ v.have = FALSE /\ v.size = w.size /\ v.addr = addr
          /\ v.trail = trail
    BY <1>2 DEF Chunks!Work
  <2>3. steps' = [steps EXCEPT ![t] = v]
    BY <1>11
  <2> HIDE DEF v
  <2>4. Shaped(v)
    BY <1>3, <1>5, <1>11, <2>1, <2>2 DEF Shaped, CutInto
  <2>5. Chunks!Span(v) = addr .. addr + w.size - 1 /\ Chunks!Span(v.trail) = Chunks!Span(trail)
    BY <2>2 DEF Chunks!Span
  <2>6. /\ Chunks!InHand(v) = Chunks!Span(v) \union Chunks!Span(trail) /\ Chunks!CountedInHand(v) = {}
        /\ Chunks!NodesInHand(v) = 1
    BY <2>2, <2>5 DEF Chunks!InHand, Chunks!CountedInHand, Chunks!NodesInHand, Chunks!One
  <2>7. CleanHand(v, dirty)
    <3>1. e.zeroed => Chunks!Span(e) \cap dirty = {}
      BY <1>4, <1>11 DEF ChunksInv, Clean
    <3> QED BY <1>5, <1>11, <2>2, <2>5, <3>1 DEF CleanHand, CutInto
  <2> DEFINE new == {lead}
  <2>8. Chunks!Spans(new) = Chunks!Span(lead)
    BY NoBlocks
  <2>9. /\ Chunks!Spans(new) \cap Chunks!InHand(v) = {}
        /\ Chunks!Spans(new) \union Chunks!InHand(v) = Chunks!Span(e)
        /\ new # {} /\ \E y \in [addr : Nat, size : Nat \ {0}, zeroed : BOOLEAN] : new = {y}
             /\ y.zeroed = e.zeroed
    <3>1. lead \in [addr : Nat, size : Nat \ {0}, zeroed : BOOLEAN] /\ lead.zeroed = e.zeroed
      BY <1>5, <1>11 DEF CutInto
    <3>2. /\ Chunks!Spans(new) \cap Chunks!InHand(v) = {}
          /\ Chunks!Spans(new) \union Chunks!InHand(v) = Chunks!Span(e)
      BY <1>5, <1>11, <2>5, <2>6, <2>8 DEF CutInto
    <3> QED BY <3>1, <3>2
  <2>10. e \in extents /\ extents' = (extents \ {e}) \union new
           /\ spare' = spare + (IF new = {} THEN 1 ELSE 0)
    BY <1>4, <1>7, <1>11
  <2> HIDE DEF new
  <2> QED BY <1>1, <1>6, <1>11, <2>3, <2>4, <2>6, <2>7, <2>9, <2>10, Recycled DEF w
<1>12. CASE /\ w.have /\ es # {} /\ (lead.size = 0 \/ trail.size = 0)
            /\ extents' = (extents \ {e}) \union Kept
            /\ spare' = (IF lead.size = 0 /\ trail.size = 0 THEN spare + 1 ELSE spare)
            /\ steps' = [steps EXCEPT ![t] = Chunks!Doing("count", w.size, addr)]
  <2> DEFINE v == Chunks!Doing("count", w.size, addr)
  <2>1. Block(v, "count", w.size, addr)
    BY <1>3, <1>5, <1>12, DoingIs DEF CutInto
  <2>2. steps' = [steps EXCEPT ![t] = v]
    BY <1>12
  <2> HIDE DEF v
  <2>3. /\ Shaped(v) /\ Chunks!Span(v) = addr .. addr + w.size - 1
        /\ Chunks!InHand(v) = Chunks!Span(v) /\ Chunks!NodesInHand(v) = 1
        /\ Chunks!CountedInHand(v) = {} /\ CleanHand(v, dirty)
    BY <1>3, <2>1, BlockIs
  <2>4. /\ lead.size \in Nat /\ trail.size \in Nat
    BY <1>5, <1>12 DEF CutInto
  <2>5. PICK new : /\ new = Kept
                   /\ Chunks!Spans(new) = Chunks!Span(lead) \union Chunks!Span(trail)
                   /\ new = {} <=> lead.size = 0 /\ trail.size = 0
                   /\ new = {} \/ \E y \in [addr : Nat, size : Nat \ {0}, zeroed : BOOLEAN] : new = {y}
                        /\ y.zeroed = e.zeroed
    <3>1. CASE lead.size = 0 /\ trail.size = 0
      <4>1. Kept = {}
        BY <3>1
      <4> QED BY <1>5, <1>12, <3>1, <4>1, NoBlocks DEF CutInto
    <3>2. CASE lead.size # 0
      <4>1. Kept = {lead} /\ Chunks!Span(trail) = {}
        BY <1>5, <1>12, <2>4, <3>2 DEF CutInto
      <4>2. lead \in [addr : Nat, size : Nat \ {0}, zeroed : BOOLEAN] /\ lead.zeroed = e.zeroed
        BY <1>5, <1>12, <3>2 DEF CutInto
      <4> QED BY <3>2, <4>1, <4>2, NoBlocks
    <3>3. CASE trail.size # 0
      <4>1. Kept = {trail} /\ Chunks!Span(lead) = {}
        BY <1>5, <1>12, <2>4, <3>3 DEF CutInto
      <4>2. trail \in [addr : Nat, size : Nat \ {0}, zeroed : BOOLEAN] /\ trail.zeroed = e.zeroed
        BY <1>5, <1>12, <3>3 DEF CutInto
      <4> QED BY <3>3, <4>1, <4>2, NoBlocks
    <3> QED BY <3>1, <3>2, <3>3
  <2>6. Chunks!Spans(new) \cap Chunks!InHand(v) = {}
          /\ Chunks!Spans(new) \union Chunks!InHand(v) = Chunks!Span(e)
    BY <1>5, <1>12, <2>3, <2>5 DEF CutInto
  <2>7. e \in extents /\ extents' = (extents \ {e}) \union new
          /\ spare' = spare + (IF new = {} THEN 1 ELSE 0)
    BY <1>4, <1>7, <1>12, <2>5
  <2> QED BY <1>1, <1>6, <1>12, <2>2, <2>3, <2>5, <2>6, <2>7, Recycled DEF w
<1> QED BY <1>1, <1>9, <1>10, <1>11, <1>12

Extents == [addr : Nat, size : Nat \ {0}, zeroed : BOOLEAN]

\* Of extents that are apart, at most one has a given chunk.
LEMMA OneThere ==
    ASSUME NEW es, es \subseteq Extents, Chunks!Apart(es), NEW p \in SUBSET es, NEW c,
           \A e \in p : c \in Chunks!Span(e)
    PROVE  p = {} \/ (p = {Chunks!BestFit(p)} /\ Chunks!BestFit(p) \in es)
<1> SUFFICES ASSUME p # {}
             PROVE  p = {Chunks!BestFit(p)} /\ Chunks!BestFit(p) \in es
  OBVIOUS
<1>1. PICK f \in p : TRUE
  OBVIOUS
<1>2. p = {f}
  BY DEF Chunks!Apart
<1>3. IsFiniteSet(p)
  BY <1>2, FS_Singleton
<1>4. Chunks!BestFit(p) \in p
  BY <1>3, BestFitIs DEF Extents
<1> QED BY <1>2, <1>4

LEMMA Join ==
    ASSUME NEW x \in Extents, NEW y \in Extents, Chunks!End(x) = y.addr
    PROVE  LET z == Chunks!Joined(x, y)
           IN /\ z \in Extents /\ Chunks!Span(z) = Chunks!Span(x) \union Chunks!Span(y)
              /\ z.addr = x.addr /\ Chunks!End(z) = Chunks!End(y)
              /\ z.zeroed => x.zeroed /\ y.zeroed
<1> DEFINE z == Chunks!Joined(x, y)
           a == x.addr
           n == x.size
           m == y.size
           q == x.zeroed /\ y.zeroed
<1>1. a \in Nat /\ n \in Nat \ {0} /\ m \in Nat \ {0} /\ q \in BOOLEAN /\ y.addr = a + n
  BY DEF Extents, Chunks!End
<1>2. z = [addr |-> a, size |-> n + m, zeroed |-> q]
  BY DEF Chunks!Joined, Chunks!Extent, Chunks!ZeroedBoth
<1>3. Chunks!Span(x) = a .. a + n - 1
  BY DEF Chunks!Span
<1>4. Chunks!Span(y) = a + n .. a + n + m - 1 /\ Chunks!End(y) = a + n + m
  BY <1>1 DEF Chunks!Span, Chunks!End
<1> HIDE DEF a, n, m, q, z
<1>5. z.addr = a /\ z.size = n + m /\ z.zeroed = q
  BY <1>2
<1>6. Chunks!Span(z) = a .. a + (n + m) - 1 /\ Chunks!End(z) = a + (n + m)
  BY <1>5 DEF Chunks!Span, Chunks!End
<1>7. a .. a + (n + m) - 1 = (a .. a + n - 1) \union (a + n .. a + n + m - 1) /\ a + (n + m) = a + n + m
  BY <1>1
<1>8. z \in Extents
  BY <1>1, <1>2 DEF Extents
<1> QED BY <1>3, <1>4, <1>5, <1>6, <1>7, <1>8 DEF z, a, q

\* What chunk_record makes of a block and its neighbours.
Neighbours(x, after, before) ==
    /\ after # {} => /\ after = {Chunks!BestFit(after)} /\ Chunks!BestFit(after) \in Extents
                     /\ Chunks!BestFit(after).addr = Chunks!End(x)
    /\ before # {} => /\ before = {Chunks!BestFit(before)} /\ Chunks!BestFit(before) \in Extents
                      /\ Chunks!End(Chunks!BestFit(before)) = x.addr

LEMMA Merge ==
    ASSUME NEW x \in Extents, NEW after, NEW before, Neighbours(x, after, before),
           NEW node, node = (IF after = {} THEN x ELSE Chunks!Joined(x, Chunks!BestFit(after))),
           NEW z, z = (IF before = {} THEN node ELSE Chunks!Joined(Chunks!BestFit(before), node))
    PROVE  /\ z \in Extents
           /\ Chunks!Span(z) = Chunks!Spans(after) \union Chunks!Spans(before) \union Chunks!Span(x)
           /\ z.zeroed => x.zeroed /\ \A e \in after \union before : e.zeroed
<1> DEFINE f == Chunks!BestFit(after)
           b == Chunks!BestFit(before)
<1>1. /\ node \in Extents /\ Chunks!Span(node) = Chunks!Spans(after) \union Chunks!Span(x)
      /\ node.addr = x.addr
      /\ node.zeroed => x.zeroed /\ \A e \in after : e.zeroed
  <2>1. CASE after = {}
    BY <2>1, NoBlocks
  <2>2. CASE after # {}
    <3>1. after = {f} /\ f \in Extents /\ Chunks!End(x) = f.addr /\ node = Chunks!Joined(x, f)
      BY <2>2 DEF Neighbours
    <3> HIDE DEF f
    <3>2. /\ node \in Extents /\ Chunks!Span(node) = Chunks!Span(x) \union Chunks!Span(f)
          /\ node.addr = x.addr /\ (node.zeroed => x.zeroed /\ f.zeroed)
      BY <3>1, Join
    <3>3. Chunks!Spans(after) = Chunks!Span(f)
      BY <3>1, NoBlocks
    <3> QED BY <3>1, <3>2, <3>3
  <2> QED BY <2>1, <2>2
<1>2. CASE before = {}
  BY <1>1, <1>2, NoBlocks
<1>3. CASE before # {}
  <2>1. before = {b} /\ b \in Extents /\ Chunks!End(b) = node.addr /\ z = Chunks!Joined(b, node)
    BY <1>1, <1>3 DEF Neighbours
  <2> HIDE DEF b
  <2>2. /\ z \in Extents /\ Chunks!Span(z) = Chunks!Span(b) \union Chunks!Span(node)
        /\ (z.zeroed => b.zeroed /\ node.zeroed)
    BY <1>1, <2>1, Join
  <2>3. Chunks!Spans(before) = Chunks!Span(b)
    BY <2>1, NoBlocks
  <2> QED BY <1>1, <2>1, <2>2, <2>3
<1> QED BY <1>2, <1>3

\* What is left when a block is joined to its neighbours.
LEMMA Replaced ==
    ASSUME NEW es, IsFiniteSet(es), NEW after, NEW before, after \subseteq es, before \subseteq es,
           after \cap before = {},
           after = {} \/ \E f : after = {f}, before = {} \/ \E b : before = {b}, NEW z, z \notin es
    PROVE  /\ IsFiniteSet((es \ (after \union before)) \union {z})
           /\ Cardinality((es \ (after \union before)) \union {z})
                = Cardinality(es) + 1 - (IF after # {} THEN 1 ELSE 0) - (IF before # {} THEN 1 ELSE 0)
<1>1. /\ IsFiniteSet(es \ after)
      /\ Cardinality(es \ after) = Cardinality(es) - (IF after # {} THEN 1 ELSE 0)
  <2>1. CASE after = {}
    <3>1. es \ after = es /\ Cardinality(es) \in Nat
      BY <2>1, FS_CardinalityType
    <3> QED BY <2>1, <3>1
  <2>2. CASE \E f : after = {f}
    BY <2>2, FS_RemoveElement
  <2> QED BY <2>1, <2>2
<1> DEFINE rest == es \ after
<1>2. before \subseteq rest
  OBVIOUS
<1>3. /\ IsFiniteSet(rest \ before)
      /\ Cardinality(rest \ before) = Cardinality(rest) - (IF before # {} THEN 1 ELSE 0)
  <2> HIDE DEF rest
  <2>1. CASE before = {}
    <3>1. rest \ before = rest /\ Cardinality(rest) \in Nat
      BY <1>1, <2>1, FS_CardinalityType DEF rest
    <3> QED BY <1>1, <2>1, <3>1 DEF rest
  <2>2. CASE \E b : before = {b}
    BY <1>1, <1>2, <2>2, FS_RemoveElement DEF rest
  <2> QED BY <2>1, <2>2
<1>4. es \ (after \union before) = rest \ before /\ z \notin rest \ before
  OBVIOUS
<1>5. /\ IsFiniteSet((rest \ before) \union {z})
      /\ Cardinality((rest \ before) \union {z}) = Cardinality(rest \ before) + 1
  <2> HIDE DEF rest
  <2> QED BY <1>3, <1>4, FS_AddElement
<1>6. Cardinality(es) \in Nat /\ Cardinality(rest) = Cardinality(es) - (IF after # {} THEN 1 ELSE 0)
  BY <1>1, FS_CardinalityType
<1> HIDE DEF rest
<1>7. Cardinality((rest \ before) \union {z})
        = Cardinality(es) + 1 - (IF after # {} THEN 1 ELSE 0) - (IF before # {} THEN 1 ELSE 0)
  BY ONLY <1>3, <1>5, <1>6
<1> QED BY <1>4, <1>5, <1>7

\* Where chunk_record goes on.
LEMMA AfterRecord ==
    ASSUME NEW w \in Chunks!Work, w.size \in ChunkSizes
    PROVE  LET v == IF w.back = "idle" THEN Chunks!Idle ELSE Chunks!Mapping(w)
           IN /\ Shaped(v) /\ Chunks!InHand(v) = {} /\ Chunks!CountedInHand(v) = {}
              /\ Chunks!NodesInHand(v) = (IF w.back = "idle" THEN 0 ELSE 1)
                   /\ \A written : CleanHand(v, written)
<1>1. w.alignment \in Nat \ {0}
  BY DEF Chunks!Work
<1>2. CASE w.back = "idle"
  BY <1>2, IdleIs
<1>3. CASE w.back # "idle"
  BY <1>1, <1>3, MappingIs
<1> QED BY <1>2, <1>3

LEMMA RecordKeeps ==
    ASSUME ChunksInv, NEW t \in Threads, Chunks!Record(t)
    PROVE  ChunksInv'
<1> DEFINE w == steps[t]
           x == Chunks!Extent(w.addr, w.size, ~w.unzeroed)
           after == {e \in extents : e.addr = Chunks!End(x)}
           before == {e \in extents : Chunks!End(e) = x.addr}
           node == IF after = {} THEN x ELSE Chunks!Joined(x, Chunks!BestFit(after))
           z == IF before = {} THEN node ELSE Chunks!Joined(Chunks!BestFit(before), node)
           leaks == after = {} /\ ~w.have
           v == IF w.back = "idle" THEN Chunks!Idle ELSE Chunks!Mapping(w)
<1>1. /\ w.pc = "record" /\ UNCHANGED <<huge, base, room, mapped, dirty, curchunks, made, miscounted>>
      /\ steps' = [steps EXCEPT ![t] = v]
      /\ \/ leaks /\ leaked' = leaked \union Chunks!Span(x) /\ UNCHANGED extents
         \/ ~leaks /\ extents' = (extents \ (after \union before)) \union {z} /\ UNCHANGED leaked
      /\ spare' = spare + (IF w.have /\ after # {} THEN 1 ELSE 0) + (IF ~leaks /\ before # {} THEN 1 ELSE 0)
                    + (IF w.back = "idle" THEN 1 ELSE 0)
  BY DEF Chunks!Record, Chunks!At, Chunks!Goto, Chunks!One
<1>2. w \in Chunks!Work /\ Shaped(w) /\ CleanHand(w, dirty)
  BY TheStep
<1>3. /\ w.size \in ChunkSizes /\ w.size \in Nat \ {0} /\ w.addr \in Nat /\ w.next = "record"
      /\ w.have \in BOOLEAN
      /\ w.unzeroed \in BOOLEAN
  BY <1>1, <1>2, PartsAssumption DEF Shaped, Chunks!Work, PartsAssumption
<1>4. /\ Shaped(v) /\ Chunks!InHand(v) = {} /\ Chunks!CountedInHand(v) = {}
      /\ Chunks!NodesInHand(v) = (IF w.back = "idle" THEN 0 ELSE 1) /\ CleanHand(v, dirty')
  BY <1>2, <1>3, AfterRecord
<1> HIDE DEF w, v
<1>5. x = [addr |-> w.addr, size |-> w.size, zeroed |-> ~w.unzeroed]
  BY DEF Chunks!Extent
<1>6. x \in Extents /\ Chunks!Span(x) = Chunks!Span(w) /\ x.addr = w.addr /\ (x.zeroed <=> ~w.unzeroed)
        /\ x.size = w.size
  <2> DEFINE q == ~w.unzeroed
  <2>0. x = [addr |-> w.addr, size |-> w.size, zeroed |-> q] /\ q \in BOOLEAN /\ (q <=> ~w.unzeroed)
    BY <1>3, <1>5
  <2> HIDE DEF x, q
  <2>1. x.addr = w.addr /\ x.size = w.size /\ (x.zeroed <=> ~w.unzeroed)
    BY <2>0
  <2>2. x \in Extents
    BY <1>3, <2>0 DEF Extents
  <2> QED BY <2>1, <2>2 DEF Chunks!Span
<1> HIDE DEF x
<1>7. /\ Chunks!InHand(w) = Chunks!Span(w) /\ Chunks!CountedInHand(w) = {}
      /\ Chunks!NodesInHand(w) = 1 + (IF w.have THEN 1 ELSE 0)
  BY <1>1, <1>3 DEF Chunks!InHand, Chunks!CountedInHand, Chunks!NodesInHand, Chunks!One
<1>8. /\ huge' \subseteq [addr : Nat, size : ChunkSizes] /\ IsFiniteSet(huge')
      /\ mapped' \union dirty' \subseteq 0 .. Space - 1
      /\ room' \in 0 .. BaseNodes - 1 /\ made' \in Nat /\ curchunks' \in Int /\ miscounted' \in Nat
      /\ dirty' \subseteq dirty \union Chunks!InHand(w) /\ dirty' = dirty
  BY <1>1, TheState
<1>9. /\ Cardinality(extents) \in Nat /\ Cardinality(huge) \in Nat /\ spare \in Nat /\ made \in Nat
      /\ huge' = huge /\ made' = made
  BY <1>1, TheState
<1>10. curchunks' + miscounted' - (curchunks + miscounted)
         = Cardinality(Weight(base', huge', v)) - Cardinality(Weight(base, huge, w))
  BY <1>1, <1>4, <1>7, SameCount DEF w
<1>11. spare' \in Nat
  BY ONLY <1>1, <1>9
<1>12. CASE leaks /\ leaked' = leaked \union Chunks!Span(x) /\ UNCHANGED extents
  <2>1. Transfer(t, v, {}, {}, {}, {}, {}, Chunks!Span(w), {})
    BY <1>1, <1>4, <1>6, <1>7, <1>12, NoBlocks DEF Transfer, Disjoint, w
  <2>2. Parted'
    BY <2>1, BlocksStep
  <2>3. /\ extents' \subseteq [addr : Nat, size : Nat \ {0}, zeroed : BOOLEAN] /\ IsFiniteSet(extents')
        /\ extents' \ extents = {} /\ extents' = extents
    BY <1>12, TheState
  <2>4. spare' = spare + (IF w.back = "idle" THEN 1 ELSE 0) /\ ~w.have
    BY ONLY <1>1, <1>9, <1>12
  <2>5. Cardinality(extents') + Cardinality(huge') + spare' + Chunks!NodesInHand(v) - made'
          = Cardinality(extents) + Cardinality(huge) + spare + Chunks!NodesInHand(w) - made
    BY ONLY <1>4, <1>7, <1>9, <2>3, <2>4
  <2> QED BY <1>1, <1>4, <1>8, <1>10, <1>11, <2>2, <2>3, <2>5, ChunksStep DEF w
<1>13. CASE ~leaks /\ extents' = (extents \ (after \union before)) \union {z} /\ UNCHANGED leaked
  <2>1. extents \subseteq Extents /\ IsFiniteSet(extents) /\ Chunks!Apart(extents)
    BY TheState DEF Extents
  <2>2. \A e \in extents : e.addr \in Chunks!Span(e) /\ Chunks!End(e) - 1 \in Chunks!Span(e)
          /\ e.addr < Chunks!End(e)
                             /\ Chunks!End(e) \in Nat
    BY <2>1 DEF Extents, Chunks!Span, Chunks!End
  <2>3. after = {} \/ (after = {Chunks!BestFit(after)} /\ Chunks!BestFit(after) \in extents)
    <3>1. after \in SUBSET extents /\ \A e \in after : Chunks!End(x) \in Chunks!Span(e)
      BY <2>2
    <3> HIDE DEF after
    <3> QED BY <2>1, <3>1, OneThere
  <2>4. before = {} \/ (before = {Chunks!BestFit(before)} /\ Chunks!BestFit(before) \in extents)
    <3> DEFINE c == x.addr - 1
    <3>1. before \in SUBSET extents /\ \A e \in before : c \in Chunks!Span(e)
      BY <2>2
    <3> HIDE DEF before, c
    <3> QED BY <2>1, <3>1, OneThere
  <2>5. Neighbours(x, after, before)
    <3>1. (\A e \in after : e.addr = Chunks!End(x)) /\ \A e \in before : Chunks!End(e) = x.addr
      OBVIOUS
    <3> HIDE DEF after, before
    <3> QED BY <2>1, <2>3, <2>4, <3>1 DEF Neighbours
  <2>6. after \cap before = {} /\ after \subseteq extents /\ before \subseteq extents
    <3>1. x.addr < Chunks!End(x) /\ x.addr \in Nat /\ Chunks!End(x) \in Nat
      BY <1>6 DEF Extents, Chunks!End
    <3> QED BY <2>2, <3>1
  <2> HIDE DEF after, before
  <2>7. /\ z \in Extents
        /\ Chunks!Span(z) = Chunks!Spans(after) \union Chunks!Spans(before) \union Chunks!Span(x)
        /\ z.zeroed => x.zeroed /\ \A e \in after \union before : e.zeroed
    <3>1. node = (IF after = {} THEN x ELSE Chunks!Joined(x, Chunks!BestFit(after)))
      OBVIOUS
    <3>2. z = (IF before = {} THEN node ELSE Chunks!Joined(Chunks!BestFit(before), node))
      OBVIOUS
    <3> HIDE DEF node, z
    <3> QED BY <1>6, <2>5, <3>1, <3>2, Merge
  <2> HIDE DEF node, z
  <2> DEFINE old == after \union before
  <2>8. Chunks!Spans(old) = Chunks!Spans(after) \union Chunks!Spans(before)
    BY DEF Chunks!Spans
  <2>9. Transfer(t, v, old, {z}, {}, {}, {}, {}, {})
    <3>1. /\ Chunks!Spans({z}) = Chunks!Span(z) /\ Chunks!Apart({z}) /\ Chunks!Spans({}) = {}
          /\ Chunks!Apart({})
      BY NoBlocks
    <3>2. Chunks!InHand(steps[t]) = Chunks!Span(x)
      BY <1>6, <1>7 DEF w
    <3>3. /\ Disjoint({}, {}, Chunks!Spans({z}), Chunks!Spans({}), Chunks!InHand(v))
          /\ {} \union {} \union Chunks!Spans({z}) \union Chunks!Spans({}) \union Chunks!InHand(v)
               = Chunks!Spans(old) \union Chunks!Spans({}) \union Chunks!InHand(steps[t]) \union {}
      BY <1>4, <2>7, <2>8, <3>1, <3>2 DEF Disjoint
    <3>4. /\ old \subseteq extents /\ {} \subseteq huge /\ {} \intersect mapped = {}
          /\ extents' = (extents \ old) \union {z} /\ huge' = (huge \ {}) \union {}
          /\ base' = base \union {} /\ leaked' = leaked \union {} /\ mapped' = mapped \union {}
      BY <1>1, <1>13, <2>6
    <3> HIDE DEF old
    <3> QED BY <1>1, <3>1, <3>3, <3>4 DEF Transfer
  <2>10. Parted'
    BY <2>9, BlocksStep
  <2>11. z \notin extents
    <3>1. Chunks!InHand(w) \subseteq HandsOf(steps) /\ Chunks!Spans(extents) \cap HandsOf(steps) = {}
      BY TheState DEF w, Disjoint
    <3>2. w.addr \in Chunks!Span(w)
      BY <1>3 DEF Chunks!Span
    <3> QED BY <1>6, <1>7, <2>7, <3>1, <3>2 DEF Chunks!Spans
  <2>12. /\ IsFiniteSet(extents')
         /\ Cardinality(extents')
              = Cardinality(extents) + 1 - (IF after # {} THEN 1 ELSE 0) - (IF before # {} THEN 1 ELSE 0)
    <3>1. (after = {} \/ \E f : after = {f}) /\ (before = {} \/ \E b : before = {b})
      BY <2>3, <2>4
    <3> QED BY <1>13, <2>1, <2>6, <2>11, <3>1, Replaced
  <2>13. extents' \subseteq [addr : Nat, size : Nat \ {0}, zeroed : BOOLEAN]
    BY <1>13, <2>1, <2>7 DEF Extents
  <2>14. \A e \in extents' \ extents : e.zeroed => Chunks!Span(e) \cap dirty' = {}
    <3> SUFFICES ASSUME z.zeroed
                 PROVE  Chunks!Span(z) \cap dirty = {}
      BY <1>8, <1>13
    <3>1. Chunks!Span(x) \cap dirty = {}
      BY <1>2, <1>3, <1>6, <2>7 DEF CleanHand
    <3>2. \A e \in old : Chunks!Span(e) \cap dirty = {}
      BY <2>6, <2>7 DEF ChunksInv, Clean
    <3>3. Chunks!Spans(old) \cap dirty = {}
      BY <3>2 DEF Chunks!Spans
    <3> QED BY <2>7, <2>8, <3>1, <3>3
  <2>15. Cardinality(extents') + Cardinality(huge') + spare' + Chunks!NodesInHand(v) - made'
           = Cardinality(extents) + Cardinality(huge) + spare + Chunks!NodesInHand(w) - made
    BY ONLY <1>1, <1>3, <1>4, <1>7, <1>9, <1>13, <2>12
  <2> QED BY <1>1, <1>4, <1>8, <1>10, <1>11, <2>10, <2>12, <2>13, <2>14, <2>15, ChunksStep DEF w
<1> QED BY <1>1, <1>12, <1>13

LEMMA ChunksBegin == Chunks!Init => ChunksInv
<1> SUFFICES ASSUME Chunks!Init PROVE ChunksInv
  OBVIOUS
<1>1. /\ extents = {} /\ huge = {} /\ base = {} /\ room = 0 /\ spare = 0
      /\ mapped = {} /\ dirty = {} /\ curchunks = 0
      /\ steps = [t \in Threads |-> Chunks!Idle]
      /\ made = 0 /\ leaked = {} /\ miscounted = 0
  BY DEF Chunks!Init
<1>2. \A t \in Threads : steps[t] = Chunks!Idle
  BY <1>1
<1>3. /\ IsFiniteSet({}) /\ Cardinality({}) = 0
  BY FS_EmptySet
<1>4. steps \in [Threads -> Chunks!Work] /\ \A t \in Threads : Shaped(steps[t])
  BY <1>1, <1>2, IdleIs DEF Shaped
<1>5. ChunksTyped
  <2>1. room \in 0 .. BaseNodes - 1
    BY <1>1, PartsAssumption DEF PartsAssumption
  <2> QED BY <1>1, <1>3, <1>4, <2>1 DEF ChunksTyped
<1>6. HandsOf(steps) = {} /\ AllApart(Here(steps)) /\ AllOf(Weighed(steps)) = {}
  BY <1>2, IdleIs DEF HandsOf, AllOf, AllApart, Here, Weighed
<1>7. Parted
  BY <1>1, <1>6, NoBlocks DEF Parted, Disjoint
<1>8. Clean
  BY <1>1, <1>2, IdleIs DEF Clean
<1>9. NodesKept
  <2>1. \A t \in Threads : Holding(steps)[t] = 0
    BY <1>2, IdleIs DEF Holding
  <2>2. SumFunctionOnSet(Holding(steps), Threads) = 0
    BY <2>1, SumZero, PartsAssumption DEF PartsAssumption
  <2> QED BY <1>1, <1>3, <2>2 DEF NodesKept
<1>10. CountKept
  <2>1. CountedNow = {}
    BY <1>1, <1>6, NoBlocks DEF CountedNow
  <2> QED BY <1>1, <1>3, <2>1 DEF CountKept
<1> QED BY <1>5, <1>7, <1>8, <1>9, <1>10 DEF ChunksInv

LEMMA ChunksKeep ==
    ASSUME ChunksInv, [Chunks!Next]_chunksVars
    PROVE  ChunksInv'
<1>1. CASE UNCHANGED chunksVars
  <2>1. /\ UNCHANGED <<extents, huge, base, room, spare, mapped, dirty, curchunks, steps, made, leaked, miscounted>>
    BY <1>1 DEF chunksVars
  <2>2. ChunksTyped' /\ Parted'
    BY <2>1 DEF ChunksInv, ChunksTyped, Parted
  <2>3. (Clean)' /\ NodesKept' /\ CountKept'
    BY <2>1 DEF ChunksInv, Clean, NodesKept, CountKept, CountedNow
  <2> QED BY <2>2, <2>3 DEF ChunksInv
<1>2. ASSUME NEW t \in Threads, NEW size \in ChunkSizes, NEW alignment \in Alignments,
             Chunks!HugePalloc(t, size, alignment)
      PROVE  ChunksInv'
  BY <1>2, HugePallocKeeps
<1>3. ASSUME NEW t \in Threads, NEW h \in huge, Chunks!HugeDalloc(t, h)
      PROVE  ChunksInv'
  BY <1>3, HugeDallocKeeps
<1>4. ASSUME NEW t \in Threads, Chunks!PopNode(t) \/ Chunks!BaseAlloc(t)
      PROVE  ChunksInv'
  BY <1>4, PopNodeKeeps, BaseAllocKeeps
<1>5. ASSUME NEW t \in Threads, Chunks!Recycle(t) \/ Chunks!Trail(t) \/ Chunks!Mmap(t)
      PROVE  ChunksInv'
  BY <1>5, RecycleKeeps, TrailKeeps, MmapKeeps
<1>6. ASSUME NEW t \in Threads, Chunks!Count(t) \/ Chunks!Insert(t)
      PROVE  ChunksInv'
  BY <1>6, CountKeeps, InsertKeeps
<1>7. ASSUME NEW t \in Threads, Chunks!Dealloc(t) \/ Chunks!Record(t)
      PROVE  ChunksInv'
  BY <1>7, DeallocKeeps, RecordKeeps
<1>8. CASE Chunks!Next
  BY <1>2, <1>3, <1>4, <1>5, <1>6, <1>7, <1>8 DEF Chunks!Next
<1> QED BY <1>1, <1>8

LEMMA ChunksAreConserved ==
    ASSUME ChunksInv
    PROVE  Chunks!ChunksConserved /\ Chunks!TypeOK
<1> DEFINE E == Chunks!Spans(extents)
           U == Chunks!Spans(huge)
           H == Chunks!Hands
<1>1. H = HandsOf(steps)
  BY DEF Chunks!Hands, HandsOf, AllOf, Here
<1>2. /\ Disjoint(base, leaked, E, U, H) /\ base \union leaked \union E \union U \union H = mapped
      /\ Chunks!Apart(extents) /\ Chunks!Apart(huge) /\ AllApart(Here(steps))
  BY <1>1 DEF ChunksInv, Parted
<1>3. Chunks!Places = <<base, leaked, E, U, H>>
  BY DEF Chunks!Places
<1> HIDE DEF E, U, H
<1>4. UNION {Chunks!Places[i] : i \in 1 .. 5} = mapped
  <2>1. 1 .. 5 = {1, 2, 3, 4, 5}
    OBVIOUS
  <2>2. {Chunks!Places[i] : i \in {1, 2, 3, 4, 5}} = {base, leaked, E, U, H}
    BY <1>3
  <2> QED BY <1>2, <2>1, <2>2
<1>5. \A i, j \in 1 .. 5 : i # j => Chunks!Places[i] \cap Chunks!Places[j] = {}
  <2>1. /\ Chunks!Places[1] = base /\ Chunks!Places[2] = leaked /\ Chunks!Places[3] = E
        /\ Chunks!Places[4] = U /\ Chunks!Places[5] = H
    BY <1>3
  <2>2. \A i \in 1 .. 5 : i \in {1, 2, 3, 4, 5}
    OBVIOUS
  <2> QED BY <1>2, <2>1, <2>2 DEF Disjoint
<1>6. \A t, u \in Threads : t # u => Chunks!InHand(steps[t]) \cap Chunks!InHand(steps[u]) = {}
  BY <1>2 DEF AllApart, Here
<1>7. Chunks!Cardinality(extents) + Chunks!Cardinality(huge) + spare
        + Chunks!SumFunctionOnSet([t \in Threads |-> Chunks!NodesInHand(steps[t])], Threads) = made
  <2>1. [t \in Threads |-> Chunks!NodesInHand(steps[t])] = Holding(steps)
    BY DEF Holding
  <2> QED BY <2>1, ChunksCardinality, ChunksSums DEF ChunksInv, NodesKept
<1>8. \A e \in extents : e.zeroed => Chunks!Span(e) \cap dirty = {}
  BY DEF ChunksInv, Clean
<1>9. curchunks + miscounted = Chunks!Cardinality(Chunks!Counted)
  <2>1. Chunks!Counted = CountedNow
    BY DEF Chunks!Counted, CountedNow, AllOf, Weighed
  <2> QED BY <2>1, ChunksCardinality DEF ChunksInv, CountKept
<1>10. Chunks!ChunksConserved
  BY <1>2, <1>4, <1>5, <1>6, <1>7, <1>8, <1>9 DEF Chunks!ChunksConserved
<1>11. Chunks!TypeOK
  BY DEF ChunksInv, ChunksTyped, Chunks!TypeOK
<1> QED BY <1>10, <1>11
-----------------------------------------------------------------------------
(* All together.                                                           *)

\* A step is one of the part that was chosen, and the others stand still.
LEMMA OnePart ==
    ASSUME [PartsNext]_partsVars
    PROVE  /\ part' = part
           /\ [Next]_vars /\ [Library!Next]_libraryVars /\ [Cars!Next]_carsVars
           /\ [Login!Next]_loginVars /\ [Questions!Next]_quizVars /\ [Grid!Next]_gridVars
           /\ [Sprite!Next]_spriteVars /\ [Egg!Next]_eggVars /\ [Chunks!Next]_chunksVars
           /\ [ArenaUse!Next]_arenasVars
           /\ [Mutexes!Next]_mutexesVars
<1>1. CASE UNCHANGED partsVars
  BY <1>1 DEF partsVars
<1>2. CASE part = "clock" /\ Next /\ Others("clock")
  BY <1>2 DEF Others
<1>3. CASE part = "library" /\ Library!Next /\ Others("library")
  BY <1>3 DEF Others
<1>4. CASE part = "cars" /\ Cars!Next /\ Others("cars")
  BY <1>4 DEF Others
<1>5. CASE part = "login" /\ Login!Next /\ Others("login")
  BY <1>5 DEF Others
<1>6. CASE part = "quiz" /\ Questions!Next /\ Others("quiz")
  BY <1>6 DEF Others
<1>7. CASE part = "grid" /\ Grid!Next /\ Others("grid")
  BY <1>7 DEF Others
<1>8. CASE part = "sprite" /\ Sprite!Next /\ Others("sprite")
  BY <1>8 DEF Others
<1>9. CASE part = "egg" /\ Egg!Next /\ Others("egg")
  BY <1>9 DEF Others
<1>10. CASE part = "arenas" /\ ArenaUse!Next /\ Others("arenas")
  BY <1>10 DEF Others
<1>11. CASE part = "mutexes" /\ Mutexes!Next /\ Others("mutexes")
  BY <1>11 DEF Others
<1>12. CASE part = "chunks" /\ Chunks!Next /\ Others("chunks")
  BY <1>12 DEF Others
<1> QED BY <1>1, <1>2, <1>3, <1>4, <1>5, <1>6, <1>7, <1>8, <1>9, <1>10, <1>11, <1>12 DEF PartsNext

CourseInv == LibraryInv /\ CarsInv /\ LoginInv /\ QuizInv /\ GridInv /\ SpriteInv /\ EggInv

LEMMA CourseBegin == PartsInit => CourseInv
  BY LibraryBegin, CarsBegin, LoginBegin, QuizBegin, GridBegin, SpriteBegin, EggBegin
  DEF PartsInit, CourseInv

LEMMA CourseStep ==
    ASSUME CourseInv, [PartsNext]_partsVars
    PROVE  CourseInv'
<1>1. LibraryInv'
  BY OnePart, LibraryStep DEF CourseInv
<1>2. CarsInv' /\ LoginInv'
  BY OnePart, CarsStep, LoginStep DEF CourseInv
<1>3. QuizInv' /\ GridInv'
  BY OnePart, QuizStep, GridStep DEF CourseInv
<1>4. SpriteInv' /\ EggInv'
  BY OnePart, SpriteStep, EggStep DEF CourseInv
<1> QED BY <1>1, <1>2, <1>3, <1>4 DEF CourseInv

\* The course's programs keep what they promise, with any number of books, cars, accounts,
\* questions, pictures and eggs: of a book there are never more copies than its stock, no two entries
\* share a key, the quiz goes on to another question, the grid shows the picture it counts, the score is
\* that of the eggs caught.
THEOREM CourseKept == PartsSpec => []CourseRules
<1>1. CourseInv => CourseRules
  <2> SUFFICES ASSUME CourseInv PROVE CourseRules
    OBVIOUS
  <2>1. Library!CopiesConserved /\ Questions!AnotherQuestion
    BY CopiesKept, QuizGoesOn DEF CourseInv
  <2>2. Cars!VinsUnique
    BY DEF CourseInv, CarsInv, OneEach, Cars!VinsUnique
  <2>3. Login!OnePassword /\ Grid!ShowsCurrent /\ Egg!ScoreIsCaught
    BY DEF CourseInv, LoginInv, GridInv, EggInv
  <2> QED BY <2>1, <2>2, <2>3 DEF CourseRules
<1>2. CourseInv /\ [PartsNext]_partsVars => CourseInv'
  BY CourseStep
<1> QED BY CourseBegin, <1>1, <1>2, PTL DEF PartsSpec

\* With a grid of any number of pictures and a screen of any size: a move leads to the cell beside,
\* and a tilt or a pinch keeps the square inside the margins.
THEOREM Moves == PartsSpec => MovesWithinBounds
<1>1. CourseInv /\ [PartsNext]_partsVars => CourseInv'
  BY CourseStep
<1>2. CourseInv
        /\ [PartsNext]_partsVars => [Grid!OneCellAtATime /\ Sprite!MovesIntoMargins]_<<gridVars, spriteVars>>
  BY OnePart, GridStep, SpriteStep DEF CourseInv
<1> QED BY CourseBegin, <1>1, <1>2, PTL DEF PartsSpec, MovesWithinBounds

\* While base_alloc finds room in its pages, a fork waits in no circle with any number of other
\* threads, and the child gets an allocator whose mutexes and data it can use.
THEOREM ForkIsSafe ==
    ASSUME ~BaseGrows
    PROVE  PartsSpec => []ForkSafe
<1>1. PartsInit => ForkInv
  BY ForkInit DEF PartsInit
<1>2. ForkInv /\ [PartsNext]_partsVars => ForkInv'
  BY OnePart, ForkStep, PartsAssumption DEF PartsAssumption
<1>3. ForkInv => ForkSafe
  BY NoCircle, Served, PartsAssumption DEF PartsAssumption, ForkInv, ForkSafe
<1> QED BY <1>1, <1>2, <1>3, PTL DEF PartsSpec

\* With any number of threads and arenas, as threads come, move and go, wherever an arena cannot be
\* made, and between the steps of mallctl: every arena knows its threads, the statistics count the
\* arenas there are, and their last element is the sum of those they show.
THEOREM ArenasAreCounted == PartsSpec => []ArenasCounted
<1>1. PartsInit => ArenasInv
  BY ArenasBegin DEF PartsInit
<1>2. ArenasInv /\ [PartsNext]_partsVars => ArenasInv'
  BY OnePart, ArenasStep
<1>3. ArenasInv => ArenasCounted
  BY Counted DEF ArenasCounted
<1> QED BY <1>1, <1>2, <1>3, PTL DEF PartsSpec

\* With any number of threads, any sizes and alignments and any room in the kernel and in base_pages:
\* wherever a thread drops chunks_mtx and another goes on, every mapped chunk and every node is in one
\* place, what is stored as zero is zero, and curchunks is right but for what is given up.
THEOREM ChunksAreKept == PartsSpec => []ChunksConserved
<1>1. PartsInit => ChunksInv
  BY ChunksBegin DEF PartsInit
<1>2. ChunksInv /\ [PartsNext]_partsVars => ChunksInv'
  BY OnePart, ChunksKeep
<1>3. ChunksInv => ChunksConserved
  BY ChunksAreConserved DEF ChunksConserved
<1> QED BY <1>1, <1>2, <1>3, PTL DEF PartsSpec

\* A clock that never wraps: 2^64 milliseconds are more than the server runs for.
\* Turns start WORLD_SLEEP_CONST apart on average, whatever the updates take.
THEOREM Rhythm ==
    ASSUME MaxClock <= MaxUint64
    PROVE  Spec => [](TypeOK /\ KeepsPace)
<1>1. Pace => TypeOK /\ KeepsPace
  BY DEF Pace, KeepsPace, SleepBounded, Balanced
<1>2. Pace /\ [Next]_vars => Pace'
  BY PaceStep
<1> QED BY PaceInit, <1>1, <1>2, PTL DEF Spec

LEMMA ArenasTyped ==
    ASSUME ArenasInv
    PROVE  ArenaUse!TypeOK
<1>1. \A i \in ArenaUse!Indices : arenas[i] \in Nat \union {None}
  <2>1. CASE init \in {"none", "failed"}
    BY <2>1 DEF ArenasInv, ArenaUse!Indices
  <2>2. CASE init \in {"first", "done"}
    BY <2>2, ArrayNow DEF Table, Slots
  <2> QED BY <2>1, <2>2 DEF ArenasInv
<1> QED BY <1>1 DEF ArenasInv, ArenaUse!TypeOK, Slots

\* Every part's variables stay in their sets: no number wraps, no index leaves its array.
THEOREM TypesKept ==
    ASSUME MaxClock <= MaxUint64, ~BaseGrows
    PROVE  PartsSpec => []SmallPartsTypeOK
<1> DEFINE Inv == CourseInv /\ ChunksInv /\ ArenasInv /\ Pace /\ ForkInv
<1>1. PartsInit => Inv
  BY CourseBegin, ChunksBegin, ArenasBegin, PaceInit, ForkInit DEF PartsInit
<1>2. Inv /\ [PartsNext]_partsVars => Inv'
  <2> SUFFICES ASSUME Inv, [PartsNext]_partsVars PROVE Inv'
    OBVIOUS
  <2>1. CourseInv' /\ ChunksInv' /\ ArenasInv'
    BY OnePart, CourseStep, ChunksKeep, ArenasStep
  <2>2. Pace'
    BY OnePart, PaceStep
  <2>3. ForkInv'
    BY OnePart, ForkStep, PartsAssumption DEF PartsAssumption
  <2> QED BY <2>1, <2>2, <2>3
<1>3. Inv => SmallPartsTypeOK
  <2> SUFFICES ASSUME Inv PROVE SmallPartsTypeOK
    OBVIOUS
  <2>1. TypeOK /\ Mutexes!TypeOK /\ ArenaUse!TypeOK /\ Chunks!TypeOK
    BY ArenasTyped, ChunksAreConserved DEF Pace, ForkInv
  <2>2. Library!TypeOK /\ Cars!TypeOK /\ Login!TypeOK /\ Questions!TypeOK
    BY DEF CourseInv, LibraryInv, CarsInv, LoginInv, QuizInv
  <2>3. Grid!TypeOK /\ Sprite!TypeOK /\ Egg!TypeOK
    BY DEF CourseInv, GridInv, SpriteInv, EggInv
  <2> QED BY <2>1, <2>2, <2>3 DEF SmallPartsTypeOK
<1> HIDE DEF Inv
<1> QED BY <1>1, <1>2, <1>3, PTL DEF PartsSpec
=============================================================================
