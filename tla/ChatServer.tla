----------------------------- MODULE ChatServer -----------------------------
(***************************************************************************)
(* The ShareThought chat server: the connection table, the keep-alive      *)
(* deadlines, the request handlers and the User and Contacts tables.       *)
(*                                                                         *)
(* One thread runs WorldUpdate (Server.cpp) over and over.  A call samples *)
(* the clock, accepts at most one client and walks the connection table;   *)
(* for each connection it checks the keep-alive deadline and then handles  *)
(* at most one request.  Each of these is a step here, so that clients,    *)
(* the clock and the database server may act in between.  Clients are      *)
(* arbitrary: whatever a handler may be given, it is given at some time.   *)
(***************************************************************************)
EXTENDS Naturals

CONSTANTS
    NumSlots,       \* SERVER_MAX_CONNECTIONS
    KeepAlive,      \* the 5000 ms between keep-alive deadlines
    Socks,          \* socket descriptors
    Names,          \* user names
    Passwords,      \* salted password digests
    Texts,          \* chat texts
    Tokens,         \* values of generateguid()
    OwnerNullable,  \* does the schema let Contacts.OWNER be NULL?
    None,           \* nullptr, and SQL's NULL in User.SSO
    MaxTime,        \* bound: the clock stops here
    MaxUserId,      \* bound: USER_IDs handed out
    MaxCopies       \* bound: equal rows of Contacts

Slots  == 0 .. NumSlots - 1
Ids    == 1 .. MaxUserId
NoId   == 0
Owners == Ids \union {NoId}
Pairs  == Owners \X Ids

Account == [id : Ids, name : Names]
User == [sock : Socks, endPoint : Nat, klFlagged : BOOLEAN,
         account : Account \union {None}, sso : Tokens \union {None}]
Row == [id : Ids, name : Names, pass : Passwords, sso : Tokens \union {None}]

Message ==
    [kind : {"SMSG_CONNECTED", "SMSG_KEEP_ALIVE", "SMSG_UNSUCCESSFUL_LOGIN",
             "SMSG_ACCOUNT_CREATED", "SMSG_ACCOUNT_ALREADY_EXISTS"}]
    \union [kind : {"SMSG_SUCCESSFUL_LOGIN"}, name : Names, token : Tokens]
    \union [kind : {"SMSG_SEND_CONTACTS"}, names : SUBSET Names]
    \union [kind : {"SMSG_SEND_CHAT_MESSAGE"}, from : Names, text : Texts]

ASSUME ServerAssumption ==
    /\ NumSlots \in Nat \ {0}
    /\ KeepAlive \in Nat \ {0}
    /\ MaxTime \in Nat
    /\ MaxUserId \in Nat
    /\ MaxCopies \in Nat
    /\ OwnerNullable \in BOOLEAN
    /\ None \notin User
    /\ None \notin Account
    /\ None \notin Tokens

VARIABLES
    now,        \* the steady clock, in ms
    tick,       \* currentTimeSinceEpoch: the clock as this WorldUpdate sampled it
    pc,         \* where the server's thread is ("down": no process)
    idx,        \* the loop variable i of the scan
    db,         \* SQLMGR->conn: "none" (never assigned), "down" or "up"
    conn,       \* connections[]
    link,       \* per descriptor, the far end as the server's kernel sees it
    backlog,    \* connections waiting for accept()
    leaked,     \* accepted descriptors that found the table full
    users,      \* the rows of table User
    contacts,   \* how many rows of table Contacts hold each <<OWNER, CONTACTEE>>
    nextId,     \* AUTO_INCREMENT of User.USER_ID
    sent,       \* what this step gave to send()
    heard,      \* history: when a slot was filled or last handled CMSG_KEEP_ALIVE
    probed      \* history: the tick at which a slot was last sent SMSG_KEEP_ALIVE

data == <<users, contacts, nextId>>
vars == <<now, tick, pc, idx, db, conn, link, backlog, leaked, data, sent, heard, probed>>

cur      == conn[idx]
IdsOf(n) == {r.id : r \in {u \in users : u.name = n}}

\* Mutant: the existence check sees only users who have logged in.
TakenOnceLoggedIn(n) == \E r \in users : r.name = n /\ r.sso # None
Taken(n) == \E r \in users : r.name = n
NoConnections == [i \in Slots |-> None]
-----------------------------------------------------------------------------
(* Where the thread goes next. *)

Goto(place) == pc' = place.pc /\ idx' = place.idx

\* A `return` inside a handler: the slots after idx are not looked at.
Return == [pc |-> "sleep", idx |-> 0]

\* Mutant: the loop runs one slot too far.
NextSlotPastEnd == IF idx = NumSlots THEN [pc |-> "sleep", idx |-> 0]
                                     ELSE [pc |-> "scan", idx |-> idx + 1]

\* The next turn of the scan, or the end of WorldUpdate.
NextSlot == IF idx = NumSlots - 1 THEN [pc |-> "sleep", idx |-> 0]
                                  ELSE [pc |-> "scan", idx |-> idx + 1]

\* The process ends: every descriptor is closed, the tables stay.
Die ==
    /\ pc' = "down" /\ idx' = 0
    /\ db' = "none"
    /\ conn' = NoConnections
    /\ link' = [s \in Socks |-> "none"]
    /\ backlog' = {} /\ leaked' = {}
    /\ sent' = {}

(***************************************************************************)
(* send(): the result is ignored.  The first send after the far end has    *)
(* closed is answered with a reset; a send after a reset fails, and, as    *)
(* SIGPIPE is left at its default action, may end the process.             *)
(***************************************************************************)
Deliver(s, m) ==
    /\ link' = [link EXCEPT ![s] = IF @ = "gone" THEN "reset" ELSE @]
    /\ sent' = IF link[s] = "reset" THEN {} ELSE {<<s, m>>}

\* Leave the table as given, send m to s and go on at place.
Respond(table, s, m, place) ==
    \/ /\ Deliver(s, m)
       /\ conn' = table
       /\ Goto(place)
       /\ UNCHANGED <<db, backlog, leaked>>
    \/ /\ link[s] = "reset"
       /\ Die

\* Leave the table as given, send nothing and go on at place.
Silently(table, place) ==
    /\ conn' = table
    /\ Goto(place)
    /\ sent' = {}
    /\ UNCHANGED <<link, backlog, leaked>>

\* A statement throws sql::SQLException: the handler's catch returns.  The
\* statement may have taken effect all the same.
SQLException(table) == Silently(table, Return) /\ db' = "down"
-----------------------------------------------------------------------------
(* The process, and the start of WorldUpdate. *)

\* The value of ConnectToDatabase, a bool: the failure's EXIT_FAILURE is 1.
ConnectToDatabase(connected) == IF connected THEN TRUE ELSE 1 # 0

\* main: bind, listen, an empty table; stop if ConnectToDatabase returns false.  When
\* it fails, conn has not been assigned, or setSchema has thrown.
Boot(connected) ==
    /\ pc = "down"
    /\ ConnectToDatabase(connected)
    /\ pc' = "sleep"
    /\ db' \in IF connected THEN {"up"} ELSE {"none", "down"}
    /\ sent' = {}
    /\ UNCHANGED <<now, tick, idx, conn, link, backlog, leaked, data, heard, probed>>

\* Sample the clock and check the database connection; reconnect() may fail.
Wake ==
    /\ pc = "sleep" /\ db # "none"
    /\ pc' = "accept"
    /\ tick' = now
    /\ db' \in IF db = "up" THEN {"up"} ELSE {"up", "down"}
    /\ sent' = {}
    /\ UNCHANGED <<now, idx, conn, link, backlog, leaked, data, heard, probed>>

\* The same through the unassigned pointer.
WakeWithoutConnection ==
    /\ pc = "sleep" /\ db = "none"
    /\ Die
    /\ UNCHANGED <<now, tick, data, heard, probed>>

AcceptNobody ==
    /\ pc = "accept" /\ backlog = {}
    /\ Silently(conn, [pc |-> "scan", idx |-> 0])
    /\ UNCHANGED <<now, tick, db, data, heard, probed>>

\* Mutant: the search does not look whether the slot is free.
FirstSlot(i) == i = 0

FirstFree(i) == conn[i] = None /\ \A j \in Slots : j < i => conn[j] # None

\* The first free slot gets a new User; its deadline counts from a fresh
\* reading of the clock.
AcceptClient(s, i) ==
    /\ pc = "accept" /\ s \in backlog
    /\ FirstFree(i)
    /\ \/ /\ Deliver(s, [kind |-> "SMSG_CONNECTED"])
          /\ conn' = [conn EXCEPT ![i] =
                        [sock |-> s, endPoint |-> now + KeepAlive, klFlagged |-> FALSE,
                         account |-> None, sso |-> None]]
          /\ backlog' = backlog \ {s}
          /\ Goto([pc |-> "scan", idx |-> 0])
          /\ UNCHANGED <<db, leaked>>
       \/ /\ link[s] = "reset"
          /\ Die
    /\ heard' = [heard EXCEPT ![i] = now]
    /\ UNCHANGED <<now, tick, data, probed>>

\* No free slot: the descriptor is neither stored nor closed.
AcceptIntoFullTable(s) ==
    /\ pc = "accept" /\ s \in backlog
    /\ \A i \in Slots : conn[i] # None
    /\ backlog' = backlog \ {s}
    /\ leaked' = leaked \union {s}
    /\ Goto([pc |-> "scan", idx |-> 0])
    /\ sent' = {}
    /\ UNCHANGED <<now, tick, db, conn, link, data, heard, probed>>
-----------------------------------------------------------------------------
(* The scan: the keep-alive check of one slot. *)

SkipFreeSlot ==
    /\ pc = "scan" /\ cur = None
    /\ Silently(conn, NextSlot)
    /\ UNCHANGED <<now, tick, db, data, heard, probed>>

\* Mutant: a connection with its probe out is not looked at again.
DueOnce == tick >= cur.endPoint /\ ~cur.klFlagged

\* Mutant: a deadline that falls on the tick is not seen.
DueLate == tick > cur.endPoint
Due == tick >= cur.endPoint

\* Mutant: a probe does not move the deadline.
SameDeadline == cur.endPoint
NextDeadline == tick + KeepAlive

NotDue ==
    /\ pc = "scan" /\ cur # None /\ ~Due
    /\ Silently(conn, [pc |-> "recv", idx |-> idx])
    /\ UNCHANGED <<now, tick, db, data, heard, probed>>

Probe ==
    /\ pc = "scan" /\ cur # None /\ Due /\ ~cur.klFlagged
    /\ Respond([conn EXCEPT ![idx].klFlagged = TRUE, ![idx].endPoint = NextDeadline],
               cur.sock, [kind |-> "SMSG_KEEP_ALIVE"], [pc |-> "recv", idx |-> idx])
    /\ probed' = [probed EXCEPT ![idx] = tick]
    /\ UNCHANGED <<now, tick, data, heard>>

Reap ==
    /\ pc = "scan" /\ cur # None /\ Due /\ cur.klFlagged
    /\ conn' = [conn EXCEPT ![idx] = None]
    /\ link' = [link EXCEPT ![cur.sock] = "none"]
    /\ Goto(NextSlot)
    /\ sent' = {}
    /\ UNCHANGED <<now, tick, db, backlog, leaked, data, heard, probed>>
-----------------------------------------------------------------------------
(* The scan: recv() and the handlers. *)

\* recv() gave a packet: one may be left to read when the far end has closed.
Receives == pc = "recv" /\ link[cur.sock] # "reset"
LoggedIn == cur.account # None

\* recv() gave nothing (no data, end of stream or an error), or opcode 0, an
\* unknown opcode or a request the session's state rules out.
Ignore ==
    /\ pc = "recv"
    /\ Silently(conn, NextSlot)
    /\ UNCHANGED <<now, tick, db, data, heard, probed>>

CMSG_KEEP_ALIVE ==
    /\ Receives
    /\ Silently([conn EXCEPT ![idx].klFlagged = FALSE], NextSlot)
    /\ heard' = [heard EXCEPT ![idx] = tick]
    /\ UNCHANGED <<now, tick, db, data, probed>>

CMSG_REGISTER(n, p) ==
    LET Insert == /\ nextId \in Ids
                  /\ users' = users \union
                       {[id |-> nextId, name |-> n, pass |-> p, sso |-> None]}
                  /\ nextId' = nextId + 1
                  /\ UNCHANGED contacts
    IN
    /\ Receives /\ ~LoggedIn
    /\ \/ SQLException(conn) /\ UNCHANGED data
       \/ /\ db = "up" /\ Taken(n)
          /\ Respond(conn, cur.sock, [kind |-> "SMSG_ACCOUNT_ALREADY_EXISTS"], Return)
          /\ UNCHANGED data
       \/ /\ db = "up" /\ ~Taken(n)
          /\ Insert
          /\ \/ SQLException(conn)
             \/ Respond(conn, cur.sock, [kind |-> "SMSG_ACCOUNT_CREATED"], NextSlot)
    /\ UNCHANGED <<now, tick, heard, probed>>

\* The account is stored in the table before the UPDATE of the SSO token.
CMSG_LOGIN(n, p) ==
    LET Match == {r \in users : r.name = n /\ r.pass = p}
        Update(r, t) == /\ users' = (users \ {r}) \union {[r EXCEPT !.sso = t]}
                        /\ UNCHANGED <<contacts, nextId>>
        Session(r, t) == [conn EXCEPT ![idx].account = [id |-> r.id, name |-> r.name],
                                      ![idx].sso = t]
    IN
    /\ Receives /\ ~LoggedIn
    /\ \/ SQLException(conn) /\ UNCHANGED data
       \/ /\ db = "up" /\ Match = {}
          /\ Respond(conn, cur.sock, [kind |-> "SMSG_UNSUCCESSFUL_LOGIN"], Return)
          /\ UNCHANGED data
       \/ /\ db = "up"
          /\ \E r \in Match, t \in Tokens :
               \/ SQLException(Session(r, t)) /\ (UNCHANGED data \/ Update(r, t))
               \/ /\ Update(r, t)
                  /\ Respond(Session(r, t), cur.sock,
                             [kind |-> "SMSG_SUCCESSFUL_LOGIN", name |-> n, token |-> t],
                             Return)
    /\ UNCHANGED <<now, tick, heard, probed>>

CMSG_LOGOUT ==
    /\ Receives
    /\ Silently([conn EXCEPT ![idx].account = None], NextSlot)
    /\ UNCHANGED <<now, tick, db, data, heard, probed>>

\* Asked by the USER_ID cached at login.
CMSG_GRAB_CONTACTS ==
    LET Contactees == {r \in users : contacts[<<cur.account.id, r.id>>] > 0}
    IN
    /\ Receives /\ LoggedIn
    /\ \/ SQLException(conn)
       \/ /\ db = "up"
          /\ Respond(conn, cur.sock,
                     [kind |-> "SMSG_SEND_CONTACTS", names |-> {r.name : r \in Contactees}],
                     NextSlot)
    /\ UNCHANGED <<now, tick, data, heard, probed>>

\* Mutant: the user goes first, the contacts after.
DeletedUserFirst(k, ids) ==
    /\ contacts' = [x \in Pairs |-> IF \/ k >= 2 /\ x[1] \in ids
                                       \/ k >= 3 /\ x[2] \in ids
                                    THEN 0 ELSE contacts[x]]
    /\ users' = IF k >= 1 THEN {r \in users : r.id \notin ids} ELSE users
    /\ UNCHANGED nextId

\* Mutant: a deleted user's id is handed out again.
DeletedReusingIds(k, ids) ==
    /\ contacts' = [x \in Pairs |-> IF k >= 1 /\ (x[1] \in ids \/ x[2] \in ids)
                                    THEN 0 ELSE contacts[x]]
    /\ users' = IF k >= 3 THEN {r \in users : r.id \notin ids} ELSE users
    /\ nextId' = IF k >= 3 /\ nextId - 1 \in ids THEN nextId - 1 ELSE nextId

\* The tables once the first k of the three DELETEs have been executed.
Deleted(k, ids) ==
    /\ contacts' = [x \in Pairs |-> IF \/ k >= 1 /\ x[1] \in ids
                                       \/ k >= 2 /\ x[2] \in ids
                                    THEN 0 ELSE contacts[x]]
    /\ users' = IF k >= 3 THEN {r \in users : r.id \notin ids} ELSE users
    /\ UNCHANGED nextId

\* Three statements without a transaction.
CMSG_DELETE_ACCOUNT ==
    /\ Receives /\ LoggedIn
    /\ \/ \E k \in 0 .. 3 :
            /\ k > 0 => db = "up"
            /\ Deleted(k, IdsOf(cur.account.name))
            /\ SQLException(conn)
       \/ /\ db = "up"
          /\ Deleted(3, IdsOf(cur.account.name))
          /\ Silently([conn EXCEPT ![idx].account = None], NextSlot)
          /\ UNCHANGED db
    /\ UNCHANGED <<now, tick, heard, probed>>

\* Mutant: the join takes every user for the owner.
EveryOwner(n) == {r.id : r \in users}

\* The two user names are looked up afresh.  The INSERT's LEFT JOIN gives a
\* NULL owner when the session's own user is no longer there.
OwnersOf(n) == IF Taken(n) THEN IdsOf(n) ELSE {NoId}

\* Mutant: any owner's row of the contact will do.
AnyRowsOf(n, f) == Ids \X IdsOf(f)
RowsOf(n, f) == IdsOf(n) \X IdsOf(f)

\* Mutant: owner and contactee the wrong way round.
AreContactsReversed(n, f) == \E x \in RowsOf(f, n) : contacts[x] > 0
AreContacts(n, f) == \E x \in RowsOf(n, f) : contacts[x] > 0

CMSG_ADD_CONTACT(f) ==
    LET me == cur.account.name
        new == OwnersOf(me) \X IdsOf(f)
        Insert == /\ OwnerNullable \/ Taken(me)
                  /\ \A x \in new : contacts[x] < MaxCopies
                  /\ contacts' = [x \in Pairs |-> IF x \in new THEN contacts[x] + 1
                                                               ELSE contacts[x]]
                  /\ UNCHANGED <<users, nextId>>
    IN
    /\ Receives /\ LoggedIn
    /\ \/ SQLException(conn) /\ UNCHANGED data
       \/ /\ db = "up" /\ Taken(f) /\ ~AreContacts(me, f)
          /\ Insert
          /\ \/ SQLException(conn)
             \/ Silently(conn, NextSlot) /\ UNCHANGED db
    /\ UNCHANGED <<now, tick, heard, probed>>

CMSG_DELETE_CONTACT(f) ==
    LET me == cur.account.name
        Delete == /\ contacts' = [x \in Pairs |-> IF x \in RowsOf(me, f) THEN 0
                                                                         ELSE contacts[x]]
                  /\ UNCHANGED <<users, nextId>>
    IN
    /\ Receives /\ LoggedIn
    /\ \/ SQLException(conn) /\ UNCHANGED data
       \/ /\ db = "up" /\ AreContacts(me, f)
          /\ Delete
          /\ \/ SQLException(conn)
             \/ Silently(conn, NextSlot) /\ UNCHANGED db
    /\ UNCHANGED <<now, tick, heard, probed>>

\* Slot i holds a session of user n.
SessionOf(i, n) == conn[i] # None /\ conn[i].account # None /\ conn[i].account.name = n

\* Mutant: the search does not end at the first match.
LastSession(i, n) == SessionOf(i, n) /\ \A j \in Slots : j > i => ~SessionOf(j, n)
FirstSession(i, n) == SessionOf(i, n) /\ \A j \in Slots : j < i => ~SessionOf(j, n)

CMSG_SEND_CHAT_MESSAGE(to, text) ==
    /\ Receives /\ LoggedIn
    /\ \E j \in Slots :
         /\ FirstSession(j, to)
         /\ Respond(conn, conn[j].sock,
                    [kind |-> "SMSG_SEND_CHAT_MESSAGE", from |-> cur.account.name,
                     text |-> text], NextSlot)
    /\ UNCHANGED <<now, tick, data, heard, probed>>
-----------------------------------------------------------------------------
(* Clients and the clock. *)

Connect(s) ==
    /\ pc # "down" /\ link[s] = "none"
    /\ link' = [link EXCEPT ![s] = "open"]
    /\ backlog' = backlog \union {s}
    /\ sent' = {}
    /\ UNCHANGED <<now, tick, pc, idx, db, conn, leaked, data, heard, probed>>

\* The far end closes, in order ("gone") or with a reset.
PeerCloses(s) ==
    /\ link[s] = "open"
    /\ \E how \in {"gone", "reset"} : link' = [link EXCEPT ![s] = how]
    /\ sent' = {}
    /\ UNCHANGED <<now, tick, pc, idx, db, conn, backlog, leaked, data, heard, probed>>

Elapse ==
    /\ now < MaxTime
    /\ now' = now + 1
    /\ sent' = {}
    /\ UNCHANGED <<tick, pc, idx, db, conn, link, backlog, leaked, data, heard, probed>>
-----------------------------------------------------------------------------
Init ==
    /\ now = 0 /\ tick = 0
    /\ pc = "down" /\ idx = 0
    /\ db = "none"
    /\ conn = NoConnections
    /\ link = [s \in Socks |-> "none"]
    /\ backlog = {} /\ leaked = {}
    /\ users = {}
    /\ contacts = [x \in Pairs |-> 0]
    /\ nextId = 1
    /\ sent = {}
    /\ heard = [i \in Slots |-> 0] /\ probed = [i \in Slots |-> 0]

Accept == \/ AcceptNobody
          \/ \E s \in Socks : AcceptIntoFullTable(s)
          \/ \E s \in Socks, i \in Slots : AcceptClient(s, i)

CheckKeepAlive == SkipFreeSlot \/ NotDue \/ Probe \/ Reap

Handle ==
    \/ Ignore
    \/ CMSG_KEEP_ALIVE
    \/ \E n \in Names, p \in Passwords : CMSG_REGISTER(n, p) \/ CMSG_LOGIN(n, p)
    \/ CMSG_LOGOUT
    \/ CMSG_GRAB_CONTACTS
    \/ CMSG_DELETE_ACCOUNT
    \/ \E f \in Names : CMSG_ADD_CONTACT(f) \/ CMSG_DELETE_CONTACT(f)
    \/ \E to \in Names, text \in Texts : CMSG_SEND_CHAT_MESSAGE(to, text)

WorldUpdate == Wake \/ WakeWithoutConnection \/ Accept \/ CheckKeepAlive \/ Handle

Environment == Elapse \/ \E s \in Socks : Connect(s) \/ PeerCloses(s)

Next == (\E connected \in BOOLEAN : Boot(connected)) \/ WorldUpdate \/ Environment

Spec == Init /\ [][Next]_vars
-----------------------------------------------------------------------------
(* What holds of the connection table. *)

TypeOK ==
    /\ now \in Nat /\ tick \in Nat
    /\ pc \in {"down", "sleep", "accept", "scan", "recv"}
    /\ idx \in Slots
    /\ db \in {"none", "down", "up"}
    /\ conn \in [Slots -> User \union {None}]
    /\ link \in [Socks -> {"none", "open", "gone", "reset"}]
    /\ backlog \subseteq Socks
    /\ leaked \subseteq Socks
    /\ users \subseteq Row
    /\ contacts \in [Pairs -> Nat]
    /\ nextId \in Nat \ {0}
    /\ sent \subseteq Socks \X Message
    /\ heard \in [Slots -> Nat] /\ probed \in [Slots -> Nat]

Used == {i \in Slots : conn[i] # None}

\* Every open descriptor is in exactly one place: one slot of the table, the
\* accept queue, or the descriptors accepted into a full table.
SocketsAccountedFor ==
    /\ \A i, j \in Used : conn[i].sock = conn[j].sock => i = j
    /\ \A i \in Used : conn[i].sock \notin backlog \union leaked
    /\ backlog \intersect leaked = {}
    /\ \A s \in Socks : link[s] # "none" <=>
          s \in backlog \union leaked \union {conn[i].sock : i \in Used}

\* The slots this scan has passed have deadlines in the future of its tick, the
\* one whose recv() is under way too: none was overlooked or left overdue.
ScannedAreCurrent ==
    /\ pc \in {"scan", "recv"} => \A j \in Used : j < idx => tick < conn[j].endPoint
    /\ pc = "recv" => idx \in Used /\ tick < cur.endPoint

\* The server closes a connection only after a probe that was sent since the connection
\* was accepted or last answered, and a whole KeepAlive after it, by the ticks of the two
\* calls: no answer restarts an old deadline, and no deadline is left from before the probe.
ClosedOnlyAfterSilence ==
    [][\A i \in Slots : i \in Used /\ conn'[i] = None /\ pc' # "down"
                       => probed[i] > heard[i] /\ tick >= probed[i] + KeepAlive]_vars
-----------------------------------------------------------------------------
(* What holds of the tables and the sessions. *)

\* Registration never gives one name to two users, nor one USER_ID; the database
\* is asked for no such constraint, the handler's SELECT alone ensures it.
UniqueUsers ==
    \A r, q \in users : r.id = q.id \/ r.name = q.name => r = q

\* A contact row names existing users, or a NULL owner, whatever statement of an
\* account's deletion failed.
NoDanglingContacts ==
    \A x \in Pairs : contacts[x] > 0 =>
        /\ \E r \in users : r.id = x[2]
        /\ x[1] # NoId => \E r \in users : r.id = x[1]

\* Nobody has the same contact twice (rows without an owner are not looked up, so
\* those may pile up).
NoDuplicateContacts ==
    \A x \in Pairs : x[1] # NoId => contacts[x] <= 1

\* The account a session caches is the user of that USER_ID or a deleted one; it
\* never becomes somebody else's, however long the session outlives the row.
SessionIdentity ==
    \A i \in Used : conn[i].account # None =>
        /\ conn[i].account.id < nextId
        /\ \A r \in users : r.id = conn[i].account.id => r.name = conn[i].account.name

\* The ids whose rows the handler under way may change: the account its session caches,
\* as long as there is one of that id, and then whoever has registered that name again.
OwnOrNamesakes ==
    IF pc # "recv" \/ ~LoggedIn THEN {}
    ELSE IF \E r \in users : r.id = cur.account.id THEN {cur.account.id}
    ELSE IdsOf(cur.account.name)

\* A session changes only its own account's rows as long as that account exists, and
\* only those of the account that has taken its name once it does not (which the code
\* lets happen: OnlyOwnAccountDeleted): a contact row as its owner, or when it goes as its
\* contactee; a user row by deleting it.  Otherwise a user row changes only in its token,
\* by the login that makes its slot a session of that user, and rows come by registration.
OnlyOwnOrNamesakesRowsChange ==
    [][/\ \A x \in Pairs :
            /\ contacts'[x] > contacts[x] => x[1] \in OwnOrNamesakes \union {NoId}
            /\ contacts'[x] < contacts[x] => {x[1], x[2]} \intersect OwnOrNamesakes # {}
       /\ \A r \in users \ users' :
            \/ r.id \in OwnOrNamesakes /\ \A q \in users' : q.id # r.id
            \/ /\ pc = "recv" /\ ~LoggedIn
               /\ \E t \in Tokens : [r EXCEPT !.sso = t] \in users'
               /\ pc' = "down" \/ conn'[idx].account = [id |-> r.id, name |-> r.name]
       /\ \A q \in users' \ users :
            q.id = nextId \/ \E r \in users \ users' : q = [r EXCEPT !.sso = q.sso]]_vars

\* What a client is told is so: a login reply names the session the slot now holds
\* and the token now stored; a chat message reaches a session of another or the
\* same user only through the lowest slot that user is logged in on.
RepliesMatchSessions ==
    [][\A m \in sent' :
         /\ m[2].kind = "SMSG_SUCCESSFUL_LOGIN" =>
              /\ conn'[idx].account.name = m[2].name
              /\ \E r \in users' : /\ r.id = conn'[idx].account.id
                                   /\ r.name = m[2].name /\ r.sso = m[2].token
         /\ m[2].kind = "SMSG_SEND_CHAT_MESSAGE" =>
              /\ cur.account.name = m[2].from
              /\ \E j \in Used : /\ conn[j].sock = m[1] /\ conn[j].account # None
                                /\ \A k \in Used : SessionOf(k, conn[j].account.name) => k >= j]_vars

\* The tables of names and ids, changed statement by statement, implement the
\* directory of names: nobody inherits the contacts of a deleted account's name, and
\* nothing but the named pair comes or goes.
NameOf(id) == (CHOOSE r \in users : r.id = id).name
Present == {r.id : r \in users}

Dir == INSTANCE Directory WITH
    accounts <- {r.name : r \in users},
    friends  <- {<<NameOf(x[1]), NameOf(x[2])>> :
                   x \in {y \in Present \X Present : contacts[y] > 0}}

ImplementsDirectory == Dir!Spec
-----------------------------------------------------------------------------
(* What keeps happening, and what the code was meant to ensure and does not. *)

Overdue(i) == i \in Used /\ conn[i].klFlagged /\ now >= conn[i].endPoint

\* A connection whose probe has gone unanswered for KeepAlive is closed, unless an
\* answer still gets through.
OverdueReaped == \A i \in Slots : Overdue(i) ~> ~Overdue(i)

\* Every connection is polled for requests again and again, although a login or a
\* registration ends the scan before the slots after it: what ends the scans cannot
\* do so for ever without either answering probes or being closed.
EverySlotPolled == \A i \in Slots : i \in Used ~> i \notin Used \/ (pc = "recv" /\ idx = i)

\* Server.cpp:136 and :173, "Check Keep Alives" and "Check if there is any data to
\* receive from": a call of WorldUpdate leaves no connection past its deadline.  Not
\* so: a handler's `return` leaves the slots after it unchecked.
NoneOverdueAfterScan == pc = "sleep" => \A i \in Used : tick < conn[i].endPoint

\* ProfileViewController.m:93, "You are about to delete your account, are you SURE you
\* want to do this?": the user a session deletes is the one it logged in as.  Not so: a
\* session that has outlived its account deletes the one that has its name now.
OnlyOwnAccountDeleted ==
    [][pc = "recv" /\ LoggedIn =>
          \A r \in users : (\A q \in users' : q.id # r.id) => r.id = cur.account.id]_vars

\* Server.cpp:91: main stops when it cannot connect to the database.  Not so: it
\* enters the loop with no connection object.
MainStopsWithoutDatabase == pc # "down" => db # "none"
=============================================================================
