-------------------------- MODULE ChatServerProofs --------------------------
(***************************************************************************)
(* What the chat server guarantees, for every number of slots, clients,    *)
(* users and names: type correctness, then its connection table, then its  *)
(* tables of users and contacts and its sessions.                          *)
(***************************************************************************)
EXTENDS ChatServer, TLAPS

Places == [pc : {"down", "sleep", "accept", "scan", "recv"}, idx : Slots]

\* The part of TypeOK that Respond, Silently and Die decide.
NetOK ==
    /\ pc \in {"down", "sleep", "accept", "scan", "recv"}
    /\ idx \in Slots
    /\ db \in {"none", "down", "up"}
    /\ conn \in [Slots -> User \union {None}]
    /\ link \in [Socks -> {"none", "open", "gone", "reset"}]
    /\ backlog \subseteq Socks
    /\ leaked \subseteq Socks
    /\ sent \subseteq Socks \X Message

Tables == [Slots -> User \union {None}]

LEMMA FirstSlotExists == 0 \in Slots
  BY ServerAssumption DEF ServerAssumption, Slots

LEMMA PlacesOK ==
    ASSUME TypeOK
    PROVE  /\ NextSlot \in Places
           /\ Return \in Places
           /\ [pc |-> "recv", idx |-> idx] \in Places
           /\ [pc |-> "scan", idx |-> 0] \in Places
<1>1. idx + 1 \in Slots \/ idx = NumSlots - 1
  BY ServerAssumption DEF ServerAssumption, Slots, TypeOK
<1>2. QED
  BY <1>1, FirstSlotExists DEF NextSlot, Return, Places, TypeOK

LEMMA DieOK == Die => NetOK'
  BY FirstSlotExists DEF Die, NetOK, NoConnections

LEMMA RespondOK ==
    ASSUME TypeOK, NEW table \in Tables, NEW s \in Socks, NEW m \in Message,
           NEW place \in Places, Respond(table, s, m, place)
    PROVE  NetOK'
<1>1. CASE Die
  BY <1>1, DieOK
<1>2. CASE Deliver(s, m) /\ conn' = table /\ Goto(place) /\ UNCHANGED <<db, backlog, leaked>>
  BY <1>2 DEF Deliver, Goto, Places, Tables, NetOK, TypeOK
<1>3. QED
  BY <1>1, <1>2 DEF Respond

LEMMA SilentlyOK ==
    ASSUME TypeOK, NEW table \in Tables, NEW place \in Places, Silently(table, place),
           db' \in {"none", "down", "up"}
    PROVE  NetOK'
  BY DEF Silently, Goto, Places, Tables, NetOK, TypeOK

\* What a handler may leave in the current slot.
LEMMA TableUpdate ==
    ASSUME TypeOK, NEW u \in User
    PROVE  /\ [conn EXCEPT ![idx] = u] \in Tables
           /\ conn \in Tables
  BY DEF TypeOK, Tables

LEMMA MessagesOK ==
    /\ [kind |-> "SMSG_CONNECTED"] \in Message
    /\ [kind |-> "SMSG_KEEP_ALIVE"] \in Message
    /\ [kind |-> "SMSG_UNSUCCESSFUL_LOGIN"] \in Message
    /\ [kind |-> "SMSG_ACCOUNT_CREATED"] \in Message
    /\ [kind |-> "SMSG_ACCOUNT_ALREADY_EXISTS"] \in Message
    /\ \A n \in Names, t \in Tokens :
         [kind |-> "SMSG_SUCCESSFUL_LOGIN", name |-> n, token |-> t] \in Message
    /\ \A S \in SUBSET Names : [kind |-> "SMSG_SEND_CONTACTS", names |-> S] \in Message
    /\ \A n \in Names, text \in Texts :
         [kind |-> "SMSG_SEND_CHAT_MESSAGE", from |-> n, text |-> text] \in Message
  BY DEF Message

-----------------------------------------------------------------------------
(* Type correctness, action by action. *)

LEMMA RebootTypes ==
    ASSUME TypeOK, (\E connected \in BOOLEAN : Boot(connected)) \/ Wake \/ WakeWithoutConnection
    PROVE  TypeOK'
<1>1. ASSUME NEW connected \in BOOLEAN, Boot(connected)
      PROVE  TypeOK'
  BY <1>1 DEF Boot, TypeOK, data
<1>2. CASE Wake
  BY <1>2 DEF Wake, TypeOK, data
<1>3. CASE WakeWithoutConnection
  BY <1>3, DieOK DEF WakeWithoutConnection, TypeOK, NetOK, data
<1>4. QED
  BY <1>1, <1>2, <1>3

LEMMA AcceptTypes ==
    ASSUME TypeOK, Accept
    PROVE  TypeOK'
<1> USE PlacesOK, MessagesOK, FirstSlotExists
<1>1. CASE AcceptNobody
  BY <1>1, SilentlyOK, conn \in Tables DEF AcceptNobody, TypeOK, NetOK, Tables, data
<1>2. ASSUME NEW s \in Socks, AcceptIntoFullTable(s)
      PROVE  TypeOK'
  BY <1>2 DEF AcceptIntoFullTable, Goto, TypeOK, data
<1>3. ASSUME NEW s \in Socks, NEW i \in Slots, AcceptClient(s, i)
      PROVE  TypeOK'
  <2>1. heard' \in [Slots -> Nat] /\ UNCHANGED <<now, tick, data, probed>>
    BY <1>3 DEF AcceptClient, TypeOK
  <2>2. CASE Die
    BY <2>1, <2>2, DieOK DEF TypeOK, NetOK, data
  <2>3. CASE ~Die
    <3> DEFINE u == [sock |-> s, endPoint |-> now + KeepAlive, klFlagged |-> FALSE,
                     account |-> None, sso |-> None]
    <3>1. u \in User
      BY ServerAssumption DEF ServerAssumption, User, TypeOK
    <3>2. conn' = [conn EXCEPT ![i] = u] /\ backlog' \subseteq backlog
      BY <1>3, <2>3 DEF AcceptClient
    <3> HIDE DEF u
    <3>3. conn' \in [Slots -> User \union {None}] /\ backlog' \subseteq Socks
      BY <3>1, <3>2 DEF TypeOK
    <3>4. /\ link' \in [Socks -> {"none", "open", "gone", "reset"}]
          /\ sent' \subseteq Socks \X Message
          /\ pc' = "scan" /\ idx' = 0
          /\ UNCHANGED <<db, leaked>>
      BY <1>3, <2>3 DEF AcceptClient, Deliver, Goto, TypeOK
    <3>5. QED
      BY <2>1, <3>3, <3>4 DEF TypeOK, data
  <2>4. QED
    BY <2>2, <2>3
<1>4. QED
  BY <1>1, <1>2, <1>3 DEF Accept

LEMMA ProbeDeadline ==
    ASSUME TypeOK, NEW u \in User
    PROVE  [u EXCEPT !.klFlagged = TRUE, !.endPoint = NextDeadline] \in User
<1> DEFINE v == [u EXCEPT !.klFlagged = TRUE]
<1>1. v \in User
  BY DEF User
<1>2. NextDeadline \in Nat
  BY ServerAssumption DEF ServerAssumption, NextDeadline, TypeOK
<1>3. [v EXCEPT !.endPoint = NextDeadline] \in User
  BY <1>1, <1>2 DEF User
<1>4. QED
  BY <1>3

LEMMA KeepAliveTypes ==
    ASSUME TypeOK, CheckKeepAlive
    PROVE  TypeOK'
<1> USE PlacesOK, MessagesOK
<1>1. conn \in Tables /\ cur \in User \union {None}
  BY DEF TypeOK, Tables, cur
<1>2. CASE SkipFreeSlot \/ NotDue
  BY <1>1, <1>2, SilentlyOK DEF SkipFreeSlot, NotDue, TypeOK, NetOK, data
<1>3. CASE Probe
  <2> DEFINE table == [conn EXCEPT ![idx].klFlagged = TRUE, ![idx].endPoint = NextDeadline]
  <2>1. cur \in User /\ cur.sock \in Socks
    BY <1>1, <1>3 DEF Probe, User
  <2>2. table = [conn EXCEPT ![idx] = [cur EXCEPT !.klFlagged = TRUE, !.endPoint = NextDeadline]]
    BY DEF TypeOK, cur
  <2>3. table \in Tables
    BY <2>1, <2>2, ProbeDeadline, TableUpdate
  <2>4. Respond(table, cur.sock, [kind |-> "SMSG_KEEP_ALIVE"], [pc |-> "recv", idx |-> idx])
    BY <1>3 DEF Probe
  <2> HIDE DEF table
  <2>5. NetOK'
    BY <2>1, <2>3, <2>4, RespondOK
  <2>6. probed' \in [Slots -> Nat]
    BY <1>3 DEF Probe, TypeOK
  <2>7. QED
    BY <1>3, <2>5, <2>6 DEF Probe, TypeOK, NetOK, data
<1>4. CASE Reap
  <2>1. NextSlot.pc \in {"down", "sleep", "accept", "scan", "recv"} /\ NextSlot.idx \in Slots
    BY DEF Places
  <2>2. QED
    BY <1>4, <2>1 DEF Reap, Goto, TypeOK, data
<1>5. QED
  BY <1>2, <1>3, <1>4 DEF CheckKeepAlive

-----------------------------------------------------------------------------
(* Type correctness of the handlers, which rely on a slot that is in use.  *)

RecvOccupied == pc = "recv" => cur # None

\* What the handlers put into the current slot.
LEMMA SlotUpdates ==
    ASSUME TypeOK, cur # None
    PROVE  /\ cur \in User /\ cur.sock \in Socks
           /\ LoggedIn => cur.account \in Account
           /\ [conn EXCEPT ![idx].klFlagged = FALSE] \in Tables
           /\ [conn EXCEPT ![idx].account = None] \in Tables
           /\ \A a \in Account, t \in Tokens :
                [conn EXCEPT ![idx].account = a, ![idx].sso = t] \in Tables
<1>1. cur \in User /\ cur.sock \in Socks /\ (LoggedIn => cur.account \in Account)
  BY DEF TypeOK, cur, User, LoggedIn
<1>2. /\ [cur EXCEPT !.klFlagged = FALSE] \in User
      /\ [cur EXCEPT !.account = None] \in User
  BY <1>1 DEF User
<1>3. /\ [conn EXCEPT ![idx] = [cur EXCEPT !.klFlagged = FALSE]] \in Tables
      /\ [conn EXCEPT ![idx] = [cur EXCEPT !.account = None]] \in Tables
  BY <1>2, TableUpdate
<1>4. /\ [conn EXCEPT ![idx].klFlagged = FALSE] \in Tables
      /\ [conn EXCEPT ![idx].account = None] \in Tables
  BY <1>3 DEF cur
<1>5. ASSUME NEW a \in Account, NEW t \in Tokens
      PROVE  [conn EXCEPT ![idx].account = a, ![idx].sso = t] \in Tables
  <2> DEFINE v == [cur EXCEPT !.account = a]
  <2>1. v \in User
    BY <1>1 DEF User
  <2>2. [v EXCEPT !.sso = t] \in User
    BY <2>1 DEF User
  <2>3. [conn EXCEPT ![idx] = [cur EXCEPT !.account = a, !.sso = t]] \in Tables
    BY <2>2, TableUpdate
  <2>4. [conn EXCEPT ![idx].account = a, ![idx].sso = t]
          = [conn EXCEPT ![idx] = [cur EXCEPT !.account = a, !.sso = t]]
    BY DEF TypeOK, cur
  <2>5. QED
    BY <2>3, <2>4
<1>6. QED
  BY <1>1, <1>4, <1>5

\* The handlers of the requests that leave the tables of the database alone.
LEMMA SessionTypes ==
    ASSUME TypeOK, RecvOccupied,
           \/ Ignore \/ CMSG_KEEP_ALIVE \/ CMSG_LOGOUT \/ CMSG_GRAB_CONTACTS
           \/ \E to \in Names, text \in Texts : CMSG_SEND_CHAT_MESSAGE(to, text)
    PROVE  TypeOK'
<1> USE PlacesOK, MessagesOK
<1>1. cur # None /\ conn \in Tables
  BY DEF RecvOccupied, Ignore, CMSG_KEEP_ALIVE, CMSG_LOGOUT, CMSG_GRAB_CONTACTS,
         CMSG_SEND_CHAT_MESSAGE, Receives, TypeOK, Tables
<1>2. CASE Ignore
  <2>1. NetOK'
    BY <1>1, <1>2, SilentlyOK DEF Ignore, TypeOK
  <2>2. QED
    BY <1>2, <2>1 DEF Ignore, TypeOK, NetOK, data
<1>3. CASE CMSG_KEEP_ALIVE
  <2>1. NetOK'
    BY <1>1, <1>3, SilentlyOK, SlotUpdates DEF CMSG_KEEP_ALIVE, TypeOK
  <2>2. QED
    BY <1>3, <2>1 DEF CMSG_KEEP_ALIVE, TypeOK, NetOK, data
<1>4. CASE CMSG_LOGOUT
  <2>1. NetOK'
    BY <1>1, <1>4, SilentlyOK, SlotUpdates DEF CMSG_LOGOUT, TypeOK
  <2>2. QED
    BY <1>4, <2>1 DEF CMSG_LOGOUT, TypeOK, NetOK, data
<1>5. CASE CMSG_GRAB_CONTACTS
  <2> DEFINE names == {r.name : r \in {q \in users : contacts[<<cur.account.id, q.id>>] > 0}}
  <2>1. names \in SUBSET Names
    <3>1. \A r \in users : r.name \in Names
      BY DEF TypeOK, Row
    <3>2. QED
      BY <3>1
  <2>2. \/ SQLException(conn)
        \/ Respond(conn, cur.sock, [kind |-> "SMSG_SEND_CONTACTS", names |-> names], NextSlot)
    BY <1>5 DEF CMSG_GRAB_CONTACTS
  <2> HIDE DEF names
  <2>3. [kind |-> "SMSG_SEND_CONTACTS", names |-> names] \in Message
    BY <2>1
  <2>4. NetOK'
    BY <1>1, <2>2, <2>3, RespondOK, SilentlyOK, SlotUpdates DEF SQLException
  <2>5. QED
    BY <1>5, <2>4 DEF CMSG_GRAB_CONTACTS, TypeOK, NetOK, data
<1>6. ASSUME NEW to \in Names, NEW text \in Texts, CMSG_SEND_CHAT_MESSAGE(to, text)
      PROVE  TypeOK'
  <2>1. PICK j \in Slots :
          /\ FirstSession(j, to)
          /\ Respond(conn, conn[j].sock,
                     [kind |-> "SMSG_SEND_CHAT_MESSAGE", from |-> cur.account.name,
                      text |-> text], NextSlot)
    BY <1>6 DEF CMSG_SEND_CHAT_MESSAGE
  <2>2. conn[j].sock \in Socks
    BY <2>1 DEF FirstSession, SessionOf, TypeOK, User
  <2>3. cur.account.name \in Names
    BY <1>1, <1>6, SlotUpdates DEF CMSG_SEND_CHAT_MESSAGE, Account
  <2>4. NetOK'
    BY <1>1, <2>1, <2>2, <2>3, RespondOK
  <2>5. QED
    BY <1>6, <2>4 DEF CMSG_SEND_CHAT_MESSAGE, TypeOK, NetOK, data
<1>7. QED
  BY <1>2, <1>3, <1>4, <1>5, <1>6

DataOK == users \subseteq Row /\ contacts \in [Pairs -> Nat] /\ nextId \in Nat \ {0}

\* TypeOK is what the clock, the network and the tables each keep.
LEMMA PartsOK ==
    ASSUME TypeOK, NetOK', DataOK', UNCHANGED <<now, tick, heard, probed>>
    PROVE  TypeOK'
  BY DEF TypeOK, NetOK, DataOK

LEMMA ThrowOK ==
    ASSUME TypeOK, NEW table \in Tables, SQLException(table)
    PROVE  NetOK'
  BY PlacesOK, SilentlyOK DEF SQLException

LEMMA RegisterTypes ==
    ASSUME TypeOK, RecvOccupied, NEW n \in Names, NEW p \in Passwords, CMSG_REGISTER(n, p)
    PROVE  TypeOK'
<1>1. cur # None /\ conn \in Tables
  BY DEF RecvOccupied, CMSG_REGISTER, Receives, TypeOK, Tables
<1>2. DataOK'
  <2>1. CASE UNCHANGED data
    BY <2>1 DEF data, DataOK, TypeOK
  <2>2. CASE /\ nextId \in Ids
             /\ users' = users \union {[id |-> nextId, name |-> n, pass |-> p, sso |-> None]}
             /\ nextId' = nextId + 1
             /\ UNCHANGED contacts
    BY <2>2 DEF DataOK, TypeOK, Row
  <2>3. QED
    BY <2>1, <2>2 DEF CMSG_REGISTER
<1>3. NetOK'
  <2>1. CASE SQLException(conn)
    BY <1>1, <2>1, ThrowOK
  <2>2. CASE ~SQLException(conn)
    BY <1>1, <2>2, PlacesOK, MessagesOK, RespondOK, SlotUpdates DEF CMSG_REGISTER
  <2>3. QED
    BY <2>1, <2>2
<1>4. QED
  BY <1>2, <1>3, PartsOK DEF CMSG_REGISTER

LEMMA LoginTypes ==
    ASSUME TypeOK, RecvOccupied, NEW n \in Names, NEW p \in Passwords, CMSG_LOGIN(n, p)
    PROVE  TypeOK'
<1> DEFINE Session(r, t) == [conn EXCEPT ![idx].account = [id |-> r.id, name |-> r.name],
                                         ![idx].sso = t]
           Update(r, t) == /\ users' = (users \ {r}) \union {[r EXCEPT !.sso = t]}
                           /\ UNCHANGED <<contacts, nextId>>
<1>1. cur # None /\ conn \in Tables
  BY DEF RecvOccupied, CMSG_LOGIN, Receives, TypeOK, Tables
<1>2. ASSUME NEW r \in users, NEW t \in Tokens
      PROVE  Session(r, t) \in Tables
  <2>1. [id |-> r.id, name |-> r.name] \in Account
    BY DEF TypeOK, Row, Account
  <2>2. QED
    BY <1>1, <2>1, SlotUpdates
<1>3. ASSUME NEW r \in users, NEW t \in Tokens, Update(r, t)
      PROVE  DataOK'
  <2>1. r \in Row /\ [r EXCEPT !.sso = t] \in Row
    BY DEF TypeOK, Row
  <2>2. QED
    BY <1>3, <2>1 DEF DataOK, TypeOK
<1>4. UNCHANGED data => DataOK'
  BY DEF data, DataOK, TypeOK
<1>5. CASE SQLException(conn) /\ UNCHANGED data
  BY <1>1, <1>4, <1>5, ThrowOK, PartsOK DEF CMSG_LOGIN
<1>6. CASE /\ Respond(conn, cur.sock, [kind |-> "SMSG_UNSUCCESSFUL_LOGIN"], Return)
           /\ UNCHANGED data
  <2>1. NetOK'
    BY <1>1, <1>6, PlacesOK, MessagesOK, RespondOK, SlotUpdates
  <2>2. QED
    BY <1>4, <1>6, <2>1, PartsOK DEF CMSG_LOGIN
<1>7. ASSUME NEW r \in users, NEW t \in Tokens, SQLException(Session(r, t)),
             UNCHANGED data \/ Update(r, t)
      PROVE  TypeOK'
  BY <1>2, <1>3, <1>4, <1>7, ThrowOK, PartsOK DEF CMSG_LOGIN
<1>8. ASSUME NEW r \in users, NEW t \in Tokens, Update(r, t),
             Respond(Session(r, t), cur.sock,
                     [kind |-> "SMSG_SUCCESSFUL_LOGIN", name |-> n, token |-> t], Return)
      PROVE  TypeOK'
  <2>1. [kind |-> "SMSG_SUCCESSFUL_LOGIN", name |-> n, token |-> t] \in Message
    BY MessagesOK
  <2>2. Session(r, t) \in Tables /\ cur.sock \in Socks
    BY <1>1, <1>2, SlotUpdates
  <2> HIDE DEF Session
  <2>3. NetOK'
    BY <1>8, <2>1, <2>2, PlacesOK, RespondOK
  <2>4. DataOK'
    BY <1>3, <1>8
  <2>5. QED
    BY <2>3, <2>4, PartsOK DEF CMSG_LOGIN
<1>9. QED
  BY <1>5, <1>6, <1>7, <1>8 DEF CMSG_LOGIN

LEMMA DeletedOK ==
    ASSUME TypeOK, NEW k, NEW ids, Deleted(k, ids)
    PROVE  DataOK'
  BY DEF Deleted, DataOK, TypeOK

LEMMA ContactTypes ==
    ASSUME TypeOK, RecvOccupied,
           \/ CMSG_DELETE_ACCOUNT
           \/ \E f \in Names : CMSG_ADD_CONTACT(f) \/ CMSG_DELETE_CONTACT(f)
    PROVE  TypeOK'
<1> USE PlacesOK
<1>1. cur # None /\ conn \in Tables
  BY DEF RecvOccupied, CMSG_DELETE_ACCOUNT, CMSG_ADD_CONTACT, CMSG_DELETE_CONTACT,
         Receives, TypeOK, Tables
<1>2. UNCHANGED data => DataOK'
  BY DEF data, DataOK, TypeOK
<1>3. CASE CMSG_DELETE_ACCOUNT
  <2>1. DataOK'
    BY <1>3, DeletedOK DEF CMSG_DELETE_ACCOUNT
  <2>2. CASE SQLException(conn)
    BY <1>1, <1>3, <2>1, <2>2, ThrowOK, PartsOK DEF CMSG_DELETE_ACCOUNT
  <2>3. CASE Silently([conn EXCEPT ![idx].account = None], NextSlot) /\ UNCHANGED db
    <3>1. NetOK'
      BY <1>1, <2>3, SlotUpdates, SilentlyOK DEF TypeOK
    <3>2. QED
      BY <1>3, <2>1, <3>1, PartsOK DEF CMSG_DELETE_ACCOUNT
  <2>4. QED
    BY <1>3, <2>2, <2>3 DEF CMSG_DELETE_ACCOUNT
<1>4. ASSUME NEW f \in Names, CMSG_ADD_CONTACT(f) \/ CMSG_DELETE_CONTACT(f)
      PROVE  TypeOK'
  <2>1. DataOK'
    <3>1. CASE CMSG_ADD_CONTACT(f)
      BY <1>2, <1>4, <3>1 DEF CMSG_ADD_CONTACT, DataOK, TypeOK
    <3>2. CASE CMSG_DELETE_CONTACT(f)
      BY <1>2, <1>4, <3>2 DEF CMSG_DELETE_CONTACT, DataOK, TypeOK
    <3>3. QED
      BY <1>4, <3>1, <3>2
  <2>2. SQLException(conn) \/ (Silently(conn, NextSlot) /\ UNCHANGED db)
    BY <1>4 DEF CMSG_ADD_CONTACT, CMSG_DELETE_CONTACT
  <2>3. NetOK'
    BY <1>1, <2>2, ThrowOK, SilentlyOK DEF TypeOK
  <2>4. QED
    BY <1>4, <2>1, <2>3, PartsOK DEF CMSG_ADD_CONTACT, CMSG_DELETE_CONTACT
<1>5. QED
  BY <1>3, <1>4

LEMMA EnvironmentTypes ==
    ASSUME TypeOK, Environment
    PROVE  TypeOK'
<1>1. CASE Elapse
  BY <1>1 DEF Elapse, TypeOK, data
<1>2. ASSUME NEW s \in Socks, Connect(s) \/ PeerCloses(s)
      PROVE  TypeOK'
  BY <1>2 DEF Connect, PeerCloses, TypeOK, data
<1>3. QED
  BY <1>1, <1>2 DEF Environment
-----------------------------------------------------------------------------
(* Together.  TypeOK alone is not inductive: a handler overwrites fields of  *)
(* the current slot, so recv() must be reached with a slot that is in use.   *)

Typed == TypeOK /\ RecvOccupied

LEMMA InitTyped == Init => Typed
  BY FirstSlotExists DEF Init, Typed, TypeOK, RecvOccupied, NoConnections

\* Only the keep-alive check of a slot that is in use leads to recv().
LEMMA NextOccupied ==
    ASSUME TypeOK, RecvOccupied, Next
    PROVE  RecvOccupied'
<1>1. NextSlot.pc # "recv" /\ Return.pc # "recv"
  BY DEF NextSlot, Return
<1>2. ASSUME pc' # "recv"
      PROVE  RecvOccupied'
  BY <1>2 DEF RecvOccupied
<1>3. CASE (\E connected \in BOOLEAN : Boot(connected)) \/ Wake \/ WakeWithoutConnection
  BY <1>2, <1>3 DEF Boot, Wake, WakeWithoutConnection, Die
<1>4. CASE Accept
  BY <1>2, <1>4 DEF Accept, AcceptNobody, AcceptIntoFullTable, AcceptClient, Silently, Goto, Die
<1>5. CASE SkipFreeSlot \/ Reap
  BY <1>1, <1>2, <1>5 DEF SkipFreeSlot, Reap, Silently, Goto
<1>6. CASE NotDue
  BY <1>6 DEF NotDue, Silently, Goto, RecvOccupied, cur
<1>7. CASE Probe
  <2>1. CASE Die
    BY <1>2, <2>1 DEF Die
  <2>2. CASE /\ conn' = [conn EXCEPT ![idx].klFlagged = TRUE, ![idx].endPoint = NextDeadline]
             /\ idx' = idx
    <3>1. cur \in User
      BY <1>7 DEF Probe, TypeOK, cur
    <3>2. cur' = [cur EXCEPT !.klFlagged = TRUE, !.endPoint = NextDeadline]
      BY <2>2 DEF TypeOK, cur
    <3>3. cur' \in User
      BY <3>1, <3>2, ProbeDeadline
    <3>4. QED
      BY <3>3, ServerAssumption DEF ServerAssumption, RecvOccupied
  <2>3. QED
    BY <1>7, <2>1, <2>2 DEF Probe, Respond, Goto
<1>8. CASE Handle
  <2>1. CASE Ignore \/ CMSG_KEEP_ALIVE \/ CMSG_LOGOUT \/ CMSG_GRAB_CONTACTS
    BY <1>1, <1>2, <2>1 DEF Ignore, CMSG_KEEP_ALIVE, CMSG_LOGOUT, CMSG_GRAB_CONTACTS,
       SQLException, Silently, Respond, Goto, Die
  <2>2. ASSUME NEW n \in Names, NEW p \in Passwords, CMSG_REGISTER(n, p) \/ CMSG_LOGIN(n, p)
        PROVE  RecvOccupied'
    BY <1>1, <1>2, <2>2 DEF CMSG_REGISTER, CMSG_LOGIN, SQLException, Silently, Respond, Goto, Die
  <2>3. CASE CMSG_DELETE_ACCOUNT
    BY <1>1, <1>2, <2>3 DEF CMSG_DELETE_ACCOUNT, SQLException, Silently, Goto
  <2>4. ASSUME NEW f \in Names, CMSG_ADD_CONTACT(f) \/ CMSG_DELETE_CONTACT(f)
        PROVE  RecvOccupied'
    BY <1>1, <1>2, <2>4 DEF CMSG_ADD_CONTACT, CMSG_DELETE_CONTACT, SQLException, Silently, Goto
  <2>5. ASSUME NEW to \in Names, NEW text \in Texts, CMSG_SEND_CHAT_MESSAGE(to, text)
        PROVE  RecvOccupied'
    BY <1>1, <1>2, <2>5 DEF CMSG_SEND_CHAT_MESSAGE, Respond, Goto, Die
  <2>6. QED
    BY <1>8, <2>1, <2>2, <2>3, <2>4, <2>5 DEF Handle
<1>9. CASE Environment
  BY <1>9 DEF Environment, Elapse, Connect, PeerCloses, RecvOccupied, cur
<1>10. QED
  BY <1>3, <1>4, <1>5, <1>6, <1>7, <1>8, <1>9 DEF Next, WorldUpdate, CheckKeepAlive

LEMMA NextTypes ==
    ASSUME TypeOK, RecvOccupied, Next
    PROVE  TypeOK'
<1>1. CASE (\E connected \in BOOLEAN : Boot(connected)) \/ Wake \/ WakeWithoutConnection
  BY <1>1, RebootTypes
<1>2. CASE Accept
  BY <1>2, AcceptTypes
<1>3. CASE CheckKeepAlive
  BY <1>3, KeepAliveTypes
<1>4. CASE Handle
  BY <1>4, SessionTypes, RegisterTypes, LoginTypes, ContactTypes DEF Handle
<1>5. CASE Environment
  BY <1>5, EnvironmentTypes
<1>6. QED
  BY <1>1, <1>2, <1>3, <1>4, <1>5 DEF Next, WorldUpdate

LEMMA NextTyped ==
    ASSUME Typed, [Next]_vars
    PROVE  Typed'
<1>1. CASE UNCHANGED vars
  <2>1. TypeOK'
    BY <1>1 DEF Typed, vars, data, TypeOK
  <2>2. RecvOccupied'
    BY <1>1 DEF Typed, vars, RecvOccupied, cur
  <2>3. QED
    BY <2>1, <2>2 DEF Typed
<1>2. CASE Next
  BY <1>2, NextTypes, NextOccupied DEF Typed
<1>3. QED
  BY <1>1, <1>2

\* The server's state is always of its type: in particular a handler never runs on a
\* slot of connections[] that is free.
THEOREM TypeCorrect == Spec => [](TypeOK /\ RecvOccupied)
<1>1. Init => Typed
  BY InitTyped
<1>2. Typed /\ [Next]_vars => Typed'
  BY NextTyped
<1>3. QED
  BY <1>1, <1>2, PTL DEF Spec, Typed
-----------------------------------------------------------------------------
(* The connection table: no deadline is overlooked in a scan, no client is *)
(* cut off early, and no descriptor is lost or shared.                     *)

\* What a handler leaves alone: who is in which slot until when, and which
\* descriptors are open.  Only CMSG_KEEP_ALIVE, in the current slot, is heard.
Kept ==
    /\ \A i \in Slots : conn[i] = None <=> conn'[i] = None
    /\ \A i \in Used : /\ conn'[i].sock = conn[i].sock
                       /\ conn'[i].endPoint = conn[i].endPoint
                       /\ conn'[i].klFlagged \in {FALSE, conn[i].klFlagged}
    /\ \A s \in Socks : link[s] = "none" <=> link'[s] = "none"
    /\ UNCHANGED <<backlog, leaked>>

Heard ==
    /\ \/ UNCHANGED heard
       \/ /\ heard' = [heard EXCEPT ![idx] = tick]
          /\ conn'[idx].klFlagged = FALSE
    /\ UNCHANGED probed

\* Where a handler ends: at the next slot, or the call of WorldUpdate is over.
MovesOn ==
    /\ pc' \in {"scan", "sleep"}
    /\ pc' = "scan" => idx' = idx + 1

LEMMA PlaceMovesOn ==
    ASSUME NEW place \in {NextSlot, Return}, Goto(place)
    PROVE  MovesOn
  BY DEF NextSlot, Return, Goto, MovesOn

LEMMA DeliverKeeps ==
    ASSUME TypeOK, NEW s \in Socks, NEW m, Deliver(s, m)
    PROVE  \A t \in Socks : link[t] = "none" <=> link'[t] = "none"
  BY DEF Deliver, TypeOK

\* The tables a handler may leave: its own slot's session or flag has changed.
SessionTables ==
    {conn} \union {[conn EXCEPT ![idx] = u] :
                      u \in {v \in User : /\ v.sock = cur.sock
                                        /\ v.endPoint = cur.endPoint
                                        /\ v.klFlagged \in {FALSE, cur.klFlagged}}}

LEMMA TableKept ==
    ASSUME TypeOK, cur # None, conn' \in SessionTables, UNCHANGED <<backlog, leaked>>,
           \A s \in Socks : link[s] = "none" <=> link'[s] = "none"
    PROVE  Kept
<1>1. None \notin User
  BY ServerAssumption DEF ServerAssumption
<1>2. CASE conn' = conn
  BY <1>2 DEF Kept, Used
<1>3. ASSUME NEW u \in User, conn' = [conn EXCEPT ![idx] = u],
             u.sock = cur.sock, u.endPoint = cur.endPoint, u.klFlagged \in {FALSE, cur.klFlagged}
      PROVE  Kept
  <2>1. idx \in Slots /\ conn' = [i \in Slots |-> IF i = idx THEN u ELSE conn[i]]
    BY <1>3 DEF TypeOK
  <2>2. \A i \in Slots : conn[i] = None <=> conn'[i] = None
    BY <1>1, <1>3, <2>1 DEF cur
  <2>3. \A i \in Used : /\ conn'[i].sock = conn[i].sock
                       /\ conn'[i].endPoint = conn[i].endPoint
                       /\ conn'[i].klFlagged \in {FALSE, conn[i].klFlagged}
    BY <1>3, <2>1 DEF Used, cur
  <2>4. QED
    BY <2>2, <2>3 DEF Kept
<1>4. conn' = conn \/ \E u \in User : /\ conn' = [conn EXCEPT ![idx] = u]
                                     /\ u.sock = cur.sock
                                     /\ u.endPoint = cur.endPoint
                                     /\ u.klFlagged \in {FALSE, cur.klFlagged}
  BY DEF SessionTables
<1>5. QED
  BY <1>2, <1>3, <1>4

LEMMA SessionTablesOK ==
    ASSUME TypeOK, cur # None
    PROVE  /\ conn \in SessionTables
           /\ [conn EXCEPT ![idx].klFlagged = FALSE] \in SessionTables
           /\ [conn EXCEPT ![idx].account = None] \in SessionTables
           /\ \A a \in Account, t \in Tokens :
                [conn EXCEPT ![idx].account = a, ![idx].sso = t] \in SessionTables
<1>1. cur \in User
  BY SlotUpdates
<1>2. /\ [cur EXCEPT !.klFlagged = FALSE] \in User
      /\ [cur EXCEPT !.account = None] \in User
  BY <1>1 DEF User
<1>3. /\ [conn EXCEPT ![idx] = [cur EXCEPT !.klFlagged = FALSE]] \in SessionTables
      /\ [conn EXCEPT ![idx] = [cur EXCEPT !.account = None]] \in SessionTables
  BY <1>1, <1>2 DEF SessionTables, User
<1>4. ASSUME NEW a \in Account, NEW t \in Tokens
      PROVE  [conn EXCEPT ![idx].account = a, ![idx].sso = t] \in SessionTables
  <2> DEFINE v == [cur EXCEPT !.account = a]
             w == [v EXCEPT !.sso = t]
  <2>1. v \in User
    BY <1>1 DEF User
  <2>2. w \in User /\ w.sock = cur.sock /\ w.endPoint = cur.endPoint /\ w.klFlagged = cur.klFlagged
    BY <1>1, <2>1 DEF User
  <2>3. [conn EXCEPT ![idx] = w] \in SessionTables
    BY <2>2 DEF SessionTables
  <2>4. [conn EXCEPT ![idx].account = a, ![idx].sso = t] = [conn EXCEPT ![idx] = w]
    BY DEF TypeOK, cur
  <2>5. QED
    BY <2>3, <2>4
<1>5. QED
  BY <1>3, <1>4 DEF SessionTables, cur

\* Both ways for a handler to end.
LEMMA SilentlyKept ==
    ASSUME TypeOK, cur # None, NEW table \in SessionTables, NEW place \in {NextSlot, Return},
           Silently(table, place)
    PROVE  Kept /\ MovesOn
  BY TableKept, PlaceMovesOn DEF Silently

LEMMA RespondKept ==
    ASSUME TypeOK, cur # None, NEW table \in SessionTables, NEW place \in {NextSlot, Return},
           NEW s \in Socks, NEW m, Respond(table, s, m, place)
    PROVE  (Kept /\ MovesOn) \/ Die
<1>1. CASE Die
  BY <1>1
<1>2. CASE Deliver(s, m) /\ conn' = table /\ Goto(place) /\ UNCHANGED <<db, backlog, leaked>>
  BY <1>2, TableKept, PlaceMovesOn, DeliverKeeps
<1>3. QED
  BY <1>1, <1>2 DEF Respond

\* Every handler keeps the table, or the process dies of a signal.
LEMMA HandleKept ==
    ASSUME TypeOK, RecvOccupied, Handle
    PROVE  /\ (Kept /\ MovesOn) \/ Die
           /\ Heard \/ Die
           /\ UNCHANGED <<now, tick>>
<1>1. pc = "recv" /\ cur # None
  BY DEF RecvOccupied, Handle, Ignore, CMSG_KEEP_ALIVE, CMSG_LOGOUT, CMSG_GRAB_CONTACTS,
         CMSG_REGISTER, CMSG_LOGIN, CMSG_DELETE_ACCOUNT, CMSG_ADD_CONTACT,
         CMSG_DELETE_CONTACT, CMSG_SEND_CHAT_MESSAGE, Receives
<1>2. cur.sock \in Socks
  BY <1>1, SlotUpdates
<1> DEFINE Goal == /\ (Kept /\ MovesOn) \/ Die
                   /\ Heard \/ Die
                   /\ UNCHANGED <<now, tick>>
<1> USE <1>1, <1>2, SessionTablesOK, SilentlyKept, RespondKept
<1>3. CASE Ignore \/ CMSG_LOGOUT
  BY <1>3 DEF Ignore, CMSG_LOGOUT, Heard
<1>4. CASE CMSG_KEEP_ALIVE
  <2>1. Kept /\ MovesOn
    BY <1>4 DEF CMSG_KEEP_ALIVE
  <2>2. conn' = [conn EXCEPT ![idx].klFlagged = FALSE] /\ heard' = [heard EXCEPT ![idx] = tick]
    BY <1>4 DEF CMSG_KEEP_ALIVE, Silently
  <2>3. Heard
    BY <1>4, <2>2, SlotUpdates DEF CMSG_KEEP_ALIVE, Heard, TypeOK, cur, User
  <2>4. QED
    BY <1>4, <2>1, <2>3 DEF CMSG_KEEP_ALIVE
<1>5. CASE CMSG_GRAB_CONTACTS
  BY <1>5 DEF CMSG_GRAB_CONTACTS, SQLException, Heard
<1>6. ASSUME NEW n \in Names, NEW p \in Passwords, CMSG_REGISTER(n, p)
      PROVE  Goal
  BY <1>6 DEF CMSG_REGISTER, SQLException, Heard
<1>7. ASSUME NEW n \in Names, NEW p \in Passwords, CMSG_LOGIN(n, p)
      PROVE  Goal
  <2> DEFINE Session(r, t) == [conn EXCEPT ![idx].account = [id |-> r.id, name |-> r.name],
                                           ![idx].sso = t]
  <2>1. \A r \in users, t \in Tokens : Session(r, t) \in SessionTables
    BY DEF TypeOK, Row, Account
  <2>2. \/ SQLException(conn)
        \/ Respond(conn, cur.sock, [kind |-> "SMSG_UNSUCCESSFUL_LOGIN"], Return)
        \/ \E r \in users, t \in Tokens :
             \/ SQLException(Session(r, t))
             \/ Respond(Session(r, t), cur.sock,
                        [kind |-> "SMSG_SUCCESSFUL_LOGIN", name |-> n, token |-> t], Return)
    BY <1>7 DEF CMSG_LOGIN
  <2>3. UNCHANGED <<now, tick, heard, probed>>
    BY <1>7 DEF CMSG_LOGIN
  <2> HIDE DEF Session
  <2>4. QED
    BY <2>1, <2>2, <2>3 DEF SQLException, Heard
<1>8. CASE CMSG_DELETE_ACCOUNT
  BY <1>8 DEF CMSG_DELETE_ACCOUNT, SQLException, Heard
<1>9. ASSUME NEW f \in Names, CMSG_ADD_CONTACT(f) \/ CMSG_DELETE_CONTACT(f)
      PROVE  Goal
  BY <1>9 DEF CMSG_ADD_CONTACT, CMSG_DELETE_CONTACT, SQLException, Heard
<1>10. ASSUME NEW to \in Names, NEW text \in Texts, CMSG_SEND_CHAT_MESSAGE(to, text)
       PROVE  Goal
  <2>1. PICK j \in Slots :
          /\ FirstSession(j, to)
          /\ Respond(conn, conn[j].sock,
                     [kind |-> "SMSG_SEND_CHAT_MESSAGE", from |-> cur.account.name,
                      text |-> text], NextSlot)
    BY <1>10 DEF CMSG_SEND_CHAT_MESSAGE
  <2>2. conn[j].sock \in Socks
    BY <2>1 DEF FirstSession, SessionOf, TypeOK, User
  <2>3. QED
    BY <1>10, <2>1, <2>2 DEF CMSG_SEND_CHAT_MESSAGE, Heard
<1>11. QED
  BY <1>3, <1>4, <1>5, <1>6, <1>7, <1>8, <1>9, <1>10 DEF Handle
-----------------------------------------------------------------------------
(* Keep-alive.                                                              *)

\* A deadline lies after the last sign of life, and once the probe is out, KeepAlive
\* after the probe, which was sent after the last sign of life.
Patient(i) ==
    /\ heard[i] < conn[i].endPoint
    /\ conn[i].klFlagged = TRUE => /\ heard[i] < probed[i]
                                   /\ probed[i] + KeepAlive <= conn[i].endPoint

Patience == \A i \in Used : Patient(i)

KeepAliveInv == Typed /\ ScannedAreCurrent /\ Patience

LEMMA EmptyTable ==
    ASSUME conn' = NoConnections, pc' = "down"
    PROVE  (ScannedAreCurrent /\ Patience)'
  BY DEF ScannedAreCurrent, Patience, Patient, Used, NoConnections

\* Steps that touch neither the table nor a deadline.
LEMMA SameTableCurrent ==
    ASSUME ScannedAreCurrent, Patience, UNCHANGED <<conn, heard, probed>>,
           \/ UNCHANGED <<pc, idx, tick>>
           \/ pc' \in {"sleep", "accept"}
           \/ pc' = "scan" /\ idx' = 0
    PROVE  (ScannedAreCurrent /\ Patience)'
<1>1. Patience'
  BY DEF Patience, Patient, Used
<1>2. CASE UNCHANGED <<pc, idx, tick>>
  BY <1>1, <1>2 DEF ScannedAreCurrent, Used, cur
<1>3. CASE pc' \in {"sleep", "accept"}
  BY <1>1, <1>3 DEF ScannedAreCurrent
<1>4. CASE pc' = "scan" /\ idx' = 0
  BY <1>1, <1>4, ServerAssumption DEF ServerAssumption, ScannedAreCurrent, Used, Slots
<1>5. QED
  BY <1>2, <1>3, <1>4

LEMMA AcceptCurrent ==
    ASSUME KeepAliveInv, Accept
    PROVE  (ScannedAreCurrent /\ Patience)'
<1>1. CASE AcceptNobody \/ \E s \in Socks : AcceptIntoFullTable(s)
  BY <1>1, SameTableCurrent DEF KeepAliveInv, AcceptNobody, AcceptIntoFullTable, Silently, Goto
<1>2. ASSUME NEW s \in Socks, NEW i \in Slots, AcceptClient(s, i)
      PROVE  (ScannedAreCurrent /\ Patience)'
  <2>1. CASE Die
    BY <2>1, EmptyTable DEF Die
  <2>2. CASE ~Die
    <3> DEFINE u == [sock |-> s, endPoint |-> now + KeepAlive, klFlagged |-> FALSE,
                     account |-> None, sso |-> None]
    <3>1. /\ conn' = [conn EXCEPT ![i] = u]
          /\ heard' = [heard EXCEPT ![i] = now] /\ probed' = probed
          /\ pc' = "scan" /\ idx' = 0
      BY <1>2, <2>2 DEF AcceptClient, Goto
    <3>2. u.endPoint = now + KeepAlive /\ u.klFlagged = FALSE
      OBVIOUS
    <3> HIDE DEF u
    <3>3. ScannedAreCurrent'
      BY <3>1 DEF ScannedAreCurrent, Used, Slots
    <3>4. now < u.endPoint
      BY <3>2, ServerAssumption DEF ServerAssumption, KeepAliveInv, Typed, TypeOK
    <3>5. Patience'
      BY <3>1, <3>2, <3>4 DEF Patience, Patient, Used, KeepAliveInv, Typed, TypeOK
    <3>6. QED
      BY <3>3, <3>5
  <2>3. QED
    BY <2>1, <2>2
<1>3. QED
  BY <1>1, <1>2 DEF Accept

LEMMA NextSlotCases ==
    ASSUME Goto(NextSlot)
    PROVE  pc' = "sleep" \/ (pc' = "scan" /\ idx' = idx + 1)
  BY DEF Goto, NextSlot

LEMMA CheckCurrent ==
    ASSUME KeepAliveInv, CheckKeepAlive
    PROVE  (ScannedAreCurrent /\ Patience)'
<1> USE NextSlotCases DEF KeepAliveInv
<1>1. idx \in Slots /\ idx \in Nat /\ tick \in Nat
  BY ServerAssumption DEF ServerAssumption, Typed, TypeOK, Slots
<1>2. CASE SkipFreeSlot
  <2>1. Patience'
    BY <1>2 DEF SkipFreeSlot, Silently, Patience, Patient, Used
  <2>2. ScannedAreCurrent'
    BY <1>1, <1>2 DEF SkipFreeSlot, Silently, ScannedAreCurrent, Used, Slots, cur
  <2>3. QED
    BY <2>1, <2>2
<1>3. CASE NotDue
  <2>1. Patience'
    BY <1>3 DEF NotDue, Silently, Patience, Patient, Used
  <2>2. cur \in User
    BY <1>3 DEF NotDue, Typed, TypeOK, cur
  <2>3. tick < cur.endPoint
    BY <1>1, <1>3, <2>2 DEF NotDue, Due, User
  <2>4. ScannedAreCurrent'
    BY <1>1, <1>3, <2>3 DEF NotDue, Silently, Goto, ScannedAreCurrent, Used, cur
  <2>5. QED
    BY <2>1, <2>4
<1>4. CASE Probe
  <2>1. CASE Die
    BY <2>1, EmptyTable DEF Die
  <2>2. CASE /\ conn' = [conn EXCEPT ![idx].klFlagged = TRUE, ![idx].endPoint = NextDeadline]
             /\ pc' = "recv" /\ idx' = idx
    <3>1. cur \in User /\ cur.endPoint \in Nat
      BY <1>4 DEF Probe, Typed, TypeOK, cur, User
    <3> DEFINE u == [cur EXCEPT !.klFlagged = TRUE, !.endPoint = NextDeadline]
    <3>2. conn' = [conn EXCEPT ![idx] = u]
      BY <2>2 DEF Typed, TypeOK, cur
    <3>3. u.endPoint = tick + KeepAlive /\ u # None
      BY <3>1, ProbeDeadline, ServerAssumption DEF ServerAssumption, Typed, NextDeadline, User
    <3> HIDE DEF u
    <3>4. /\ heard' = heard /\ tick' = tick /\ cur.endPoint <= tick
          /\ probed' = [probed EXCEPT ![idx] = tick] /\ probed \in [Slots -> Nat]
      BY <1>1, <1>4, <3>1 DEF Probe, Due, Typed, TypeOK
    <3>5. heard[idx] \in Nat /\ heard[idx] < cur.endPoint
      BY <1>1, <1>4 DEF Probe, Patience, Patient, Used, Typed, TypeOK, cur
    <3>6. /\ heard[idx] < probed'[idx] /\ probed'[idx] + KeepAlive <= u.endPoint
          /\ tick < u.endPoint
      BY <1>1, <3>1, <3>3, <3>4, <3>5, ServerAssumption DEF ServerAssumption
    <3>7. ASSUME NEW i \in Used'
          PROVE  /\ heard'[i] < conn'[i].endPoint
                 /\ conn'[i].klFlagged = TRUE => /\ heard'[i] < probed'[i]
                                                 /\ probed'[i] + KeepAlive <= conn'[i].endPoint
      <4>1. CASE i = idx
        <5>1. conn'[i] = u /\ heard'[i] = heard[idx]
          BY <1>1, <3>2, <3>4, <4>1 DEF Typed, TypeOK
        <5>2. tick < u.endPoint /\ heard[idx] < u.endPoint
          BY <1>1, <3>1, <3>3, <3>4, <3>5, <3>6, ServerAssumption DEF ServerAssumption
        <5>3. QED
          BY <3>6, <4>1, <5>1, <5>2
      <4>2. CASE i # idx
        BY <3>2, <3>4, <4>2 DEF Patience, Patient, Used, Typed, TypeOK
      <4>3. QED
        BY <4>1, <4>2
    <3>8. ScannedAreCurrent'
      BY <1>1, <1>4, <2>2, <3>2, <3>3, <3>4, <3>6
      DEF Probe, ScannedAreCurrent, Used, Typed, TypeOK, cur
    <3>9. QED
      BY <3>7, <3>8 DEF Patience, Patient
  <2>3. QED
    BY <1>4, <2>1, <2>2 DEF Probe, Respond, Goto
<1>5. CASE Reap
  <2>1. /\ conn' = [conn EXCEPT ![idx] = None]
        /\ heard' = heard /\ probed' = probed /\ tick' = tick /\ pc = "scan"
    BY <1>5 DEF Reap
  <2>2. Patience'
    BY <1>1, <2>1 DEF Patience, Patient, Used, Typed, TypeOK
  <2>3. pc' = "sleep" \/ (pc' = "scan" /\ idx' = idx + 1)
    BY <1>5 DEF Reap
  <2>4. ScannedAreCurrent'
    BY <1>1, <2>1, <2>3 DEF ScannedAreCurrent, Used, Slots, Typed, TypeOK
  <2>5. QED
    BY <2>2, <2>4
<1>6. QED
  BY <1>2, <1>3, <1>4, <1>5 DEF CheckKeepAlive

LEMMA HandleCurrent ==
    ASSUME KeepAliveInv, Handle
    PROVE  (ScannedAreCurrent /\ Patience)'
<1>1. CASE Die
  BY <1>1, EmptyTable DEF Die
<1>2. CASE Kept /\ MovesOn /\ Heard
  <2>1. pc = "recv" /\ UNCHANGED <<now, tick>>
    BY HandleKept
    DEF KeepAliveInv, Typed, Handle, Ignore, CMSG_KEEP_ALIVE, CMSG_LOGOUT, CMSG_GRAB_CONTACTS,
        CMSG_REGISTER, CMSG_LOGIN, CMSG_DELETE_ACCOUNT, CMSG_ADD_CONTACT,
        CMSG_DELETE_CONTACT, CMSG_SEND_CHAT_MESSAGE, Receives
  <2>2. idx \in Used /\ idx \in Nat /\ tick < conn[idx].endPoint /\ tick \in Nat
    BY <2>1, ServerAssumption
    DEF ServerAssumption, KeepAliveInv, ScannedAreCurrent, cur, Used, Slots, Typed, TypeOK
  <2>3. Used' = Used /\ \A i \in Used : conn'[i].endPoint = conn[i].endPoint
    BY <1>2 DEF Kept, Used
  <2>4. ScannedAreCurrent'
    BY <1>2, <2>1, <2>2, <2>3 DEF MovesOn, KeepAliveInv, ScannedAreCurrent, Used, Slots
  <2>5. CASE UNCHANGED heard
    BY <1>2, <2>3, <2>4, <2>5 DEF Kept, Heard, KeepAliveInv, Patience, Patient
  <2>6. CASE heard' = [heard EXCEPT ![idx] = tick] /\ conn'[idx].klFlagged = FALSE
    <3>1. \A i \in Used : i # idx => heard'[i] = heard[i]
      BY <2>6 DEF KeepAliveInv, Typed, TypeOK, Used
    <3>2. heard'[idx] = tick
      BY <2>2, <2>6 DEF KeepAliveInv, Typed, TypeOK, Used
    <3>3. Patience'
      <4>1. \A i \in Used : conn'[i].klFlagged \in {FALSE, conn[i].klFlagged}
        BY <1>2 DEF Kept
      <4>2. ASSUME NEW i \in Used
            PROVE  /\ heard'[i] < conn'[i].endPoint
                   /\ conn'[i].klFlagged = TRUE => /\ heard'[i] < probed'[i]
                                                   /\ probed'[i] + KeepAlive <= conn'[i].endPoint
        <5>1. CASE i = idx
          BY <2>2, <2>3, <2>6, <3>2, <5>1
        <5>2. CASE i # idx
          <6>1. /\ heard'[i] = heard[i] /\ probed'[i] = probed[i]
                /\ conn'[i].endPoint = conn[i].endPoint
            BY <1>2, <2>3, <3>1, <5>2 DEF Heard
          <6>2. Patient(i)
            BY DEF KeepAliveInv, Patience
          <6>3. QED
            BY <4>1, <6>1, <6>2 DEF Patient
        <5>3. QED
          BY <5>1, <5>2
      <4>3. QED
        BY <2>3, <4>2 DEF Patience, Patient
    <3>4. QED
      BY <2>4, <3>3
  <2>7. QED
    BY <1>2, <2>5, <2>6 DEF Heard
<1>3. QED
  BY <1>1, <1>2, HandleKept DEF KeepAliveInv, Typed

LEMMA NextCurrent ==
    ASSUME KeepAliveInv, [Next]_vars
    PROVE  KeepAliveInv'
<1>1. Typed'
  BY NextTyped DEF KeepAliveInv
<1>2. CASE UNCHANGED vars
  BY <1>1, <1>2, SameTableCurrent DEF vars, KeepAliveInv
<1>3. CASE (\E connected \in BOOLEAN : Boot(connected)) \/ Wake \/ WakeWithoutConnection
  BY <1>1, <1>3, SameTableCurrent, EmptyTable
  DEF Boot, Wake, WakeWithoutConnection, Die, KeepAliveInv
<1>4. CASE Accept
  BY <1>1, <1>4, AcceptCurrent DEF KeepAliveInv
<1>5. CASE CheckKeepAlive
  BY <1>1, <1>5, CheckCurrent DEF KeepAliveInv
<1>6. CASE Handle
  BY <1>1, <1>6, HandleCurrent DEF KeepAliveInv
<1>7. CASE Environment
  BY <1>1, <1>7, SameTableCurrent DEF Environment, Elapse, Connect, PeerCloses, KeepAliveInv
<1>8. QED
  BY <1>2, <1>3, <1>4, <1>5, <1>6, <1>7 DEF Next, WorldUpdate

LEMMA InitCurrent == Init => KeepAliveInv
<1>1. Init => ScannedAreCurrent /\ Patience
  BY DEF Init, ScannedAreCurrent, Patience, Patient, Used, NoConnections
<1>2. QED
  BY <1>1, InitTyped DEF KeepAliveInv

\* A connection is closed only by Reap, of an overdue slot with its probe out.
LEMMA ClosedByReap ==
    ASSUME KeepAliveInv, [Next]_vars, NEW i \in Used, conn'[i] = None, pc' # "down"
    PROVE  probed[i] > heard[i] /\ tick >= probed[i] + KeepAlive
<1>1. i \in Slots /\ conn[i] # None /\ ~Die
  BY DEF Used, Die
<1>2. CASE Reap
  <2>1. i = idx
    BY <1>1, <1>2 DEF Reap, KeepAliveInv, Typed, TypeOK
  <2>2. /\ conn[i] \in User /\ conn[i].endPoint \in Nat
        /\ heard[i] \in Nat /\ probed[i] \in Nat /\ tick \in Nat
    BY <1>1 DEF KeepAliveInv, Typed, TypeOK, User
  <2>3. tick >= conn[i].endPoint /\ conn[i].klFlagged = TRUE
    BY <1>2, <2>1, <2>2 DEF Reap, Due, cur, User
  <2>4. heard[i] < probed[i] /\ probed[i] + KeepAlive <= conn[i].endPoint
    BY <2>3 DEF KeepAliveInv, Patience, Patient
  <2>5. QED
    BY <2>2, <2>3, <2>4, ServerAssumption DEF ServerAssumption
<1>3. CASE Handle
  BY <1>1, <1>3, HandleKept DEF Kept, KeepAliveInv, Typed
<1>4. CASE Probe
  <2>1. cur \in User /\ idx \in Slots
    BY <1>4 DEF Probe, KeepAliveInv, Typed, TypeOK, cur
  <2>2. conn' = [conn EXCEPT ![idx] = [cur EXCEPT !.klFlagged = TRUE, !.endPoint = NextDeadline]]
    BY <1>1, <1>4 DEF Probe, Respond, KeepAliveInv, Typed, TypeOK, cur
  <2>3. [cur EXCEPT !.klFlagged = TRUE, !.endPoint = NextDeadline] # None
    BY <2>1, ProbeDeadline, ServerAssumption DEF ServerAssumption, KeepAliveInv, Typed
  <2>4. QED
    BY <1>1, <2>1, <2>2, <2>3 DEF KeepAliveInv, Typed, TypeOK
<1>5. ASSUME NEW s \in Socks, NEW j \in Slots, AcceptClient(s, j)
      PROVE  FALSE
  <2>1. conn[j] = None
    BY <1>5 DEF AcceptClient, FirstFree
  <2>2. conn'[i] = conn[i]
    BY <1>1, <1>5, <2>1 DEF AcceptClient, KeepAliveInv, Typed, TypeOK
  <2>3. QED
    BY <1>1, <2>2
<1>6. CASE UNCHANGED conn
  BY <1>1, <1>6
<1>7. \/ Reap \/ Handle \/ Probe \/ (\E s \in Socks, j \in Slots : AcceptClient(s, j))
      \/ UNCHANGED conn \/ Die
  BY DEF Next, WorldUpdate, Environment, Boot, Wake, WakeWithoutConnection, Accept,
         AcceptNobody, AcceptIntoFullTable, CheckKeepAlive, SkipFreeSlot, NotDue, Silently,
         Elapse, Connect, PeerCloses, vars
<1>8. QED
  BY <1>1, <1>2, <1>3, <1>4, <1>5, <1>6, <1>7

\* Within a scan no connection behind the loop variable is overdue, for any number of
\* slots and any timing of the clients and the clock.
THEOREM NoneOverlooked == Spec => []ScannedAreCurrent
<1>1. KeepAliveInv => ScannedAreCurrent
  BY DEF KeepAliveInv
<1>2. QED
  BY InitCurrent, NextCurrent, <1>1, PTL DEF Spec

\* The server never closes a connection it has not probed since it was accepted or last
\* answered, nor within KeepAlive of the call that sent the probe.
THEOREM PatientServer == Spec => ClosedOnlyAfterSilence
<1>1. KeepAliveInv /\ [Next]_vars =>
        [\A i \in Slots : i \in Used /\ conn'[i] = None /\ pc' # "down"
                          => probed[i] > heard[i] /\ tick >= probed[i] + KeepAlive]_vars
  BY ClosedByReap
<1>2. QED
  BY InitCurrent, NextCurrent, <1>1, PTL DEF Spec, ClosedOnlyAfterSilence
-----------------------------------------------------------------------------
(* Descriptors.                                                             *)

SocketInv == Typed /\ SocketsAccountedFor

\* Only which descriptors are open, and where they are kept, matters.
LEMMA SameSockets ==
    ASSUME SocketInv, Kept
    PROVE  SocketsAccountedFor'
<1>1. Used' = Used /\ \A i \in Used : conn'[i].sock = conn[i].sock
  BY DEF Kept, Used
<1>2. {conn'[i].sock : i \in Used'} = {conn[i].sock : i \in Used}
  BY <1>1
<1>3. QED
  BY <1>1, <1>2 DEF Kept, SocketInv, SocketsAccountedFor

LEMMA DeathClosesAll == Die => SocketsAccountedFor'
  BY DEF Die, SocketsAccountedFor, Used, NoConnections

LEMMA AcceptSockets ==
    ASSUME SocketInv, Accept
    PROVE  SocketsAccountedFor'
<1>1. CASE AcceptNobody
  BY <1>1, SameSockets DEF AcceptNobody, Silently, Kept, Used
<1>2. ASSUME NEW s \in Socks, AcceptIntoFullTable(s)
      PROVE  SocketsAccountedFor'
  <2>1. /\ s \in backlog /\ UNCHANGED <<conn, link>>
        /\ backlog' = backlog \ {s} /\ leaked' = leaked \union {s}
    BY <1>2 DEF AcceptIntoFullTable
  <2>2. Used' = Used /\ backlog' \union leaked' = backlog \union leaked
    BY <2>1 DEF Used
  <2>3. QED
    BY <2>1, <2>2 DEF SocketInv, SocketsAccountedFor
<1>3. ASSUME NEW s \in Socks, NEW i \in Slots, AcceptClient(s, i)
      PROVE  SocketsAccountedFor'
  <2>1. CASE Die
    BY <2>1, DeathClosesAll
  <2>2. CASE ~Die
    <3> DEFINE u == [sock |-> s, endPoint |-> now + KeepAlive, klFlagged |-> FALSE,
                     account |-> None, sso |-> None]
    <3>1. /\ conn' = [conn EXCEPT ![i] = u] /\ conn[i] = None
          /\ s \in backlog /\ backlog' = backlog \ {s} /\ leaked' = leaked
          /\ Deliver(s, [kind |-> "SMSG_CONNECTED"])
      BY <1>3, <2>2 DEF AcceptClient, FirstFree
    <3>2. u.sock = s /\ u # None
      <4>1. u \in User
        BY ServerAssumption DEF ServerAssumption, User, SocketInv, Typed, TypeOK
      <4>2. QED
        BY <4>1, ServerAssumption DEF ServerAssumption
    <3> HIDE DEF u
    <3>3. /\ Used' = Used \union {i} /\ i \notin Used
          /\ conn'[i].sock = s
          /\ \A j \in Used : conn'[j].sock = conn[j].sock
      BY <3>1, <3>2 DEF Used, SocketInv, Typed, TypeOK
    <3>4. \A t \in Socks : link[t] = "none" <=> link'[t] = "none"
      BY <3>1, DeliverKeeps DEF SocketInv, Typed
    <3>5. \A j \in Used : conn[j].sock # s
      BY <3>1 DEF SocketInv, SocketsAccountedFor
    <3>6. \A j, k \in Used' : conn'[j].sock = conn'[k].sock => j = k
      BY <3>3, <3>5 DEF SocketInv, SocketsAccountedFor
    <3>7. \A j \in Used' : conn'[j].sock \notin backlog' \union leaked'
      BY <3>1, <3>3 DEF SocketInv, SocketsAccountedFor
    <3>8. backlog' \intersect leaked' = {}
      BY <3>1 DEF SocketInv, SocketsAccountedFor
    <3>9. {conn'[j].sock : j \in Used'} = {conn[j].sock : j \in Used} \union {s}
      BY <3>3
    <3>10. \A t \in Socks : link'[t] # "none" <=>
             t \in backlog' \union leaked' \union {conn'[j].sock : j \in Used'}
      BY <3>1, <3>4, <3>9 DEF SocketInv, SocketsAccountedFor
    <3>11. QED
      BY <3>6, <3>7, <3>8, <3>10 DEF SocketsAccountedFor
  <2>3. QED
    BY <2>1, <2>2
<1>4. QED
  BY <1>1, <1>2, <1>3 DEF Accept

LEMMA CheckSockets ==
    ASSUME SocketInv, CheckKeepAlive
    PROVE  SocketsAccountedFor'
<1>1. CASE SkipFreeSlot \/ NotDue
  BY <1>1, SameSockets DEF SkipFreeSlot, NotDue, Silently, Kept, Used
<1>2. CASE Probe
  <2>1. CASE Die
    BY <2>1, DeathClosesAll
  <2>2. CASE ~Die
    <3> DEFINE u == [cur EXCEPT !.klFlagged = TRUE, !.endPoint = NextDeadline]
    <3>1. /\ conn' = [conn EXCEPT ![idx].klFlagged = TRUE, ![idx].endPoint = NextDeadline]
          /\ Deliver(cur.sock, [kind |-> "SMSG_KEEP_ALIVE"])
          /\ UNCHANGED <<backlog, leaked>>
      BY <1>2, <2>2 DEF Probe, Respond
    <3>2. cur \in User /\ cur.sock \in Socks /\ idx \in Slots
      BY <1>2, SlotUpdates DEF Probe, SocketInv, Typed, TypeOK
    <3>3. u # None /\ u.sock = cur.sock
      BY <3>2, ProbeDeadline, ServerAssumption DEF ServerAssumption, SocketInv, Typed, User
    <3>4. conn' = [conn EXCEPT ![idx] = u]
      BY <3>1 DEF SocketInv, Typed, TypeOK, cur
    <3> HIDE DEF u
    <3>5. \A t \in Socks : link[t] = "none" <=> link'[t] = "none"
      BY <3>1, <3>2, DeliverKeeps DEF SocketInv, Typed
    <3>6. Used' = Used /\ \A i \in Used : conn'[i].sock = conn[i].sock
      BY <1>2, <3>2, <3>3, <3>4 DEF Probe, Used, SocketInv, Typed, TypeOK, cur
    <3>7. {conn'[i].sock : i \in Used'} = {conn[i].sock : i \in Used}
      BY <3>6
    <3>8. UNCHANGED <<backlog, leaked>>
      BY <3>1
    <3>9. QED
      BY <3>5, <3>6, <3>7, <3>8 DEF SocketInv, SocketsAccountedFor
  <2>3. QED
    BY <2>1, <2>2
<1>3. CASE Reap
  <2>1. /\ conn' = [conn EXCEPT ![idx] = None]
        /\ link' = [link EXCEPT ![cur.sock] = "none"]
        /\ UNCHANGED <<backlog, leaked>>
        /\ idx \in Used
    BY <1>3 DEF Reap, Used, SocketInv, Typed, TypeOK, cur
  <2>2. Used' = Used \ {idx} /\ \A i \in Used' : conn'[i].sock = conn[i].sock
    BY <2>1 DEF Used, SocketInv, Typed, TypeOK
  <2>3. \A i \in Used' : conn[i].sock # cur.sock
    BY <2>1, <2>2 DEF SocketInv, SocketsAccountedFor, cur
  <2>4. cur.sock \notin backlog \union leaked
    BY <2>1 DEF SocketInv, SocketsAccountedFor, cur
  <2>5. {conn'[i].sock : i \in Used'} = {conn[i].sock : i \in Used} \ {cur.sock}
    BY <2>1, <2>2, <2>3 DEF cur
  <2>6. \A t \in Socks : link'[t] # "none" <=>
          t \in backlog' \union leaked' \union {conn'[i].sock : i \in Used'}
    BY <2>1, <2>4, <2>5 DEF SocketInv, SocketsAccountedFor, Typed, TypeOK
  <2>7. QED
    BY <2>1, <2>2, <2>6 DEF SocketInv, SocketsAccountedFor
<1>4. QED
  BY <1>1, <1>2, <1>3 DEF CheckKeepAlive

LEMMA EnvironmentSockets ==
    ASSUME SocketInv, Environment
    PROVE  SocketsAccountedFor'
<1>1. CASE Elapse
  BY <1>1, SameSockets DEF Elapse, Kept, Used
<1>2. ASSUME NEW s \in Socks, Connect(s)
      PROVE  SocketsAccountedFor'
  <2>1. /\ link[s] = "none" /\ link' = [link EXCEPT ![s] = "open"]
        /\ backlog' = backlog \union {s} /\ UNCHANGED <<conn, leaked>>
    BY <1>2 DEF Connect
  <2>2. Used' = Used /\ {conn'[i].sock : i \in Used'} = {conn[i].sock : i \in Used}
    BY <2>1 DEF Used
  <2>3. s \notin backlog \union leaked /\ \A i \in Used : conn[i].sock # s
    BY <2>1 DEF SocketInv, SocketsAccountedFor
  <2>4. QED
    BY <2>1, <2>2, <2>3 DEF SocketInv, SocketsAccountedFor, Typed, TypeOK
<1>3. ASSUME NEW s \in Socks, PeerCloses(s)
      PROVE  SocketsAccountedFor'
  <2>1. UNCHANGED <<conn, backlog, leaked>>
    BY <1>3 DEF PeerCloses
  <2>2. \A t \in Socks : link[t] = "none" <=> link'[t] = "none"
    BY <1>3 DEF PeerCloses, SocketInv, Typed, TypeOK
  <2>3. QED
    BY <2>1, <2>2, SameSockets DEF Kept, Used
<1>4. QED
  BY <1>1, <1>2, <1>3 DEF Environment

LEMMA NextSockets ==
    ASSUME SocketInv, [Next]_vars
    PROVE  SocketInv'
<1>1. Typed'
  BY NextTyped DEF SocketInv
<1>2. CASE UNCHANGED vars \/ (\E connected \in BOOLEAN : Boot(connected)) \/ Wake
  BY <1>1, <1>2, SameSockets DEF vars, Boot, Wake, Kept, Used, SocketInv
<1>3. CASE WakeWithoutConnection
  BY <1>1, <1>3, DeathClosesAll DEF WakeWithoutConnection, SocketInv
<1>4. CASE Accept
  BY <1>1, <1>4, AcceptSockets DEF SocketInv
<1>5. CASE CheckKeepAlive
  BY <1>1, <1>5, CheckSockets DEF SocketInv
<1>6. CASE Handle
  BY <1>1, <1>6, HandleKept, SameSockets, DeathClosesAll DEF SocketInv, Typed
<1>7. CASE Environment
  BY <1>1, <1>7, EnvironmentSockets DEF SocketInv
<1>8. QED
  BY <1>2, <1>3, <1>4, <1>5, <1>6, <1>7 DEF Next, WorldUpdate

\* Every descriptor the kernel has open is in one place only, so that shutdown and
\* close in the reaping never hit another client's connection.
THEOREM NoSocketShared == Spec => []SocketsAccountedFor
<1>1. Init => SocketInv
  <2>1. Init => SocketsAccountedFor
    BY DEF Init, SocketsAccountedFor, Used, NoConnections
  <2>2. QED
    BY <2>1, InitTyped DEF SocketInv
<1>2. SocketInv => SocketsAccountedFor
  BY DEF SocketInv
<1>3. QED
  BY <1>1, <1>2, NextSockets, PTL DEF Spec
-----------------------------------------------------------------------------
(* The User and Contacts tables and the sessions, whatever statement       *)
(* fails: names and ids stay unique, contacts name users that exist, a     *)
(* session never becomes somebody else's, only a user's own rows change,   *)
(* and the tables implement the directory of names.                        *)

(***************************************************************************)
(* A step as the tables see it: one of five statements, or none.           *)
(***************************************************************************)
Me == cur.account.name

Inserts(n, p) ==
    /\ ~Taken(n) /\ nextId \in Ids
    /\ users' = users \union {[id |-> nextId, name |-> n, pass |-> p, sso |-> None]}
    /\ nextId' = nextId + 1
    /\ UNCHANGED contacts

Updates(r, t) ==
    /\ users' = (users \ {r}) \union {[r EXCEPT !.sso = t]}
    /\ UNCHANGED <<contacts, nextId>>

Adds(f) ==
    /\ Taken(f) /\ ~AreContacts(Me, f)
    /\ contacts' = [x \in Pairs |-> IF x \in OwnersOf(Me) \X IdsOf(f) THEN contacts[x] + 1
                                                                      ELSE contacts[x]]
    /\ UNCHANGED <<users, nextId>>

Removes(f) ==
    /\ contacts' = [x \in Pairs |-> IF x \in RowsOf(Me, f) THEN 0 ELSE contacts[x]]
    /\ UNCHANGED <<users, nextId>>

Acting == pc = "recv" /\ LoggedIn /\ Me \in Names

\* A login that finds row r, unless its reply kills the process.
LogsIn(r) ==
    /\ pc = "recv" /\ ~LoggedIn
    /\ pc' = "down" \/ conn'[idx].account = [id |-> r.id, name |-> r.name]

Statement ==
    \/ UNCHANGED data
    \/ \E n \in Names, p \in Passwords : Inserts(n, p)
    \/ \E r \in users, t \in Tokens : Updates(r, t) /\ LogsIn(r)
    \/ Acting /\ \E k \in 0 .. 3 : Deleted(k, IdsOf(Me))
    \/ Acting /\ \E f \in Names : Adds(f) \/ Removes(f)

\* A step as the sessions see it: the accounts a slot may cache afterwards are those
\* it had, and in a login the user found.
SessionsFrom(rows) ==
    \A i \in Used' : \/ conn'[i].account = None
                     \/ i \in Used /\ conn'[i].account = conn[i].account
                     \/ \E r \in rows : conn'[i].account = [id |-> r.id, name |-> r.name]

LEMMA OldTable ==
    ASSUME conn' \in {conn, NoConnections}
    PROVE  SessionsFrom(users)
  BY DEF SessionsFrom, Used, NoConnections

LEMMA NewTable ==
    ASSUME TypeOK, NEW j \in Slots, NEW u, conn' = [conn EXCEPT ![j] = u],
           \/ u = None
           \/ u.account = None
           \/ conn[j] # None /\ u.account = conn[j].account
           \/ \E r \in users : u.account = [id |-> r.id, name |-> r.name]
    PROVE  SessionsFrom(users)
<1>1. conn'[j] = u /\ \A i \in Slots \ {j} : conn'[i] = conn[i]
  BY DEF TypeOK
<1>2. QED
  BY <1>1 DEF SessionsFrom, Used

LEMMA ThreadSteps ==
    ASSUME Typed,
           \/ UNCHANGED vars \/ (\E connected \in BOOLEAN : Boot(connected))
           \/ Wake \/ WakeWithoutConnection \/ Accept \/ CheckKeepAlive \/ Environment
    PROVE  UNCHANGED data /\ SessionsFrom(users)
<1> USE DEF Typed
<1>1. CASE UNCHANGED vars
  BY <1>1, OldTable DEF vars, data
<1>2. CASE (\E connected \in BOOLEAN : Boot(connected)) \/ Wake \/ WakeWithoutConnection
  BY <1>2, OldTable DEF Boot, Wake, WakeWithoutConnection, Die, data
<1>3. CASE Environment
  BY <1>3, OldTable DEF Environment, Elapse, Connect, PeerCloses, data
<1>4. CASE AcceptNobody \/ \E s \in Socks : AcceptIntoFullTable(s)
  BY <1>4, OldTable DEF AcceptNobody, AcceptIntoFullTable, Silently, data
<1>5. ASSUME NEW s \in Socks, NEW i \in Slots, AcceptClient(s, i)
      PROVE  UNCHANGED data /\ SessionsFrom(users)
  <2> DEFINE u == [sock |-> s, endPoint |-> now + KeepAlive, klFlagged |-> FALSE,
                   account |-> None, sso |-> None]
  <2>1. u.account = None
    OBVIOUS
  <2>2. conn' = [conn EXCEPT ![i] = u] \/ Die
    BY <1>5 DEF AcceptClient
  <2> HIDE DEF u
  <2>3. UNCHANGED data
    BY <1>5 DEF AcceptClient
  <2>4. QED
    BY <2>1, <2>2, <2>3, NewTable, OldTable DEF Die
<1>6. CASE SkipFreeSlot \/ NotDue
  BY <1>6, OldTable DEF SkipFreeSlot, NotDue, Silently, data
<1>7. CASE Probe
  <2> DEFINE u == [cur EXCEPT !.klFlagged = TRUE, !.endPoint = NextDeadline]
  <2>1. cur \in User /\ idx \in Slots
    BY <1>7 DEF Probe, TypeOK, cur
  <2>2. u.account = conn[idx].account /\ conn[idx] # None
    BY <1>7, <2>1 DEF Probe, User, cur
  <2>3. conn' = [conn EXCEPT ![idx] = u] \/ Die
    BY <1>7 DEF Probe, Respond, TypeOK, cur
  <2> HIDE DEF u
  <2>4. UNCHANGED data
    BY <1>7 DEF Probe
  <2>5. QED
    BY <2>1, <2>2, <2>3, <2>4, NewTable, OldTable DEF Die
<1>8. CASE Reap
  <2>1. conn' = [conn EXCEPT ![idx] = None] /\ UNCHANGED data /\ idx \in Slots
    BY <1>8 DEF Reap, TypeOK
  <2>2. QED
    BY <2>1, NewTable
<1>9. QED
  BY <1>1, <1>2, <1>3, <1>4, <1>5, <1>6, <1>7, <1>8 DEF Accept, CheckKeepAlive

LEMMA RecvSlot ==
    ASSUME Typed, pc = "recv"
    PROVE  /\ cur # None /\ cur \in User /\ cur.sock \in Socks
           /\ cur = conn[idx] /\ idx \in Slots
           /\ LoggedIn => Me \in Names
<1>1. cur # None
  BY DEF Typed, RecvOccupied
<1>2. QED
  BY <1>1, SlotUpdates DEF Typed, TypeOK, cur, Me, Account

LEMMA RespondTable ==
    ASSUME NEW table, NEW s, NEW m, NEW place, Respond(table, s, m, place)
    PROVE  /\ conn' \in {table, NoConnections}
           /\ conn' = table \/ pc' = "down"
  BY DEF Respond, Die

LEMMA SilentTable ==
    ASSUME NEW table, NEW place, Silently(table, place) \/ SQLException(table)
    PROVE  conn' = table
  BY DEF SQLException, Silently

\* The requests that leave the tables alone.
LEMMA QuietSteps ==
    ASSUME Typed,
           \/ Ignore \/ CMSG_KEEP_ALIVE \/ CMSG_LOGOUT \/ CMSG_GRAB_CONTACTS
           \/ \E to \in Names, text \in Texts : CMSG_SEND_CHAT_MESSAGE(to, text)
    PROVE  UNCHANGED data /\ SessionsFrom(users)
<1> USE SilentTable, RespondTable, OldTable
<1>1. pc = "recv" /\ TypeOK
  BY DEF Ignore, CMSG_KEEP_ALIVE, CMSG_LOGOUT, CMSG_GRAB_CONTACTS, CMSG_SEND_CHAT_MESSAGE,
         Receives, Typed
<1>2. cur \in User /\ cur = conn[idx] /\ cur # None /\ idx \in Slots
  BY <1>1, RecvSlot
<1>3. CASE Ignore
  BY <1>3 DEF Ignore, data
<1>4. CASE CMSG_KEEP_ALIVE
  <2> DEFINE u == [cur EXCEPT !.klFlagged = FALSE]
  <2>1. conn' = [conn EXCEPT ![idx] = u] /\ UNCHANGED data
    BY <1>4 DEF CMSG_KEEP_ALIVE, cur
  <2>2. u.account = conn[idx].account
    BY <1>2 DEF User
  <2> HIDE DEF u
  <2>3. QED
    BY <1>1, <1>2, <2>1, <2>2, NewTable
<1>5. CASE CMSG_LOGOUT
  <2> DEFINE u == [cur EXCEPT !.account = None]
  <2>1. conn' = [conn EXCEPT ![idx] = u] /\ UNCHANGED data
    BY <1>5 DEF CMSG_LOGOUT, cur
  <2>2. u.account = None
    BY <1>2 DEF User
  <2> HIDE DEF u
  <2>3. QED
    BY <1>1, <1>2, <2>1, <2>2, NewTable
<1>6. CASE CMSG_GRAB_CONTACTS
  BY <1>6 DEF CMSG_GRAB_CONTACTS, data
<1>7. ASSUME NEW to \in Names, NEW text \in Texts, CMSG_SEND_CHAT_MESSAGE(to, text)
      PROVE  UNCHANGED data /\ SessionsFrom(users)
  BY <1>7 DEF CMSG_SEND_CHAT_MESSAGE
<1>8. QED
  BY <1>3, <1>4, <1>5, <1>6, <1>7

LEMMA RegisterSteps ==
    ASSUME Typed, NEW n \in Names, NEW p \in Passwords, CMSG_REGISTER(n, p)
    PROVE  Statement /\ SessionsFrom(users)
<1>1. conn' \in {conn, NoConnections}
  BY SilentTable, RespondTable DEF CMSG_REGISTER
<1>2. UNCHANGED data \/ Inserts(n, p)
  BY DEF CMSG_REGISTER, Inserts
<1>3. QED
  BY <1>1, <1>2, OldTable DEF Statement

LEMMA LoginSteps ==
    ASSUME Typed, NEW n \in Names, NEW p \in Passwords, CMSG_LOGIN(n, p)
    PROVE  Statement /\ SessionsFrom(users)
<1> DEFINE a(r) == [id |-> r.id, name |-> r.name]
           Session(r, t) == [conn EXCEPT ![idx].account = a(r), ![idx].sso = t]
<1>1. TypeOK /\ cur \in User /\ cur = conn[idx] /\ idx \in Slots
  BY RecvSlot DEF CMSG_LOGIN, Receives, Typed
<1>2. ASSUME NEW r \in users, NEW t \in Tokens, conn' = Session(r, t)
      PROVE  SessionsFrom(users) /\ conn'[idx].account = a(r)
  <2> DEFINE v == [cur EXCEPT !.account = a(r)]
             u == [v EXCEPT !.sso = t]
  <2>1. a(r) \in Account
    BY <1>1 DEF TypeOK, Row, Account
  <2>2. v \in User /\ v.account = a(r)
    BY <1>1, <2>1 DEF User
  <2>3. u.account = a(r)
    BY <2>2 DEF User
  <2>4. conn' = [conn EXCEPT ![idx] = u]
    BY <1>1, <1>2 DEF TypeOK
  <2> HIDE DEF u, v
  <2>5. conn'[idx].account = a(r)
    BY <1>1, <2>3, <2>4 DEF TypeOK
  <2>6. QED
    BY <1>1, <2>3, <2>4, <2>5, NewTable
<1>3. CASE conn' \in {conn, NoConnections} /\ UNCHANGED data
  BY <1>3, OldTable DEF Statement
<1>4. ASSUME NEW r \in users, NEW t \in Tokens, conn' \in {Session(r, t), NoConnections},
             conn' = Session(r, t) \/ pc' = "down", UNCHANGED data \/ Updates(r, t)
      PROVE  Statement /\ SessionsFrom(users)
  <2>1. SessionsFrom(users)
    BY <1>2, <1>4, OldTable
  <2>2. LogsIn(r)
    BY <1>2, <1>4 DEF LogsIn, CMSG_LOGIN, Receives
  <2>3. QED
    BY <1>4, <2>1, <2>2 DEF Statement
<1>5. QED
  <2>1. CASE SQLException(conn) /\ UNCHANGED data
    BY <1>3, <2>1, SilentTable
  <2>2. CASE /\ Respond(conn, cur.sock, [kind |-> "SMSG_UNSUCCESSFUL_LOGIN"], Return)
             /\ UNCHANGED data
    BY <1>3, <2>2, RespondTable
  <2>3. ASSUME NEW r \in users, NEW t \in Tokens, SQLException(Session(r, t)),
               UNCHANGED data \/ Updates(r, t)
        PROVE  Statement /\ SessionsFrom(users)
    BY <1>4, <2>3, SilentTable
  <2>4. ASSUME NEW r \in users, NEW t \in Tokens, Updates(r, t),
               Respond(Session(r, t), cur.sock,
                       [kind |-> "SMSG_SUCCESSFUL_LOGIN", name |-> n, token |-> t], Return)
        PROVE  Statement /\ SessionsFrom(users)
    BY <1>4, <2>4, RespondTable
  <2>5. QED
    BY <2>1, <2>2, <2>3, <2>4 DEF CMSG_LOGIN, Updates

LEMMA AccountSteps ==
    ASSUME Typed,
           \/ CMSG_DELETE_ACCOUNT
           \/ \E f \in Names : CMSG_ADD_CONTACT(f) \/ CMSG_DELETE_CONTACT(f)
    PROVE  Statement /\ SessionsFrom(users)
<1>1. pc = "recv" /\ LoggedIn /\ TypeOK
  BY DEF CMSG_DELETE_ACCOUNT, CMSG_ADD_CONTACT, CMSG_DELETE_CONTACT, Receives, Typed
<1>2. cur \in User /\ cur = conn[idx] /\ idx \in Slots /\ Acting
  BY <1>1, RecvSlot DEF Acting
<1>3. CASE CMSG_DELETE_ACCOUNT
  <2> DEFINE u == [cur EXCEPT !.account = None]
  <2>1. u.account = None
    BY <1>2 DEF User
  <2>2. conn' = conn \/ conn' = [conn EXCEPT ![idx] = u]
    BY <1>3, <1>2, SilentTable DEF CMSG_DELETE_ACCOUNT, cur
  <2> HIDE DEF u
  <2>3. SessionsFrom(users)
    BY <1>1, <1>2, <2>1, <2>2, NewTable, OldTable
  <2>4. \E k \in 0 .. 3 : Deleted(k, IdsOf(Me))
    BY <1>3 DEF CMSG_DELETE_ACCOUNT, Me
  <2>5. QED
    BY <1>2, <2>3, <2>4 DEF Statement
<1>4. ASSUME NEW f \in Names, CMSG_ADD_CONTACT(f)
      PROVE  Statement /\ SessionsFrom(users)
  <2>1. conn' = conn
    BY <1>4, SilentTable DEF CMSG_ADD_CONTACT
  <2>2. UNCHANGED data \/ Adds(f)
    BY <1>4 DEF CMSG_ADD_CONTACT, Adds, Me
  <2>3. QED
    BY <1>2, <2>1, <2>2, OldTable DEF Statement
<1>5. ASSUME NEW f \in Names, CMSG_DELETE_CONTACT(f)
      PROVE  Statement /\ SessionsFrom(users)
  <2>1. conn' = conn
    BY <1>5, SilentTable DEF CMSG_DELETE_CONTACT
  <2>2. UNCHANGED data \/ Removes(f)
    BY <1>5 DEF CMSG_DELETE_CONTACT, Removes, Me
  <2>3. QED
    BY <1>2, <2>1, <2>2, OldTable DEF Statement
<1>6. QED
  BY <1>3, <1>4, <1>5

LEMMA EveryStep ==
    ASSUME Typed, [Next]_vars
    PROVE  Statement /\ SessionsFrom(users)
<1>1. CASE Handle
  BY <1>1, QuietSteps, RegisterSteps, LoginSteps, AccountSteps DEF Handle, Statement
<1>2. CASE ~Handle
  BY <1>2, ThreadSteps DEF Next, WorldUpdate, Statement
<1>3. QED
  BY <1>1, <1>2
-----------------------------------------------------------------------------
(* Tables.  That ids are unique needs that the next id is beyond all of them. *)

IdsGiven == \A r \in users : r.id < nextId

TablesInv == UniqueUsers /\ IdsGiven /\ NoDanglingContacts /\ NoDuplicateContacts

LEMMA IdsOfUsers ==
    ASSUME TypeOK, NEW n
    PROVE  /\ IdsOf(n) \subseteq Ids
           /\ NoId \notin IdsOf(n)
           /\ \A x : x \in IdsOf(n) <=> \E r \in users : r.id = x /\ r.name = n
  BY DEF IdsOf, TypeOK, Row, Ids, NoId

LEMMA InsertsTables ==
    ASSUME TypeOK, TablesInv, NEW n \in Names, NEW p \in Passwords, Inserts(n, p)
    PROVE  TablesInv'
<1> DEFINE new == [id |-> nextId, name |-> n, pass |-> p, sso |-> None]
<1>1. /\ users' = users \union {new} /\ new.id = nextId /\ new.name = n
      /\ nextId' = nextId + 1 /\ contacts' = contacts
  BY DEF Inserts
<1>2. \A r \in users : r.name # n /\ r.id < nextId /\ r.id \in Nat
  BY DEF Inserts, Taken, TablesInv, IdsGiven, TypeOK, Row, Ids
<1>3. nextId \in Nat
  BY DEF TypeOK
<1> HIDE DEF new
<1>4. UniqueUsers'
  BY <1>1, <1>2, <1>3 DEF TablesInv, UniqueUsers
<1>5. IdsGiven'
  BY <1>1, <1>2, <1>3 DEF IdsGiven
<1>6. NoDanglingContacts'
  BY <1>1 DEF TablesInv, NoDanglingContacts
<1>7. NoDuplicateContacts'
  BY <1>1 DEF TablesInv, NoDuplicateContacts
<1>8. QED
  BY <1>4, <1>5, <1>6, <1>7 DEF TablesInv

\* An update of the token, as every later argument needs it.
LEMMA UpdatedRows ==
    ASSUME TypeOK, NEW r \in users, NEW t \in Tokens, Updates(r, t)
    PROVE  /\ \A q \in users : \E q2 \in users' : q2.id = q.id /\ q2.name = q.name
           /\ \A q2 \in users' : \E q \in users : q2.id = q.id /\ q2.name = q.name
           /\ \A q2 \in users' : q2 \in users \/ q2 = [r EXCEPT !.sso = t]
<1>1. r \in Row
  BY DEF TypeOK
<1>2. [r EXCEPT !.sso = t].id = r.id /\ [r EXCEPT !.sso = t].name = r.name
  BY <1>1 DEF Row
<1>3. QED
  BY <1>2 DEF Updates

LEMMA UpdatesTables ==
    ASSUME TypeOK, TablesInv, NEW r \in users, NEW t \in Tokens, Updates(r, t)
    PROVE  TablesInv'
<1> USE UpdatedRows DEF TablesInv
<1>1. UNCHANGED <<contacts, nextId>>
  BY DEF Updates
<1>2. UniqueUsers'
  <2> DEFINE new == [r EXCEPT !.sso = t]
  <2>1. users' = (users \ {r}) \union {new}
    BY DEF Updates
  <2>2. r \in Row
    BY DEF TypeOK
  <2>3. new.id = r.id /\ new.name = r.name
    BY <2>2 DEF Row
  <2> HIDE DEF new
  <2>4. QED
    BY <2>1, <2>3 DEF UniqueUsers
<1>3. IdsGiven'
  BY <1>1 DEF IdsGiven
<1>4. NoDanglingContacts'
  BY <1>1 DEF NoDanglingContacts
<1>5. NoDuplicateContacts'
  BY <1>1 DEF NoDuplicateContacts
<1>6. QED
  BY <1>2, <1>3, <1>4, <1>5

\* What an account's deletion leaves, whichever of its statements were executed.
LEMMA DeletedTables ==
    ASSUME TypeOK, TablesInv, NEW k \in 0 .. 3, NEW ids, Deleted(k, ids)
    PROVE  TablesInv'
<1> USE DEF TablesInv
<1>1. users' \subseteq users /\ nextId' = nextId
  BY DEF Deleted
<1>2. \A x \in Pairs : contacts'[x] \in {0, contacts[x]}
  BY DEF Deleted
<1>3. UniqueUsers' /\ IdsGiven'
  BY <1>1 DEF UniqueUsers, IdsGiven
<1>4. NoDuplicateContacts'
  BY <1>2 DEF NoDuplicateContacts
<1>5. NoDanglingContacts'
  <2> SUFFICES ASSUME NEW x \in Pairs, contacts'[x] > 0
               PROVE  /\ \E r \in users' : r.id = x[2]
                      /\ x[1] # NoId => \E r \in users' : r.id = x[1]
    BY DEF NoDanglingContacts
  <2>1. contacts[x] > 0
    BY <1>2
  <2>2. /\ \E r \in users : r.id = x[2]
        /\ x[1] # NoId => \E r \in users : r.id = x[1]
    BY <2>1 DEF NoDanglingContacts
  <2>3. CASE k = 3
    <3>1. x[1] \notin ids /\ x[2] \notin ids
      BY <2>3 DEF Deleted
    <3>2. users' = {r \in users : r.id \notin ids}
      BY <2>3 DEF Deleted
    <3>3. QED
      BY <2>2, <3>1, <3>2
  <2>4. CASE k # 3
    BY <2>2, <2>4 DEF Deleted
  <2>5. QED
    BY <2>3, <2>4
<1>6. QED
  BY <1>3, <1>4, <1>5

LEMMA AddsTables ==
    ASSUME TypeOK, TablesInv, NEW f \in Names, Adds(f)
    PROVE  TablesInv'
<1> USE DEF TablesInv
<1>1. UNCHANGED <<users, nextId>>
  BY DEF Adds
<1>2. \A x \in Pairs : contacts'[x] = IF x \in OwnersOf(Me) \X IdsOf(f) THEN contacts[x] + 1
                                                                          ELSE contacts[x]
  BY DEF Adds
<1>3. UniqueUsers' /\ IdsGiven'
  BY <1>1 DEF UniqueUsers, IdsGiven
<1>4. ASSUME NEW x \in Pairs, x \in OwnersOf(Me) \X IdsOf(f)
      PROVE  /\ x[2] \in IdsOf(f)
             /\ x[1] # NoId => x[1] \in IdsOf(Me) /\ contacts[x] = 0
  <2>1. x[2] \in IdsOf(f) /\ (x[1] # NoId => x[1] \in IdsOf(Me))
    BY <1>4 DEF OwnersOf
  <2>2. x[1] \in IdsOf(Me) => x \in RowsOf(Me, f)
    BY <1>4 DEF RowsOf
  <2>3. contacts[x] \in Nat
    BY DEF TypeOK
  <2>4. QED
    BY <2>1, <2>2, <2>3 DEF Adds, AreContacts
<1>5. NoDuplicateContacts'
  BY <1>2, <1>4 DEF NoDuplicateContacts
<1>6. NoDanglingContacts'
  BY <1>1, <1>2, <1>4, IdsOfUsers DEF NoDanglingContacts
<1>7. QED
  BY <1>3, <1>5, <1>6

LEMMA RemovesTables ==
    ASSUME TypeOK, TablesInv, NEW f \in Names, Removes(f)
    PROVE  TablesInv'
<1>1. UNCHANGED <<users, nextId>> /\ \A x \in Pairs : contacts'[x] \in {0, contacts[x]}
  BY DEF Removes
<1>2. QED
  BY <1>1 DEF TablesInv, UniqueUsers, IdsGiven, NoDanglingContacts, NoDuplicateContacts

LEMMA StatementTables ==
    ASSUME TypeOK, TablesInv, Statement
    PROVE  TablesInv'
<1>1. CASE UNCHANGED data
  BY <1>1 DEF data, TablesInv, UniqueUsers, IdsGiven, NoDanglingContacts, NoDuplicateContacts
<1>2. QED
  BY <1>1, InsertsTables, UpdatesTables, DeletedTables, AddsTables, RemovesTables DEF Statement
-----------------------------------------------------------------------------
(* Sessions.                                                                *)

\* The account a session caches is the user of that id, or of a deleted one.
Valid(a) == a.id < nextId /\ \A r \in users : r.id = a.id => r.name = a.name

ChatInv == Typed /\ TablesInv /\ SessionIdentity

LEMMA ValidAccounts ==
    SessionIdentity <=> \A i \in Used : conn[i].account # None => Valid(conn[i].account)
  BY DEF SessionIdentity, Valid

\* The same in the next state, of an account of this one.
ValidNext(a) == a.id < nextId' /\ \A r \in users' : r.id = a.id => r.name = a.name

\* What was valid stays so: ids are never handed out again and users keep their names.
LEMMA StaysValid ==
    ASSUME TypeOK, TablesInv, Statement, NEW a, a.id \in Nat, Valid(a)
    PROVE  ValidNext(a)
<1>1. CASE UNCHANGED data
  BY <1>1 DEF data, Valid, ValidNext
<1>2. ASSUME NEW n \in Names, NEW p \in Passwords, Inserts(n, p)
      PROVE  ValidNext(a)
  <2> DEFINE new == [id |-> nextId, name |-> n, pass |-> p, sso |-> None]
  <2>1. users' = users \union {new} /\ new.id = nextId /\ nextId' = nextId + 1
    BY <1>2 DEF Inserts
  <2> HIDE DEF new
  <2>2. nextId \in Nat
    BY DEF TypeOK
  <2>3. QED
    BY <2>1, <2>2 DEF Valid, ValidNext
<1>3. ASSUME NEW r \in users, NEW t \in Tokens, Updates(r, t)
      PROVE  ValidNext(a)
  <2>1. nextId' = nextId
    BY <1>3 DEF Updates
  <2>2. QED
    BY <1>3, <2>1, UpdatedRows DEF Valid, ValidNext
<1>4. ASSUME users' \subseteq users, nextId' = nextId
      PROVE  ValidNext(a)
  BY <1>4 DEF Valid, ValidNext
<1>5. QED
  BY <1>1, <1>2, <1>3, <1>4 DEF Statement, Deleted, Adds, Removes

LEMMA FoundIsValid ==
    ASSUME TypeOK, TablesInv, NEW r \in users
    PROVE  Valid([id |-> r.id, name |-> r.name])
  BY DEF TablesInv, UniqueUsers, IdsGiven, Valid

LEMMA NextSessions ==
    ASSUME ChatInv, Statement, SessionsFrom(users)
    PROVE  SessionIdentity'
<1> SUFFICES ASSUME NEW i \in Used', conn'[i].account # None
             PROVE  ValidNext(conn'[i].account)
  BY DEF SessionIdentity, ValidNext
<1> USE DEF ChatInv, Typed
<1>1. CASE i \in Used /\ conn'[i].account = conn[i].account
  <2>1. conn[i].account \in Account
    BY <1>1 DEF TypeOK, User, Used
  <2>2. conn[i].account.id \in Nat
    BY <2>1 DEF Account, Ids
  <2>3. Valid(conn[i].account)
    BY <1>1, ValidAccounts
  <2>4. ValidNext(conn[i].account)
    BY <2>2, <2>3, StaysValid
  <2>5. QED
    BY <1>1, <2>4
<1>2. ASSUME NEW r \in users, conn'[i].account = [id |-> r.id, name |-> r.name]
      PROVE  ValidNext(conn'[i].account)
  <2>1. r.id \in Nat
    BY DEF TypeOK, Row, Ids
  <2>2. ValidNext([id |-> r.id, name |-> r.name])
    BY <2>1, FoundIsValid, StaysValid
  <2>3. QED
    BY <1>2, <2>2
<1>3. QED
  BY <1>1, <1>2 DEF SessionsFrom

LEMMA InitChat == Init => ChatInv
<1>1. Init => TablesInv /\ SessionIdentity
  BY DEF Init, TablesInv, UniqueUsers, IdsGiven, NoDanglingContacts, NoDuplicateContacts,
         SessionIdentity, Used, NoConnections
<1>2. QED
  BY <1>1, InitTyped DEF ChatInv

LEMMA NextChat ==
    ASSUME ChatInv, [Next]_vars
    PROVE  ChatInv'
  BY NextTyped, EveryStep, StatementTables, NextSessions DEF ChatInv, Typed

LEMMA ChatInvariant == Spec => []ChatInv
  BY InitChat, NextChat, PTL DEF Spec

\* Registration gives no name and no id to two users, with nothing but the handler's own
\* SELECT to ensure it, and across crashes between the statements.
THEOREM UsersUnique == Spec => []UniqueUsers
<1>1. ChatInv => UniqueUsers
  BY DEF ChatInv, TablesInv
<1>2. QED
  BY <1>1, ChatInvariant, PTL

\* Wherever an account's deletion stops, no row of Contacts names a user that is gone.
THEOREM ContactsExist == Spec => []NoDanglingContacts
<1>1. ChatInv => NoDanglingContacts
  BY DEF ChatInv, TablesInv
<1>2. QED
  BY <1>1, ChatInvariant, PTL

\* Nobody has a contact twice, although it is added in two statements.
THEOREM ContactsOnce == Spec => []NoDuplicateContacts
<1>1. ChatInv => NoDuplicateContacts
  BY DEF ChatInv, TablesInv
<1>2. QED
  BY <1>1, ChatInvariant, PTL

\* However long a session outlives its account, the id it has cached never becomes
\* somebody else's.
THEOREM SessionsKeepIdentity == Spec => []SessionIdentity
<1>1. ChatInv => SessionIdentity
  BY DEF ChatInv
<1>2. QED
  BY <1>1, ChatInvariant, PTL
-----------------------------------------------------------------------------
(* Who may change what.                                                     *)

\* The session's own id, if its row is there, is the only one of its name.
LEMMA OwnIds ==
    ASSUME ChatInv, Acting
    PROVE  OwnOrNamesakes = IdsOf(Me)
<1>1. TypeOK /\ pc = "recv" /\ LoggedIn /\ cur \in User /\ cur = conn[idx] /\ idx \in Used
  BY RecvSlot DEF ChatInv, Typed, Acting, Used
<1>2. CASE \E r \in users : r.id = cur.account.id
  <2>1. PICK r \in users : r.id = cur.account.id
    BY <1>2
  <2>2. r.name = Me
    BY <1>1, <2>1 DEF ChatInv, SessionIdentity, LoggedIn, Me
  <2>3. \A x : x \in IdsOf(Me) <=> x = cur.account.id
    BY <1>1, <2>1, <2>2, IdsOfUsers DEF ChatInv, TablesInv, UniqueUsers
  <2>4. QED
    BY <1>1, <1>2, <2>3 DEF OwnOrNamesakes
<1>3. QED
  BY <1>1, <1>2 DEF OwnOrNamesakes, Me

ContactRowsOwn ==
    \A x \in Pairs :
      /\ contacts'[x] > contacts[x] => x[1] \in OwnOrNamesakes \union {NoId}
      /\ contacts'[x] < contacts[x] => {x[1], x[2]} \intersect OwnOrNamesakes # {}

UserRowsOwn ==
    /\ \A r \in users \ users' :
         \/ r.id \in OwnOrNamesakes /\ \A q \in users' : q.id # r.id
         \/ /\ pc = "recv" /\ ~LoggedIn
            /\ \E t \in Tokens : [r EXCEPT !.sso = t] \in users'
            /\ pc' = "down" \/ conn'[idx].account = [id |-> r.id, name |-> r.name]
    /\ \A q \in users' \ users :
         q.id = nextId \/ \E r \in users \ users' : q = [r EXCEPT !.sso = q.sso]

LEMMA OwnRows ==
    ASSUME ChatInv, [Next]_vars
    PROVE  ContactRowsOwn /\ UserRowsOwn
<1>1. TypeOK /\ Statement
  BY EveryStep DEF ChatInv, Typed
<1>2. \A x \in Pairs : contacts[x] \in Nat
  BY <1>1 DEF TypeOK
<1>3. Acting => OwnOrNamesakes = IdsOf(Me)
  BY OwnIds
<1>4. ASSUME UNCHANGED users, \A x \in Pairs : contacts'[x] > contacts[x]
                                => Acting /\ x[1] \in IdsOf(Me) \union {NoId},
             \A x \in Pairs : contacts'[x] < contacts[x] => Acting /\ x[1] \in IdsOf(Me)
      PROVE  ContactRowsOwn /\ UserRowsOwn
  BY <1>3, <1>4 DEF ContactRowsOwn, UserRowsOwn
<1>5. CASE UNCHANGED data
  BY <1>2, <1>4, <1>5 DEF data
<1>6. ASSUME UNCHANGED contacts
      PROVE  ContactRowsOwn
  BY <1>2, <1>6 DEF ContactRowsOwn
<1>7. ASSUME NEW n \in Names, NEW p \in Passwords, Inserts(n, p)
      PROVE  ContactRowsOwn /\ UserRowsOwn
  <2> DEFINE new == [id |-> nextId, name |-> n, pass |-> p, sso |-> None]
  <2>1. users' = users \union {new} /\ new.id = nextId /\ UNCHANGED contacts
    BY <1>7 DEF Inserts
  <2> HIDE DEF new
  <2>2. UserRowsOwn
    BY <2>1 DEF UserRowsOwn
  <2>3. QED
    BY <1>6, <2>1, <2>2
<1>8. ASSUME NEW r \in users, NEW t \in Tokens, Updates(r, t), LogsIn(r)
      PROVE  ContactRowsOwn /\ UserRowsOwn
  <2> DEFINE new == [r EXCEPT !.sso = t]
  <2>1. users' = (users \ {r}) \union {new} /\ UNCHANGED contacts
    BY <1>8 DEF Updates
  <2>2. r \in Row
    BY <1>1 DEF TypeOK
  <2>3. new.sso = t
    BY <2>2 DEF Row
  <2>4. \A q \in users' \ users : q = new /\ r \in users \ users' /\ q = [r EXCEPT !.sso = q.sso]
    <3>1. ASSUME NEW q \in users' \ users
          PROVE  q = new /\ q # r
      BY <2>1, <3>1
    <3>2. ASSUME NEW q \in users' \ users
          PROVE  r \notin users'
      BY <2>1, <3>1, <3>2
    <3>3. QED
      BY <2>3, <3>1, <3>2
  <2>5. \A q \in users \ users' : q = r /\ [q EXCEPT !.sso = t] \in users'
    BY <2>1
  <2>6. UserRowsOwn
    BY <1>8, <2>4, <2>5 DEF UserRowsOwn, LogsIn
  <2>7. QED
    BY <1>6, <2>1, <2>6
<1>9. ASSUME NEW k \in 0 .. 3, Acting, Deleted(k, IdsOf(Me))
      PROVE  ContactRowsOwn /\ UserRowsOwn
  <2>1. ContactRowsOwn
    BY <1>2, <1>3, <1>9 DEF Deleted, ContactRowsOwn
  <2>2. users' = users \/ users' = {r \in users : r.id \notin IdsOf(Me)}
    BY <1>9 DEF Deleted
  <2>3. UserRowsOwn
    BY <1>3, <1>9, <2>2 DEF UserRowsOwn
  <2>4. QED
    BY <2>1, <2>3
<1>10. ASSUME NEW f \in Names, Acting, Adds(f)
       PROVE  ContactRowsOwn /\ UserRowsOwn
  BY <1>2, <1>4, <1>10 DEF Adds, OwnersOf
<1>11. ASSUME NEW f \in Names, Acting, Removes(f)
       PROVE  ContactRowsOwn /\ UserRowsOwn
  BY <1>2, <1>4, <1>11 DEF Removes, RowsOf
<1>12. QED
  BY <1>1, <1>5, <1>7, <1>8, <1>9, <1>10, <1>11 DEF Statement

\* A session changes only its own account's rows, contacts and user, while that account
\* exists, and afterwards at most those of the account that has its name; a token changes
\* only in the login of its user.
THEOREM OthersRowsUntouched == Spec => OnlyOwnOrNamesakesRowsChange
<1>1. ChatInv /\ [Next]_vars => [ContactRowsOwn /\ UserRowsOwn]_vars
  BY OwnRows
<1>2. QED
  BY InitChat, NextChat, <1>1, PTL
  DEF Spec, OnlyOwnOrNamesakesRowsChange, ContactRowsOwn, UserRowsOwn
-----------------------------------------------------------------------------
(* What clients are told.                                                   *)

\* The two messages that name a session; a step that sends neither.
Uneventful == \A m \in sent' : m[2].kind \notin {"SMSG_SUCCESSFUL_LOGIN", "SMSG_SEND_CHAT_MESSAGE"}

ReplyTrue(m) ==
    /\ m[2].kind = "SMSG_SUCCESSFUL_LOGIN" =>
         /\ conn'[idx].account.name = m[2].name
         /\ \E r \in users' : /\ r.id = conn'[idx].account.id
                              /\ r.name = m[2].name /\ r.sso = m[2].token
    /\ m[2].kind = "SMSG_SEND_CHAT_MESSAGE" =>
         /\ cur.account.name = m[2].from
         /\ \E j \in Used : /\ conn[j].sock = m[1] /\ conn[j].account # None
                           /\ \A k \in Used : SessionOf(k, conn[j].account.name) => k >= j

LEMMA UneventfulTrue ==
    ASSUME Uneventful
    PROVE  \A m \in sent' : ReplyTrue(m)
  BY DEF Uneventful, ReplyTrue

LEMMA RespondSends ==
    ASSUME NEW table, NEW s, NEW m, NEW place, Respond(table, s, m, place)
    PROVE  sent' \subseteq {<<s, m>>} /\ (sent' # {} => conn' = table)
  BY DEF Respond, Deliver, Die

LEMMA SilentSends ==
    ASSUME NEW table, NEW place, Silently(table, place) \/ SQLException(table)
    PROVE  sent' = {}
  BY DEF SQLException, Silently

LEMMA UneventfulSteps ==
    ASSUME \/ (\E connected \in BOOLEAN : Boot(connected)) \/ Wake \/ WakeWithoutConnection
           \/ Accept \/ CheckKeepAlive \/ Environment
           \/ Ignore \/ CMSG_KEEP_ALIVE \/ CMSG_LOGOUT \/ CMSG_GRAB_CONTACTS
           \/ CMSG_DELETE_ACCOUNT
           \/ \E n \in Names, p \in Passwords : CMSG_REGISTER(n, p)
           \/ \E f \in Names : CMSG_ADD_CONTACT(f) \/ CMSG_DELETE_CONTACT(f)
    PROVE  Uneventful
<1> USE DEF Uneventful
<1>1. CASE (\E connected \in BOOLEAN : Boot(connected)) \/ Wake \/ WakeWithoutConnection
  BY <1>1 DEF Boot, Wake, WakeWithoutConnection, Die
<1>2. CASE AcceptNobody \/ \E s \in Socks : AcceptIntoFullTable(s)
  BY <1>2 DEF AcceptNobody, AcceptIntoFullTable, Silently
<1>3. ASSUME NEW s \in Socks, NEW i \in Slots, AcceptClient(s, i)
      PROVE  Uneventful
  <2> DEFINE m == [kind |-> "SMSG_CONNECTED"]
  <2>1. sent' = {} \/ Deliver(s, m)
    BY <1>3 DEF AcceptClient, Die
  <2>2. sent' \subseteq {<<s, m>>} /\ m.kind = "SMSG_CONNECTED"
    BY <2>1 DEF Deliver
  <2>3. QED
    BY <2>2
<1>4. CASE SkipFreeSlot \/ NotDue \/ Reap
  BY <1>4 DEF SkipFreeSlot, NotDue, Reap, Silently
<1>5. CASE Probe
  <2>1. sent' \subseteq {<<cur.sock, [kind |-> "SMSG_KEEP_ALIVE"]>>}
    BY <1>5, RespondSends DEF Probe
  <2>2. QED
    BY <2>1
<1>6. CASE Environment
  BY <1>6 DEF Environment, Elapse, Connect, PeerCloses
<1>7. CASE Ignore \/ CMSG_KEEP_ALIVE \/ CMSG_LOGOUT \/ CMSG_DELETE_ACCOUNT
  BY <1>7, SilentSends DEF Ignore, CMSG_KEEP_ALIVE, CMSG_LOGOUT, CMSG_DELETE_ACCOUNT
<1>8. CASE CMSG_GRAB_CONTACTS
  <2>1. sent' = {} \/ \E S : sent' \subseteq {<<cur.sock, [kind |-> "SMSG_SEND_CONTACTS", names |-> S]>>}
    BY <1>8, SilentSends, RespondSends DEF CMSG_GRAB_CONTACTS
  <2>2. QED
    BY <2>1
<1>9. ASSUME NEW n \in Names, NEW p \in Passwords, CMSG_REGISTER(n, p)
      PROVE  Uneventful
  <2>1. \/ sent' = {}
        \/ sent' \subseteq {<<cur.sock, [kind |-> "SMSG_ACCOUNT_ALREADY_EXISTS"]>>}
        \/ sent' \subseteq {<<cur.sock, [kind |-> "SMSG_ACCOUNT_CREATED"]>>}
    BY <1>9, SilentSends, RespondSends DEF CMSG_REGISTER
  <2>2. QED
    BY <2>1
<1>10. ASSUME NEW f \in Names, CMSG_ADD_CONTACT(f) \/ CMSG_DELETE_CONTACT(f)
       PROVE  Uneventful
  BY <1>10, SilentSends DEF CMSG_ADD_CONTACT, CMSG_DELETE_CONTACT
<1>11. QED
  BY <1>1, <1>2, <1>3, <1>4, <1>5, <1>6, <1>7, <1>8, <1>9, <1>10 DEF Accept, CheckKeepAlive

\* A login is confirmed only when both the slot and the row hold what the reply says.
LEMMA LoginReply ==
    ASSUME Typed, NEW n \in Names, NEW p \in Passwords, CMSG_LOGIN(n, p), NEW m \in sent'
    PROVE  ReplyTrue(m)
<1> DEFINE a(r) == [id |-> r.id, name |-> r.name]
           Session(r, t) == [conn EXCEPT ![idx].account = a(r), ![idx].sso = t]
           reply(t) == [kind |-> "SMSG_SUCCESSFUL_LOGIN", name |-> n, token |-> t]
<1>1. TypeOK /\ cur \in User /\ cur = conn[idx] /\ idx \in Slots
  BY RecvSlot DEF CMSG_LOGIN, Receives, Typed
<1>2. CASE Respond(conn, cur.sock, [kind |-> "SMSG_UNSUCCESSFUL_LOGIN"], Return)
  <2>1. m = <<cur.sock, [kind |-> "SMSG_UNSUCCESSFUL_LOGIN"]>>
    BY <1>2, RespondSends
  <2>2. QED
    BY <2>1 DEF ReplyTrue
<1>3. ASSUME NEW r \in users, NEW t \in Tokens, r.name = n, Updates(r, t),
             Respond(Session(r, t), cur.sock, reply(t), Return)
      PROVE  ReplyTrue(m)
  <2>1. m = <<cur.sock, reply(t)>> /\ conn' = Session(r, t)
    BY <1>3, RespondSends
  <2>2. conn'[idx].account = a(r)
    <3> DEFINE v == [cur EXCEPT !.account = a(r)]
               u == [v EXCEPT !.sso = t]
    <3>1. a(r) \in Account
      BY <1>1 DEF TypeOK, Row, Account
    <3>2. v \in User /\ v.account = a(r)
      BY <1>1, <3>1 DEF User
    <3>3. u.account = a(r)
      BY <3>2 DEF User
    <3>4. conn' = [conn EXCEPT ![idx] = u]
      BY <1>1, <2>1 DEF TypeOK
    <3> HIDE DEF u, v
    <3>5. QED
      BY <1>1, <3>3, <3>4 DEF TypeOK
  <2> DEFINE q == [r EXCEPT !.sso = t]
  <2>3. q \in users'
    BY <1>3 DEF Updates
  <2>4. q.id = r.id /\ q.name = n /\ q.sso = t
    BY <1>1, <1>3 DEF TypeOK, Row
  <2> HIDE DEF q
  <2>5. conn'[idx].account.name = n /\ conn'[idx].account.id = r.id
    BY <1>3, <2>2
  <2>6. m[2].kind = "SMSG_SUCCESSFUL_LOGIN" /\ m[2].name = n /\ m[2].token = t
    BY <2>1
  <2>7. QED
    BY <2>3, <2>4, <2>5, <2>6 DEF ReplyTrue
<1>4. CASE sent' = {}
  BY <1>4
<1>5. QED
  <2>1. ASSUME NEW r \in users, NEW t \in Tokens, SQLException(Session(r, t))
        PROVE  sent' = {}
    BY <2>1, SilentSends
  <2>2. SQLException(conn) => sent' = {}
    BY SilentSends
  <2>3. QED
    BY <1>2, <1>3, <1>4, <2>1, <2>2 DEF CMSG_LOGIN, Updates

\* A message goes to the lowest slot its addressee is logged in on, from the sender.
LEMMA ChatReply ==
    ASSUME Typed, NEW to \in Names, NEW text \in Texts, CMSG_SEND_CHAT_MESSAGE(to, text),
           NEW m \in sent'
    PROVE  ReplyTrue(m)
<1> DEFINE chat == [kind |-> "SMSG_SEND_CHAT_MESSAGE", from |-> cur.account.name, text |-> text]
<1>1. PICK j \in Slots : FirstSession(j, to) /\ Respond(conn, conn[j].sock, chat, NextSlot)
  BY DEF CMSG_SEND_CHAT_MESSAGE
<1>2. m = <<conn[j].sock, chat>>
  BY <1>1, RespondSends
<1>3. m[1] = conn[j].sock /\ m[2].kind = "SMSG_SEND_CHAT_MESSAGE" /\ m[2].from = cur.account.name
  BY <1>2
<1>4. j \in Used /\ conn[j].account # None /\ conn[j].account.name = to
  BY <1>1 DEF FirstSession, SessionOf, Used
<1>5. ASSUME NEW k \in Used, SessionOf(k, to)
      PROVE  k >= j
  <2>1. k \in Slots /\ ~(k < j)
    BY <1>1, <1>5 DEF FirstSession, Used
  <2>2. QED
    BY <2>1, ServerAssumption DEF ServerAssumption, Slots
<1>6. QED
  BY <1>3, <1>4, <1>5 DEF ReplyTrue

\* A login's reply names the session the slot now holds and the token now stored, and
\* a chat message reaches its addressee's lowest session, from who really sent it.
THEOREM RepliesTrue == Spec => RepliesMatchSessions
<1>1. ASSUME ChatInv, Next
      PROVE  \A m \in sent' : ReplyTrue(m)
  BY <1>1, UneventfulSteps, UneventfulTrue, LoginReply, ChatReply
  DEF Next, WorldUpdate, Handle, ChatInv
<1>2. ChatInv /\ [Next]_vars => [\A m \in sent' : ReplyTrue(m)]_vars
  BY <1>1
<1>3. QED
  BY InitChat, NextChat, <1>2, PTL DEF Spec, RepliesMatchSessions, ReplyTrue
-----------------------------------------------------------------------------
(* The tables implement the directory of names.                             *)

Accounts == {r.name : r \in users}

\* Who has whom as a contact, through any row of users U and contacts C.
Unique(U) == \A r, q \in U : r.id = q.id \/ r.name = q.name => r = q

NameIn(U, id) == (CHOOSE r \in U : r.id = id).name

FriendsIn(U, C) ==
    LET ids == {r.id : r \in U}
    IN {<<NameIn(U, x[1]), NameIn(U, x[2])>> : x \in {y \in ids \X ids : C[y] > 0}}

Linked(U, C, a, b) == \E r, q \in U : r.name = a /\ q.name = b /\ C[<<r.id, q.id>>] > 0

Friends == {<<NameOf(x[1]), NameOf(x[2])>> :
              x \in {y \in Present \X Present : contacts[y] > 0}}

LEMMA FriendsMeaning ==
    /\ Friends = FriendsIn(users, contacts)
    /\ Friends' = FriendsIn(users', contacts')
<1>1. Friends = FriendsIn(users, contacts)
  BY DEF Friends, FriendsIn, NameIn, NameOf, Present
<1>2. Friends' = FriendsIn(users', contacts')
  BY DEF Friends, FriendsIn, NameIn, NameOf, Present
<1>3. QED
  BY <1>1, <1>2

LEMMA NameOfRow ==
    ASSUME NEW U, Unique(U), NEW r \in U
    PROVE  NameIn(U, r.id) = r.name
<1> DEFINE c == CHOOSE q \in U : q.id = r.id
<1>1. c \in U /\ c.id = r.id
  OBVIOUS
<1>2. c = r
  BY <1>1 DEF Unique
<1>3. QED
  BY <1>2 DEF NameIn

LEMMA FriendsAreLinked ==
    ASSUME NEW U, NEW C, Unique(U)
    PROVE  \A e : e \in FriendsIn(U, C) <=> \E a, b : e = <<a, b>> /\ Linked(U, C, a, b)
<1> DEFINE ids == {r.id : r \in U}
<1>1. ASSUME NEW e \in FriendsIn(U, C)
      PROVE  \E a, b : e = <<a, b>> /\ Linked(U, C, a, b)
  <2>1. PICK x \in ids \X ids : C[x] > 0 /\ e = <<NameIn(U, x[1]), NameIn(U, x[2])>>
    BY <1>1 DEF FriendsIn
  <2>2. PICK r \in U, q \in U : r.id = x[1] /\ q.id = x[2]
    BY <2>1
  <2>3. x = <<r.id, q.id>>
    BY <2>2
  <2>4. e = <<r.name, q.name>>
    BY <2>1, <2>2, NameOfRow
  <2>5. QED
    BY <2>1, <2>3, <2>4 DEF Linked
<1>2. ASSUME NEW a, NEW b, Linked(U, C, a, b)
      PROVE  <<a, b>> \in FriendsIn(U, C)
  <2>1. PICK r \in U, q \in U : r.name = a /\ q.name = b /\ C[<<r.id, q.id>>] > 0
    BY <1>2 DEF Linked
  <2> DEFINE x == <<r.id, q.id>>
  <2>2. x \in {y \in ids \X ids : C[y] > 0} /\ x[1] = r.id /\ x[2] = q.id
    BY <2>1
  <2>3. <<NameIn(U, x[1]), NameIn(U, x[2])>> = <<a, b>>
    BY <2>1, <2>2, NameOfRow
  <2> HIDE DEF x
  <2>4. QED
    BY <2>2, <2>3 DEF FriendsIn
<1>3. QED
  BY <1>1, <1>2

\* Two sets of rows that link the same names have the same friends.
LEMMA SameFriends ==
    ASSUME NEW U, NEW C, NEW V, NEW D, Unique(U), Unique(V),
           \A a, b : Linked(V, D, a, b) <=> Linked(U, C, a, b)
    PROVE  FriendsIn(V, D) = FriendsIn(U, C)
  BY FriendsAreLinked

LEMMA RowsTyped ==
    ASSUME TypeOK, UniqueUsers
    PROVE  /\ Unique(users)
           /\ \A r, q \in users : /\ <<r.id, q.id>> \in Pairs /\ r.id # NoId
                                  /\ contacts[<<r.id, q.id>>] \in Nat
           /\ \A r \in users : r.name \in Names
           /\ \A r \in users : \A n : r.id \in IdsOf(n) <=> r.name = n
<1>1. \A r \in users : r.id \in Ids /\ r.id # NoId /\ r.name \in Names
  BY DEF TypeOK, Row, Ids, NoId
<1>2. \A r, q \in users : <<r.id, q.id>> \in Pairs
  BY <1>1 DEF Pairs, Owners
<1>3. \A r \in users : \A n : r.id \in IdsOf(n) <=> r.name = n
  BY IdsOfUsers DEF UniqueUsers
<1>4. QED
  BY <1>1, <1>2, <1>3 DEF Unique, UniqueUsers, TypeOK

\* Friends are pairs of names, of users that exist.
LEMMA FriendsTyped ==
    ASSUME TypeOK, UniqueUsers
    PROVE  Friends \subseteq Accounts \X Accounts /\ Accounts \subseteq Names
<1>1. \A a, b : Linked(users, contacts, a, b) => a \in Accounts /\ b \in Accounts
  BY DEF Linked, Accounts
<1>2. QED
  BY <1>1, RowsTyped, FriendsAreLinked, FriendsMeaning DEF Accounts

\* How a step changes who is linked decides how it changes the friends.
LEMMA FriendsChange ==
    ASSUME UniqueUsers, UniqueUsers'
    PROVE  /\ \A a, b : <<a, b>> \in Friends <=> Linked(users, contacts, a, b)
           /\ \A a, b : <<a, b>> \in Friends' <=> Linked(users', contacts', a, b)
           /\ \A e \in Friends \union Friends' : \E a, b : e = <<a, b>>
<1>1. Unique(users) /\ Unique(users')
  BY DEF UniqueUsers, Unique
<1>2. Friends' = FriendsIn(users', contacts')
  BY FriendsMeaning
<1>3. /\ \A e : e \in Friends <=> \E a, b : e = <<a, b>> /\ Linked(users, contacts, a, b)
      /\ \A e : e \in Friends' <=> \E a, b : e = <<a, b>> /\ Linked(users', contacts', a, b)
  BY <1>1, <1>2, FriendsAreLinked, FriendsMeaning
<1>4. QED
  BY <1>3

LEMMA InsertsDirectory ==
    ASSUME TypeOK, TablesInv, TablesInv', NEW n \in Names, NEW p \in Passwords, Inserts(n, p)
    PROVE  n \notin Accounts /\ Accounts' = Accounts \union {n} /\ Friends' = Friends
<1> DEFINE new == [id |-> nextId, name |-> n, pass |-> p, sso |-> None]
<1>1. /\ users' = users \union {new} /\ new.id = nextId /\ new.name = n
      /\ contacts' = contacts /\ nextId \in Ids /\ ~Taken(n)
  BY DEF Inserts
<1> HIDE DEF new
<1>2. n \notin Accounts /\ Accounts' = Accounts \union {n}
  BY <1>1 DEF Accounts, Taken
<1>3. ASSUME NEW r \in users', NEW q \in users', contacts[<<r.id, q.id>>] > 0
      PROVE  r \in users /\ q \in users
  <2>1. r.id \in Ids /\ q.id \in Ids
    BY <1>1 DEF TypeOK, Row
  <2>2. <<r.id, q.id>> \in Pairs /\ r.id # NoId
    BY <2>1 DEF Pairs, Owners, Ids, NoId
  <2>3. (\E z \in users : z.id = r.id) /\ (\E z \in users : z.id = q.id)
    BY <1>3, <2>2 DEF TablesInv, NoDanglingContacts
  <2>4. \A z \in users : z.id # nextId
    BY DEF TablesInv, IdsGiven, TypeOK, Row, Ids
  <2>5. QED
    BY <1>1, <2>3, <2>4
<1>4. \A a, b : Linked(users', contacts', a, b) <=> Linked(users, contacts, a, b)
  BY <1>1, <1>3 DEF Linked
<1>5. QED
  BY <1>2, <1>4, FriendsChange DEF TablesInv

LEMMA UpdatesDirectory ==
    ASSUME TypeOK, TablesInv, TablesInv', NEW r \in users, NEW t \in Tokens, Updates(r, t)
    PROVE  Accounts' = Accounts /\ Friends' = Friends
<1>1. UNCHANGED contacts
  BY DEF Updates
<1>2. Accounts' = Accounts
  BY UpdatedRows DEF Accounts
<1>3. ASSUME NEW a, NEW b, Linked(users', contacts', a, b)
      PROVE  Linked(users, contacts, a, b)
  <2>1. PICK x \in users', y \in users' :
          x.name = a /\ y.name = b /\ contacts[<<x.id, y.id>>] > 0
    BY <1>1, <1>3 DEF Linked
  <2>2. PICK x1 \in users, y1 \in users :
          x1.name = a /\ x1.id = x.id /\ y1.name = b /\ y1.id = y.id
    BY <2>1, UpdatedRows
  <2>3. QED
    BY <2>1, <2>2 DEF Linked
<1>4. ASSUME NEW a, NEW b, Linked(users, contacts, a, b)
      PROVE  Linked(users', contacts', a, b)
  <2>1. PICK x \in users, y \in users :
          x.name = a /\ y.name = b /\ contacts[<<x.id, y.id>>] > 0
    BY <1>4 DEF Linked
  <2>2. PICK x1 \in users', y1 \in users' :
          x1.name = a /\ x1.id = x.id /\ y1.name = b /\ y1.id = y.id
    BY <2>1, UpdatedRows
  <2>3. QED
    BY <1>1, <2>1, <2>2 DEF Linked
<1>5. QED
  <2>1. \A a, b : <<a, b>> \in Friends' <=> <<a, b>> \in Friends
    BY <1>3, <1>4, FriendsChange DEF TablesInv
  <2>2. \A e \in Friends \union Friends' : \E a, b : e = <<a, b>>
    BY FriendsChange DEF TablesInv
  <2>3. QED
    BY <1>2, <2>1, <2>2

LEMMA DeletedDirectory ==
    ASSUME TypeOK, TablesInv, TablesInv', NEW n \in Names, NEW k \in 0 .. 3, Deleted(k, IdsOf(n))
    PROVE  /\ Accounts' = IF k = 3 THEN Accounts \ {n} ELSE Accounts
           /\ \A a, b : <<a, b>> \in Friends' <=>
                /\ <<a, b>> \in Friends
                /\ k >= 1 => a # n
                /\ k >= 2 => b # n
<1> USE DEF TablesInv
<1>1. \A r \in users : r.id \in IdsOf(n) <=> r.name = n
  BY RowsTyped
<1>2. users' = IF k = 3 THEN {r \in users : r.name # n} ELSE users
  <2>1. k >= 3 <=> k = 3
    OBVIOUS
  <2>2. {r \in users : r.id \notin IdsOf(n)} = {r \in users : r.name # n}
    BY <1>1
  <2>3. QED
    BY <2>1, <2>2 DEF Deleted
<1>3. Accounts' = IF k = 3 THEN Accounts \ {n} ELSE Accounts
  <2>1. CASE k = 3
    BY <1>2, <2>1 DEF Accounts
  <2>2. CASE k # 3
    BY <1>2, <2>2 DEF Accounts
  <2>3. QED
    BY <2>1, <2>2
<1>4. \A r, q \in users :
        contacts'[<<r.id, q.id>>] > 0 <=>
          /\ contacts[<<r.id, q.id>>] > 0
          /\ k >= 1 => r.name # n
          /\ k >= 2 => q.name # n
  <2> SUFFICES ASSUME NEW r \in users, NEW q \in users
               PROVE  contacts'[<<r.id, q.id>>] > 0 <=>
                        /\ contacts[<<r.id, q.id>>] > 0
                        /\ k >= 1 => r.name # n
                        /\ k >= 2 => q.name # n
    OBVIOUS
  <2>1. <<r.id, q.id>> \in Pairs
    BY RowsTyped
  <2>2. contacts'[<<r.id, q.id>>] = IF \/ k >= 1 /\ r.id \in IdsOf(n)
                                       \/ k >= 2 /\ q.id \in IdsOf(n)
                                    THEN 0 ELSE contacts[<<r.id, q.id>>]
    BY <2>1 DEF Deleted
  <2>3. QED
    BY <1>1, <2>2
<1>5. \A a, b : Linked(users', contacts', a, b) <=>
        /\ Linked(users, contacts, a, b)
        /\ k >= 1 => a # n
        /\ k >= 2 => b # n
  <2>1. ASSUME NEW a, NEW b, Linked(users', contacts', a, b)
        PROVE  Linked(users, contacts, a, b) /\ (k >= 1 => a # n) /\ (k >= 2 => b # n)
    <3>1. PICK r \in users, q \in users :
            r.name = a /\ q.name = b /\ contacts'[<<r.id, q.id>>] > 0
      BY <1>2, <2>1 DEF Linked
    <3>2. QED
      BY <1>4, <3>1 DEF Linked
  <2>2. ASSUME NEW a, NEW b, Linked(users, contacts, a, b), k >= 1 => a # n, k >= 2 => b # n
        PROVE  Linked(users', contacts', a, b)
    <3>1. PICK r \in users, q \in users :
            r.name = a /\ q.name = b /\ contacts[<<r.id, q.id>>] > 0
      BY <2>2 DEF Linked
    <3>2. contacts'[<<r.id, q.id>>] > 0 /\ r \in users' /\ q \in users'
      BY <1>2, <1>4, <2>2, <3>1
    <3>3. QED
      BY <3>1, <3>2 DEF Linked
  <2>3. QED
    BY <2>1, <2>2
<1>6. QED
  BY <1>3, <1>5, FriendsChange

LEMMA AddsDirectory ==
    ASSUME TypeOK, TablesInv, TablesInv', Me \in Names, NEW f \in Names, Adds(f)
    PROVE  /\ Accounts' = Accounts /\ f \in Accounts
           /\ \A a, b : <<a, b>> \in Friends' <=>
                \/ <<a, b>> \in Friends
                \/ a = Me /\ b = f /\ Me \in Accounts
<1> USE DEF TablesInv
<1>1. users' = users /\ Accounts' = Accounts /\ f \in Accounts
  BY DEF Adds, Accounts, Taken
<1>2. ASSUME NEW r \in users, NEW q \in users
      PROVE  contacts'[<<r.id, q.id>>] > 0 <=>
               \/ contacts[<<r.id, q.id>>] > 0
               \/ r.name = Me /\ q.name = f
  <2>1. <<r.id, q.id>> \in Pairs /\ contacts[<<r.id, q.id>>] \in Nat /\ r.id # NoId
    BY RowsTyped
  <2>2. contacts'[<<r.id, q.id>>] =
          IF r.id \in OwnersOf(Me) /\ q.id \in IdsOf(f) THEN contacts[<<r.id, q.id>>] + 1
                                                        ELSE contacts[<<r.id, q.id>>]
    BY <2>1 DEF Adds
  <2>3. r.id \in OwnersOf(Me) <=> r.name = Me
    BY <2>1, RowsTyped DEF OwnersOf, Taken
  <2>4. q.id \in IdsOf(f) <=> q.name = f
    BY RowsTyped
  <2>5. QED
    BY <2>1, <2>2, <2>3, <2>4
<1>3. \A a, b : Linked(users', contacts', a, b) <=>
        \/ Linked(users, contacts, a, b)
        \/ a = Me /\ b = f /\ Me \in Accounts
  <2>1. (\E q \in users : q.name = f) /\ (Me \in Accounts <=> \E r \in users : r.name = Me)
    BY <1>1 DEF Accounts
  <2>2. ASSUME NEW a, NEW b, Linked(users', contacts', a, b)
        PROVE  Linked(users, contacts, a, b) \/ (a = Me /\ b = f /\ Me \in Accounts)
    <3>1. PICK r \in users, q \in users :
            r.name = a /\ q.name = b /\ contacts'[<<r.id, q.id>>] > 0
      BY <1>1, <2>2 DEF Linked
    <3>2. contacts[<<r.id, q.id>>] > 0 \/ (r.name = Me /\ q.name = f)
      BY <1>2, <3>1
    <3>3. QED
      BY <2>1, <3>1, <3>2 DEF Linked
  <2>3. ASSUME NEW a, NEW b, Linked(users, contacts, a, b)
        PROVE  Linked(users', contacts', a, b)
    BY <1>1, <1>2, <2>3 DEF Linked
  <2>4. Me \in Accounts => Linked(users', contacts', Me, f)
    BY <1>1, <1>2, <2>1 DEF Linked
  <2>5. QED
    BY <2>2, <2>3, <2>4
<1>4. QED
  BY <1>1, <1>3, FriendsChange

LEMMA RemovesDirectory ==
    ASSUME TypeOK, TablesInv, TablesInv', Me \in Names, NEW f \in Names, Removes(f)
    PROVE  /\ Accounts' = Accounts
           /\ \A a, b : <<a, b>> \in Friends' <=> <<a, b>> \in Friends /\ ~(a = Me /\ b = f)
<1> USE DEF TablesInv
<1>1. users' = users /\ Accounts' = Accounts
  BY DEF Removes, Accounts
<1>2. ASSUME NEW r \in users, NEW q \in users
      PROVE  contacts'[<<r.id, q.id>>] > 0 <=>
               contacts[<<r.id, q.id>>] > 0 /\ ~(r.name = Me /\ q.name = f)
  <2>1. <<r.id, q.id>> \in Pairs
    BY RowsTyped
  <2>2. contacts'[<<r.id, q.id>>] =
          IF r.id \in IdsOf(Me) /\ q.id \in IdsOf(f) THEN 0 ELSE contacts[<<r.id, q.id>>]
    BY <2>1 DEF Removes, RowsOf
  <2>3. QED
    BY <2>2, RowsTyped
<1>3. ASSUME NEW a, NEW b
      PROVE  Linked(users', contacts', a, b) <=>
               Linked(users, contacts, a, b) /\ ~(a = Me /\ b = f)
  <2>1. ASSUME Linked(users', contacts', a, b)
        PROVE  Linked(users, contacts, a, b) /\ ~(a = Me /\ b = f)
    BY <1>1, <1>2, <2>1 DEF Linked
  <2>2. ASSUME Linked(users, contacts, a, b), ~(a = Me /\ b = f)
        PROVE  Linked(users', contacts', a, b)
    BY <1>1, <1>2, <2>2 DEF Linked
  <2>3. QED
    BY <2>1, <2>2
<1>4. QED
  BY <1>1, <1>3, FriendsChange

LEMMA StatementDirectory ==
    ASSUME ChatInv, ChatInv', Statement
    PROVE  \/ UNCHANGED <<Accounts, Friends>>
           \/ \E n \in Names :
                \/ n \notin Accounts /\ Accounts' = Accounts \union {n} /\ UNCHANGED Friends
                \/ Friends' = Friends \ ({n} \X Names) /\ UNCHANGED Accounts
                \/ /\ Friends' = Friends \ (({n} \X Names) \union (Names \X {n}))
                   /\ Accounts' \in {Accounts, Accounts \ {n}}
                \/ \E f \in Names :
                     \/ /\ {n, f} \subseteq Accounts
                        /\ Friends' = Friends \union {<<n, f>>} /\ UNCHANGED Accounts
                     \/ Friends' = Friends \ {<<n, f>>} /\ UNCHANGED Accounts
<1>1. TypeOK /\ TablesInv /\ TablesInv' /\ UniqueUsers /\ UniqueUsers'
  BY DEF ChatInv, Typed, TablesInv
<1>2. Friends \subseteq Names \X Names
  BY <1>1, FriendsTyped
<1>3. \A e \in Friends \union Friends' : \E a, b : e = <<a, b>>
  BY <1>1, FriendsChange
<1>4. CASE UNCHANGED data
  BY <1>4, FriendsMeaning DEF data, Accounts
<1>5. ASSUME NEW n \in Names, NEW p \in Passwords, Inserts(n, p)
      PROVE  n \notin Accounts /\ Accounts' = Accounts \union {n} /\ UNCHANGED Friends
  BY <1>1, <1>5, InsertsDirectory
<1>6. ASSUME NEW r \in users, NEW t \in Tokens, Updates(r, t)
      PROVE  UNCHANGED <<Accounts, Friends>>
  BY <1>1, <1>6, UpdatesDirectory
<1>7. ASSUME Acting, NEW k \in 0 .. 3, Deleted(k, IdsOf(Me))
      PROVE  \/ UNCHANGED <<Accounts, Friends>>
             \/ Friends' = Friends \ ({Me} \X Names) /\ UNCHANGED Accounts
             \/ /\ Friends' = Friends \ (({Me} \X Names) \union (Names \X {Me}))
                /\ Accounts' \in {Accounts, Accounts \ {Me}}
  <2>1. Me \in Names
    BY <1>7 DEF Acting
  <2>2. Accounts' = IF k = 3 THEN Accounts \ {Me} ELSE Accounts
    BY <1>1, <1>7, <2>1, DeletedDirectory
  <2> DEFINE first == k >= 1
             second == k >= 2
  <2>3. \A a, b : <<a, b>> \in Friends' <=>
             /\ <<a, b>> \in Friends
             /\ first => a # Me
             /\ second => b # Me
    BY <1>1, <1>7, <2>1, DeletedDirectory
  <2>4. (k = 0 => ~first /\ ~second) /\ (k = 1 => first /\ ~second) /\ (k >= 2 => first /\ second)
    OBVIOUS
  <2> HIDE DEF first, second
  <2>5. \A a, b : <<a, b>> \in Friends => a \in Names /\ b \in Names
    BY <1>2
  <2>6. CASE k = 0
    <3>1. \A a, b : <<a, b>> \in Friends' <=> <<a, b>> \in Friends
      BY <2>3, <2>4, <2>6
    <3>2. Friends' = Friends
      BY <1>3, <3>1
    <3>3. QED
      BY <2>2, <2>6, <3>2
  <2>7. CASE k = 1
    <3>1. \A a, b : <<a, b>> \in Friends' <=> <<a, b>> \in Friends /\ a # Me
      BY <2>3, <2>4, <2>7
    <3>2. Friends' = Friends \ ({Me} \X Names)
      BY <1>3, <2>5, <3>1
    <3>3. QED
      BY <2>2, <2>7, <3>2
  <2>8. CASE k >= 2
    <3>1. \A a, b : <<a, b>> \in Friends' <=> <<a, b>> \in Friends /\ a # Me /\ b # Me
      BY <2>3, <2>4, <2>8
    <3>2. Friends' = Friends \ (({Me} \X Names) \union (Names \X {Me}))
      BY <1>3, <2>5, <3>1
    <3>3. Accounts' \in {Accounts, Accounts \ {Me}}
      BY <2>2
    <3>4. QED
      BY <3>2, <3>3
  <2>9. QED
    BY <2>6, <2>7, <2>8
<1>8. ASSUME Acting, NEW f \in Names, Adds(f)
      PROVE  \/ UNCHANGED <<Accounts, Friends>>
             \/ /\ {Me, f} \subseteq Accounts
                /\ Friends' = Friends \union {<<Me, f>>} /\ UNCHANGED Accounts
  <2>1. /\ Accounts' = Accounts /\ f \in Accounts
        /\ \A a, b : <<a, b>> \in Friends' <=>
             \/ <<a, b>> \in Friends
             \/ a = Me /\ b = f /\ Me \in Accounts
    BY <1>1, <1>8, AddsDirectory DEF Acting
  <2>2. \A a, b : <<a, b>> \in {<<Me, f>>} <=> a = Me /\ b = f
    OBVIOUS
  <2>3. CASE Me \in Accounts
    <3>1. \A a, b : <<a, b>> \in Friends' <=> <<a, b>> \in Friends \union {<<Me, f>>}
      BY <2>1, <2>3, <2>2
    <3>2. Friends' = Friends \union {<<Me, f>>}
      BY <1>3, <3>1
    <3>3. QED
      BY <2>1, <2>3, <3>2
  <2>4. CASE Me \notin Accounts
    <3>1. \A a, b : <<a, b>> \in Friends' <=> <<a, b>> \in Friends
      BY <2>1, <2>4
    <3>2. Friends' = Friends
      BY <1>3, <3>1
    <3>3. QED
      BY <2>1, <3>2
  <2>5. QED
    BY <2>3, <2>4
<1>9. ASSUME Acting, NEW f \in Names, Removes(f)
      PROVE  Friends' = Friends \ {<<Me, f>>} /\ UNCHANGED Accounts
  <2>1. /\ Accounts' = Accounts
        /\ \A a, b : <<a, b>> \in Friends' <=> <<a, b>> \in Friends /\ ~(a = Me /\ b = f)
    BY <1>1, <1>9, RemovesDirectory DEF Acting
  <2>2. \A a, b : <<a, b>> \in Friends' <=> <<a, b>> \in Friends \ {<<Me, f>>}
    BY <2>1
  <2>3. Friends' = Friends \ {<<Me, f>>}
    BY <1>3, <2>2
  <2>4. QED
    BY <2>1, <2>3
<1>10. QED
  BY <1>4, <1>5, <1>6, <1>7, <1>8, <1>9 DEF Statement, Acting

\* The tables and the failing, unprotected statements on them implement the directory:
\* an account starts without contacts, only the named pair comes or goes, and a
\* deletion loses the account's contacts before the account.
THEOREM DirectoryImplemented == Spec => ImplementsDirectory
<1>1. Init => Dir!Init
  BY DEF Init, Dir!Init, Present
<1>2. ChatInv /\ ChatInv' /\ [Next]_vars => [Dir!Next]_(Dir!vars)
  <2> SUFFICES ASSUME ChatInv, ChatInv', [Next]_vars
               PROVE  [Dir!Next]_(Dir!vars)
    OBVIOUS
  <2>1. Statement
    BY EveryStep DEF ChatInv
  <2>2. QED
    BY <2>1, StatementDirectory
    DEF Accounts, Friends, Dir!Next, Dir!vars, Dir!Register, Dir!Befriend, Dir!Unfriend, Dir!Leave, Dir!Own,
        Dir!Ties
<1>3. QED
  BY InitChat, NextChat, <1>1, <1>2, PTL DEF Spec, Dir!Spec, ImplementsDirectory
=============================================================================
