---------------------------- MODULE ClientScreens ----------------------------
(***************************************************************************)
(* The ShareThought app above its NetworkManager: the stack of view        *)
(* controllers, what each shows, and the requests and replies between the  *)
(* app and its session on the chat server.  A screen is presented over the *)
(* one before it and may present only one; a screen that was dismissed is  *)
(* gone, but every screen still on the stack observes the notifications    *)
(* the replies are posted as, the covered ones too.                        *)
(*                                                                         *)
(* The server answers one connection's requests in the order they were     *)
(* sent.  The other clients appear as the messages they write.             *)
(***************************************************************************)
EXTENDS Naturals, Sequences, SequencesExt

CONSTANTS
    People,      \* user names
    Name,        \* Name[u]: u's first and last name
    Split,       \* Split[u]: the first two words of u's row, "<fname> <lname>"
    None,
    MaxScreens,  \* bound on the stack of screens
    MaxSignIn,   \* bound on it while the top is a start, login or register screen
    MaxInFlight  \* bound on the requests and replies between app and server

ASSUME ClientAssumption ==
    /\ None \notin People
    /\ DOMAIN Name = People /\ DOMAIN Split = People
    /\ MaxScreens \in Nat \ {0} /\ MaxSignIn \in 0 .. MaxScreens /\ MaxInFlight \in Nat

VARIABLES
    me,        \* [User me] username, None before the first login
    screens,   \* the stack of view controllers, the last one on top
    link,      \* is the connection up?
    requests,  \* from the app to the server, oldest first
    replies,   \* from the server to the app, oldest first
    session,   \* the account the server holds for this connection
    accounts, friends,  \* the server's tables
    faults     \* history: what has kept an app's request or its list from being right

vars == <<me, screens, link, requests, replies, session, accounts, friends, faults>>
app == <<me, screens>>
server == <<session, accounts, friends>>

Kinds == {"start", "login", "register", "own", "profile", "contacts", "chat"}
Screen == [kind : Kinds, user : People \union {None}, title : People \union {None},
           rows : SUBSET People, shown : SUBSET People,
           wrong : SUBSET People,   \* history: contacts taken off the list for another
           button : {"on", "off"}, alert : {"none", "told", "created"}]
New(kind, user) == [kind |-> kind, user |-> user, title |-> user, rows |-> {},
                    shown |-> {}, wrong |-> {}, button |-> "on", alert |-> "none"]

Depth == Len(screens)
Top == screens[Depth]
On(kind) == Top.kind = kind /\ Top.alert = "none"
Room(s) == Depth < IF s.kind \in {"start", "login", "register"} THEN MaxSignIn ELSE MaxScreens
Present(s) == Room(s) /\ screens' = Append(screens, s)
Dismissed == Front(screens)
Each(F(_)) == [i \in 1 .. Depth |-> F(screens[i])]

\* A request that is written while there is no connection is lost.
Sent(op, arg) ==
    IF link = "up" THEN Append(requests, [op |-> op, arg |-> arg, by |-> me]) ELSE requests
Lost == IF link = "up" THEN faults ELSE faults \union {"connection"}
InFlightRoom == Len(requests) + Len(replies) < MaxInFlight

Request(op, arg) ==
    /\ InFlightRoom
    /\ requests' = Sent(op, arg)
    /\ faults' = Lost
-----------------------------------------------------------------------------
(* The start screen, login and registration. *)

LoginTapped ==
    /\ On("start") /\ Present(New("login", None))
    /\ UNCHANGED <<me, link, requests, replies, server, faults>>

RegisterTapped ==
    /\ On("start") /\ Present(New("register", None))
    /\ UNCHANGED <<me, link, requests, replies, server, faults>>

\* The back button of both screens is a segue to another start screen.
BackToStart ==
    /\ On("login") \/ On("register")
    /\ Present(New("start", None))
    /\ UNCHANGED <<me, link, requests, replies, server, faults>>

\* As user u with u's password, or as nobody (None): a wrong name or password.
\* Nothing keeps the user from pressing again before the answer.
LoginButtonPressed(u) ==
    /\ On("login")
    /\ Request("login", u)
    /\ UNCHANGED <<app, link, replies, server>>

RegistrationButtonPressed(u) ==
    /\ On("register") /\ Top.button = "on"
    /\ Request("register", u)
    /\ screens' = [screens EXCEPT ![Depth].button = "off"]
    /\ UNCHANGED <<me, link, replies, server>>

\* An invalid address, two different passwords or an empty field.
RegistrationRefused ==
    /\ On("register") /\ Top.button = "on"
    /\ screens' = [screens EXCEPT ![Depth].alert = "told"]
    /\ UNCHANGED <<me, link, requests, replies, server, faults>>

DismissAlert ==
    LET closed == [screens EXCEPT ![Depth].alert = "none"] IN
    /\ Top.alert # "none"
    /\ IF Top.alert = "created"
       THEN Room(New("login", None)) /\ screens' = Append(closed, New("login", None))
       ELSE screens' = closed
    /\ UNCHANGED <<me, link, requests, replies, server, faults>>
-----------------------------------------------------------------------------
(* Profiles: the user's own ("own": its _user is the User me object) and a *)
(* contact's.                                                              *)

NavigationBackButtonPressed ==
    /\ On("own") \/ On("profile")
    /\ Request("logout", None)
    /\ screens' = Dismissed
    /\ UNCHANGED <<me, link, replies, server>>

\* Whoever's profile it is, the list asked for is the session's own.  On the
\* user's own profile the chat button does the same: the chat it would present
\* after that comes too late.
PersonsFriendsPressed ==
    /\ On("own") \/ On("profile")
    /\ Present(New("contacts", None))
    /\ Request("grab", None)
    /\ UNCHANGED <<me, link, replies, server>>

DeleteAccountPressed ==
    /\ On("own")
    /\ Request("deleteAccount", None)
    /\ screens' = Dismissed
    /\ UNCHANGED <<me, link, replies, server>>

\* Mutant: the list is set to the contacts that went, not to those that stayed.
OnlyRemovedKept(s, u) == [s EXCEPT !.rows = @ \intersect {u}, !.shown = s.rows \intersect {u}]

\* removeContact of the screen below, by user name.
RowRemoved(s, u) == IF u \notin s.rows THEN s
                    ELSE [s EXCEPT !.rows = @ \ {u}, !.shown = s.rows \ {u}]

DeleteFriendPressed ==
    /\ On("profile")
    /\ Request("deleteContact", Top.user)
    /\ screens' = [Dismissed EXCEPT ![Depth - 1] = RowRemoved(@, Top.user)]
    /\ UNCHANGED <<me, link, replies, server>>

ClickToChatPressed ==
    /\ On("profile")
    /\ Present(New("chat", Top.user))
    /\ UNCHANGED <<me, link, requests, replies, server, faults>>

AddFriendPressed(f) ==
    /\ On("own")
    /\ Request("addContact", f)
    /\ UNCHANGED <<app, link, replies, server>>
-----------------------------------------------------------------------------
(* The contact list and the chat. *)

\* Dismissing a contact list or closing a chat asks nothing of the server.
NavigateBackPressed ==
    /\ On("contacts") \/ On("chat")
    /\ screens' = Dismissed
    /\ UNCHANGED <<me, link, requests, replies, server, faults>>

\* The rows of the search's matches are shown; an empty text shows them all.
SearchTextDidChange(matches) ==
    /\ On("contacts") /\ matches # Top.shown
    /\ screens' = [screens EXCEPT ![Depth].shown = matches]
    /\ UNCHANGED <<me, link, requests, replies, server, faults>>

DidSelectRow(u) ==
    /\ On("contacts") /\ u \in Top.shown
    /\ Present(New("profile", u))
    /\ UNCHANGED <<me, link, requests, replies, server, faults>>

\* findIndexOfContactWithName: the last row with these two words as its names, and
\* index 0 when there is none.  Which of several rows is the last, or which of all
\* rows is the first, is the sort's choice.
IndexOf(rows, u) ==
    LET found == {v \in rows : Name[v] = Split[u]}
    IN IF found = {} THEN rows ELSE found

\* The server is asked by user name, the list by the name in the row.
DeleteButtonAction(u) ==
    /\ On("contacts") /\ u \in Top.shown
    /\ Request("deleteContact", u)
    /\ \E v \in IndexOf(Top.rows, u) :
         screens' = [screens EXCEPT ![Depth].rows = @ \ {v},
                                    ![Depth].shown = Top.rows \ {v},
                                    ![Depth].wrong = @ \union ({v} \ {u})]
    /\ UNCHANGED <<me, link, replies, server>>

ChatButtonAction(u) ==
    /\ On("contacts") /\ u \in Top.shown
    /\ Present(New("chat", u))
    /\ UNCHANGED <<me, link, requests, replies, server, faults>>

\* A message goes to the user the chat was opened with, whoever the title names.
DidPressSend ==
    /\ On("chat")
    /\ Request("chat", Top.user)
    /\ UNCHANGED <<app, link, replies, server>>
-----------------------------------------------------------------------------
(* The server's handlers, as this connection sees them. *)

Answer(r) == replies' = Append(replies, r)
Reply(op, arg) == [op |-> op, arg |-> arg, to |-> session]

\* Mutant: a second login on the connection is accepted.
MayAlwaysLogIn == TRUE
MayLogIn == session = None

HandleLogin(r, lost) ==
    /\ r.op = "login"
    /\ IF ~MayLogIn
       THEN /\ faults' = lost \union {"ignored"}
            /\ UNCHANGED <<replies, server>>
       ELSE /\ IF r.arg \in accounts
               THEN session' = r.arg /\ Answer(Reply("loggedIn", r.arg))
               ELSE Answer(Reply("loginFailure", None)) /\ UNCHANGED session
            /\ faults' = lost /\ UNCHANGED <<accounts, friends>>

HandleRegister(r, lost) ==
    /\ r.op = "register"
    /\ IF session # None
       THEN /\ faults' = lost \union {"ignored"}
            /\ UNCHANGED <<replies, server>>
       ELSE /\ Answer(Reply(IF r.arg \in accounts THEN "exists" ELSE "created", None))
            /\ accounts' = accounts \union {r.arg}
            /\ faults' = lost /\ UNCHANGED <<session, friends>>

HandleLogout(r, lost) ==
    /\ r.op = "logout"
    /\ session' = None
    /\ faults' = lost /\ UNCHANGED <<replies, accounts, friends>>

\* What only a session may ask for is dropped without one.
HandleSession(r, lost) ==
    /\ r.op \in {"grab", "deleteAccount", "addContact", "deleteContact", "chat"}
    /\ faults' = lost
    /\ \/ session = None /\ UNCHANGED <<replies, server>>
       \/ /\ session # None /\ r.op = "chat"
          /\ UNCHANGED <<replies, server>>
       \/ /\ session # None /\ r.op = "grab"
          /\ Answer(Reply("contacts", friends[session]))
          /\ UNCHANGED server
       \/ /\ session # None /\ r.op = "addContact"
          /\ friends' = IF r.arg \in accounts
                        THEN [friends EXCEPT ![session] = @ \union {r.arg}] ELSE friends
          /\ UNCHANGED <<replies, session, accounts>>
       \/ /\ session # None /\ r.op = "deleteContact"
          /\ friends' = [friends EXCEPT ![session] = @ \ {r.arg}]
          /\ UNCHANGED <<replies, session, accounts>>
       \/ /\ session # None /\ r.op = "deleteAccount"
          /\ accounts' = accounts \ {session}
          /\ friends' = [u \in People |-> IF u = session THEN {} ELSE friends[u] \ {session}]
          /\ session' = None
          /\ UNCHANGED replies

\* A statement fails: the request is over, and nobody is told.
HandleFails(r, lost) ==
    /\ r.op \notin {"logout", "chat"}
    /\ faults' = lost \union {"dropped"}
    /\ UNCHANGED <<replies, server>>

\* recv returns the oldest request and those TCP delivers with it. Only the first is decoded,
\* the others are dropped.
Handle ==
    \E n \in 1 .. Len(requests) :
        LET r == Head(requests)
            lost == IF n = 1 THEN faults ELSE faults \union {"dropped"}
        IN /\ requests' = SubSeq(requests, n + 1, Len(requests))
           /\ \/ HandleLogin(r, lost)
              \/ HandleRegister(r, lost)
              \/ HandleLogout(r, lost)
              \/ HandleSession(r, lost)
              \/ HandleFails(r, lost)
           /\ UNCHANGED <<app, link>>

\* Another client writes to this session's user.
PeerWrites(u) ==
    /\ session # None
    /\ InFlightRoom
    /\ Answer(Reply("message", u))
    /\ UNCHANGED <<app, link, requests, server, faults>>
-----------------------------------------------------------------------------
(* NetworkManager posts each reply as a notification; every screen on the  *)
(* stack that observes it reacts, and only the top one can present.        *)

Filled(s, names) == IF s.kind # "contacts" THEN s
                    ELSE [s EXCEPT !.rows = names, !.shown = names, !.wrong = {}]
Titled(s, from) == IF s.kind # "chat" THEN s ELSE [s EXCEPT !.title = from]

\* Mutant: only a successful registration enables the button again.
EnabledOnSuccess(s, op) == IF s.kind = "register" /\ op = "created"
                           THEN [s EXCEPT !.button = "on"] ELSE s
Enabled(s, op) == IF s.kind = "register" THEN [s EXCEPT !.button = "on"] ELSE s

\* Mutant: the user is taken over with the profile's presentation.
UserWhenPresented(u) == IF On("login") THEN u ELSE me
User(u) == u

\* Every login screen takes over the user; the one on top shows the profile.
LoggedIn(r) ==
    /\ r.op = "loggedIn"
    /\ \E i \in 1 .. Depth : screens[i].kind = "login"
    /\ me' = User(r.arg)
    /\ IF On("login") THEN Present(New("own", r.arg)) ELSE UNCHANGED screens

LoginFailure(r) ==
    /\ r.op = "loginFailure"
    /\ screens' = IF On("login") THEN [screens EXCEPT ![Depth].alert = "told"] ELSE screens
    /\ UNCHANGED me

Registration(r) ==
    LET enabled == Each(LAMBDA s : Enabled(s, r.op)) IN
    /\ r.op \in {"created", "exists"}
    /\ screens' = IF On("register")
                  THEN [enabled EXCEPT ![Depth].alert =
                            IF r.op = "created" THEN "created" ELSE "told"]
                  ELSE enabled
    /\ UNCHANGED me

\* Of an empty list nobody is notified.
ContactsReceived(r) ==
    /\ r.op = "contacts"
    /\ screens' = IF r.arg = {} THEN screens ELSE Each(LAMBDA s : Filled(s, r.arg))
    /\ UNCHANGED me

MessageReceived(r) ==
    /\ r.op = "message"
    /\ screens' = Each(LAMBDA s : Titled(s, r.arg))
    /\ UNCHANGED me

DidReadData ==
    /\ replies # <<>>
    /\ replies' = Tail(replies)
    /\ LET r == Head(replies) IN
         \/ LoggedIn(r)
         \/ LoginFailure(r)
         \/ Registration(r)
         \/ ContactsReceived(r)
         \/ MessageReceived(r)
    /\ UNCHANGED <<link, requests, server, faults>>

\* Mutant: a session outlives its connection.
SessionKept == session
SessionAfterLoss == None

\* The server drops the connection's session with the connection.
DidDisconnect ==
    /\ link = "up"
    /\ link' = "down"
    /\ requests' = <<>> /\ replies' = <<>>
    /\ session' = SessionAfterLoss
    /\ faults' = IF requests = <<>> /\ replies = <<>> THEN faults
                 ELSE faults \union {"connection"}
    /\ UNCHANGED <<app, accounts, friends>>

\* The app connects again and goes on as it was: it does not log in again.
DidConnect ==
    /\ link = "down"
    /\ link' = "up"
    /\ UNCHANGED <<app, requests, replies, server, faults>>
-----------------------------------------------------------------------------
Init ==
    /\ me = None
    /\ screens = <<New("start", None)>>
    /\ link = "down"
    /\ requests = <<>> /\ replies = <<>>
    /\ session = None
    /\ accounts \in SUBSET People
    /\ friends = [u \in People |-> {}]
    /\ faults = {}

Start == LoginTapped \/ RegisterTapped \/ BackToStart \/ DismissAlert

SignIn ==
    \/ RegistrationRefused
    \/ \E u \in People \union {None} : LoginButtonPressed(u)
    \/ \E u \in People : RegistrationButtonPressed(u)

Profile ==
    \/ NavigationBackButtonPressed
    \/ PersonsFriendsPressed
    \/ DeleteAccountPressed
    \/ DeleteFriendPressed
    \/ ClickToChatPressed
    \/ \E f \in People : AddFriendPressed(f)

Contacts ==
    \/ NavigateBackPressed
    \/ \E u \in People : DidSelectRow(u) \/ DeleteButtonAction(u) \/ ChatButtonAction(u)
    \/ \E matches \in SUBSET Top.rows : SearchTextDidChange(matches)
    \/ DidPressSend

Network == Handle \/ DidReadData \/ DidDisconnect \/ DidConnect \/ \E u \in People : PeerWrites(u)

Next == Start \/ SignIn \/ Profile \/ Contacts \/ Network

Spec == Init /\ [][Next]_vars
-----------------------------------------------------------------------------
(* Properties. *)

TypeOK ==
    /\ me \in People \union {None}
    /\ Depth \in 1 .. MaxScreens
    /\ \A i \in 1 .. Depth : screens[i] \in Screen
    /\ link \in {"up", "down"}
    /\ Len(requests) + Len(replies) <= MaxInFlight
    /\ session \in People \union {None} /\ (link = "down" => session = None)
    /\ accounts \subseteq People
    /\ friends \in [People -> SUBSET People]
    /\ faults \subseteq {"connection", "dropped", "ignored"}

\* What the server does for a session was asked for while the app was that user's:
\* pressing the login button twice, a lost connection or a screen left open never
\* changes another account's contacts.
ActsInMyName ==
    [][friends' # friends \/ accounts \ accounts' # {}
         => session = Head(requests).by]_<<accounts, friends>>

\* A list or a message is applied to the app only while the app belongs to the user
\* it was sent to: no reply of a session outlives the change to another user.
RepliesAreMine ==
    replies # <<>> /\ Head(replies).op \in {"contacts", "message"} => Head(replies).to = me

\* A register button is disabled only while the answer is on its way, unless the
\* request or the answer was lost, its statement failed or the server ignored it.
ButtonAwaitsAnswer ==
    \A i \in 1 .. Depth :
        screens[i].button = "off" =>
            \/ \E j \in 1 .. Len(requests) : requests[j].op = "register"
            \/ \E j \in 1 .. Len(replies) : replies[j].op \in {"created", "exists"}
            \/ faults # {}

\* Once all is answered, and if the server carried out what it was asked, a contact list
\* has a row for every contact the session's user has, but for those whose rows went in
\* place of another's since the list was last filled; a list that was covered by a second
\* one may still show a contact that was deleted there.
NoContactHidden ==
    requests = <<>> /\ replies = <<>> /\ session # None /\ "dropped" \notin faults
    => \A i \in 1 .. Depth :
         screens[i].kind = "contacts" =>
             friends[session] \subseteq screens[i].rows \union screens[i].wrong
=============================================================================
