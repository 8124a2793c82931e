-------------------------- MODULE ClientScreensProofs --------------------------
(***************************************************************************)
(* What the ShareThought app guarantees above its connection, for any      *)
(* number of users and screens, any number of requests and replies on      *)
(* their way and wherever the connection breaks: its requests are carried  *)
(* out in the name of the user it showed, replies reach only the user they *)
(* were sent to, no button stays disabled and no contact is hidden.        *)
(***************************************************************************)
EXTENDS ClientScreens, SequenceTheorems, TLAPS

Maybe == People \union {None}

Inner      == {"own", "profile", "contacts", "chat"}
SessionOps == {"logout", "grab", "deleteAccount", "addContact", "deleteContact", "chat"}
Enders     == {"logout", "deleteAccount"}
RequestMsg == [op : SessionOps \union {"login", "register"}, arg : Maybe, by : Maybe]
ReplyMsg   == [op : {"loggedIn", "message"}, arg : People, to : Maybe]
                  \union [op : {"loginFailure", "created", "exists"}, arg : Maybe, to : Maybe]
                  \union [op : {"contacts"}, arg : SUBSET People, to : Maybe]

(***************************************************************************)
(* Types, of the elements of the queues too.                               *)
(***************************************************************************)
QueuesOK ==
    /\ requests \in Seq(RequestMsg) /\ replies \in Seq(ReplyMsg)
    /\ Len(requests) + Len(replies) <= MaxInFlight
    /\ \A i \in DOMAIN requests : requests[i].op = "register" => requests[i].arg \in People

ServerOK ==
    /\ me \in Maybe
    /\ link \in {"up", "down"}
    /\ session \in Maybe /\ (link = "down" => session = None /\ requests = <<>>)
    /\ accounts \subseteq People
    /\ friends \in [People -> SUBSET People]
    /\ faults \subseteq {"connection", "dropped", "ignored"}

\* The screens of a user lie above the start, login and register screens, the user's
\* own profile first; only a register screen's button is ever disabled, and only a login
\* or a register screen ever waits behind an alert.
StackOK ==
    /\ screens \in Seq(Screen) /\ Depth \in 1 .. MaxScreens
    /\ screens[1].kind = "start"
    /\ \A i, j \in 1 .. Depth : i < j /\ screens[i].kind \in Inner =>
          screens[j].kind \in Inner \ {"own"}
    /\ \A i \in 1 .. Depth : screens[i].button = "off" => screens[i].kind = "register"
    /\ \A i \in 1 .. Depth : screens[i].alert # "none" => screens[i].kind \in {"login", "register"}

Typed == QueuesOK /\ ServerOK /\ StackOK

(***************************************************************************)
(* Who the app and the server take each other for.                         *)
(***************************************************************************)
Inside  == Top.kind \in Inner
Asked(ops) == {i \in DOMAIN requests : requests[i].op \in ops}
Told(ops)  == {i \in DOMAIN replies : replies[i].op \in ops}
Unread  == Told({"loggedIn"})
Notes   == Told({"contacts", "message"})

\* While the app has not read that it is logged in, it shows no user's screens and
\* has asked for nothing but another login or registration.
LoginUnread ==
    /\ \A i, j \in Unread : i = j
    /\ Unread # {} => ~Inside /\ Asked(SessionOps) = {}
    /\ \A i \in Unread : session = replies[i].arg

\* A list or a message belongs to the user the app will be when it reads it.
NotesOwned ==
    \A j \in Notes : replies[j].to = IF \E i \in Unread : i < j THEN session ELSE me

SessionOwned == session # None => Unread # {} \/ session = me

\* A login pressed once too often comes to nothing: it reaches the server while the
\* session it was pressed for still lasts.
Harmless(i) == session # None /\ \A k \in Asked(Enders) : i < k

StaleLogins ==
    \A i \in Asked({"login"}) : Inside \/ (\E j \in Asked(SessionOps) : i < j) => Harmless(i)

AskedByOwner == session # None => \A j \in Asked(SessionOps) : requests[j].by = session

Names == LoginUnread /\ NotesOwned /\ SessionOwned /\ StaleLogins /\ AskedByOwner

(***************************************************************************)
(* What the screens show.                                                  *)
(***************************************************************************)
\* The contacts a list shows, or has lost in another's place.
Known(s) == s.rows \union s.wrong

Listing(i) == screens[i].kind = "contacts"
NoAddAfter(g) == \A k \in Asked({"addContact"}) : k < g
Unlisted == {requests[k].arg : k \in Asked({"deleteContact"})}

\* A list will be right: it has been asked for anew, or is on its way, or is there but
\* for contacts whose deletion has been asked for.
ListsDue ==
    \/ \E g \in Asked({"grab"}) : NoAddAfter(g)
    \/ /\ Asked({"addContact"}) = {}
       /\ \E c \in Told({"contacts"}) : /\ \A d \in Told({"contacts"}) : d <= c
                                        /\ friends[session] \subseteq replies[c].arg
    \/ /\ Asked({"addContact"}) = {}
       /\ Told({"contacts"}) = {}
       /\ \A i \in 1 .. Depth : Listing(i) =>
             friends[session] \subseteq Known(screens[i]) \union Unlisted

Lists ==
    session # None /\ "dropped" \notin faults /\ (\E i \in 1 .. Depth : Listing(i))
        => ListsDue

AppInv == Typed /\ Names /\ ButtonAwaitsAnswer /\ Lists
-----------------------------------------------------------------------------
(* Sequences.                                                               *)

LEMMA FrontShape ==
    ASSUME NEW S, NEW s \in Seq(S), s # <<>>
    PROVE  /\ Front(s) \in Seq(S) /\ Len(Front(s)) = Len(s) - 1
           /\ \A i \in 1 .. Len(s) - 1 : Front(s)[i] = s[i]
<1> DEFINE k == Len(s) - 1
           t == SubSeq(s, 1, k)
<1>1. k \in Nat /\ \A i \in 1 .. k : s[i] \in S
  BY EmptySeq, ElementOfSeq, LenProperties
<1> HIDE DEF k
<1>2. /\ t \in Seq(S) /\ Len(t) = (IF 1 <= k THEN k - 1 + 1 ELSE 0)
      /\ \A i \in 1 .. k - 1 + 1 : t[i] = s[1 + i - 1]
  <2>1. 1 \in Int /\ k \in Int
    BY <1>1
  <2>2. QED
    BY <1>1, <2>1, SubSeqProperties
<1>3. Front(s) = t
  BY DEF Front, k
<1> HIDE DEF t
<1>4. t \in Seq(S) /\ Len(t) = k /\ \A i \in 1 .. k : t[i] = s[i]
  BY <1>1, <1>2
<1>5. k = Len(s) - 1
  BY DEF k
<1>6. QED
  BY <1>3, <1>4, <1>5

LEMMA SuffixShape ==
    ASSUME NEW S, NEW s \in Seq(S), NEW n \in 1 .. Len(s)
    PROVE  LET t == SubSeq(s, n + 1, Len(s))
           IN /\ t \in Seq(S) /\ Len(t) = Len(s) - n
              /\ \A i \in 1 .. Len(t) : t[i] = s[i + n]
<1>1. Len(s) \in Nat /\ \A i \in n + 1 .. Len(s) : s[i] \in S
  BY ElementOfSeq, LenProperties
<1>2. n + 1 \in Int /\ Len(s) \in Int
  BY <1>1
<1>3. /\ SubSeq(s, n + 1, Len(s)) \in Seq(S)
      /\ Len(SubSeq(s, n + 1, Len(s))) = IF n + 1 <= Len(s) THEN Len(s) - (n + 1) + 1 ELSE 0
      /\ \A i \in 1 .. Len(s) - (n + 1) + 1 : SubSeq(s, n + 1, Len(s))[i] = s[(n + 1) + i - 1]
  BY <1>1, <1>2, SubSeqProperties
<1>4. QED
  BY <1>1, <1>3
-----------------------------------------------------------------------------
(* The stack of screens.                                                    *)

\* A step that shows no user's screen anew, disables no button and leaves in every list
\* that remains the contacts it had.
Lesser ==
    /\ Inside' => Inside
    /\ \A i \in 1 .. Depth' : screens'[i].button = "off" =>
          \E j \in 1 .. Depth : screens[j].button = "off"
    /\ \A i \in 1 .. Depth' : screens'[i].kind = "contacts" =>
          \E j \in 1 .. Depth : screens[j].kind = "contacts" /\ Known(screens[j]) = Known(screens'[i])

LEMMA StackFacts ==
    ASSUME StackOK
    PROVE  /\ Depth \in Nat \ {0} /\ screens # <<>> /\ screens[Depth] \in Screen
           /\ \A i \in 1 .. Depth : screens[i] \in Screen
           /\ \A i \in 1 .. Depth : screens[i].kind \in Inner => Inside
  BY DEF StackOK, Inside, Top, Depth, Inner

\* A screen is presented over the ones there are, c, which look as they did but for alerts.
LEMMA Pushed ==
    ASSUME StackOK, NEW c \in Seq(Screen), Len(c) = Depth,
           \A i \in 1 .. Depth : /\ c[i].kind = screens[i].kind /\ Known(c[i]) = Known(screens[i])
                                 /\ c[i].button = screens[i].button
                                 /\ c[i].alert \in {"none", screens[i].alert},
           NEW s \in Screen, Room(s), screens' = Append(c, s),
           s.button = "on", s.alert = "none", Inside <=> s.kind \in Inner, s.kind # "own"
    PROVE  /\ StackOK' /\ (Inside' => Inside)
           /\ \A i \in 1 .. Depth' : screens'[i] = s \/ (i \in 1 .. Depth /\ screens'[i] = c[i])
           /\ s.kind # "contacts" => Lesser
<1>1. Depth < MaxScreens /\ MaxScreens \in Nat /\ Depth \in Nat \ {0}
  BY StackFacts, ClientAssumption DEF Room, StackOK
<1>2. /\ screens' \in Seq(Screen) /\ Depth' = Depth + 1
      /\ \A i \in 1 .. Depth : screens'[i] = c[i]
      /\ screens'[Depth + 1] = s
  BY <1>1 DEF StackOK, Depth
<1>3. Top' = s
  BY <1>2 DEF Top, Depth
<1>4. Inside' => Inside
  BY <1>3 DEF Inside
<1>5. \A i \in 1 .. Depth' : (i = Depth + 1 /\ screens'[i] = s) \/ (i \in 1 .. Depth /\ screens'[i] = c[i])
  <2>1. \A i \in 1 .. Depth' : i = Depth + 1 \/ i \in 1 .. Depth
    BY <1>2, StackFacts
  <2>2. QED
    BY <1>2, <2>1
<1>6. StackOK'
  <2>1. Depth' \in 1 .. MaxScreens /\ screens'[1].kind = "start"
    BY <1>1, <1>2 DEF StackOK
  <2>2. ASSUME NEW i \in 1 .. Depth', NEW j \in 1 .. Depth', i < j, screens'[i].kind \in Inner
        PROVE  screens'[j].kind \in Inner \ {"own"}
    <3>1. i \in 1 .. Depth /\ screens'[i].kind = screens[i].kind
      BY <2>2, <1>1, <1>2, <1>5
    <3>2. CASE j \in 1 .. Depth
      BY <3>1, <3>2, <2>2, <1>2 DEF StackOK
    <3>3. CASE j = Depth + 1
      BY <3>1, <3>3, <2>2, <1>2, StackFacts
    <3>4. QED
      BY <3>2, <3>3, <1>5
  <2>3. \A i \in 1 .. Depth' :
           /\ screens'[i].button = "off" => screens'[i].kind = "register"
           /\ screens'[i].alert # "none" => screens'[i].kind \in {"login", "register"}
    BY <1>5 DEF StackOK
  <2>4. QED
    BY <1>2, <2>1, <2>2, <2>3 DEF StackOK
<1>7. s.kind # "contacts" => Lesser
  BY <1>4, <1>5 DEF Lesser
<1>8. QED
  BY <1>4, <1>5, <1>6, <1>7

\* The same screens, or those below some of them, perhaps redrawn.
LEMMA Redrawn ==
    ASSUME StackOK, screens' \in Seq(Screen), Depth' \in 1 .. Depth,
           \A i \in 1 .. Depth' :
               /\ screens'[i].kind = screens[i].kind
               /\ screens'[i].button = "off" => screens[i].kind = "register"
               /\ screens'[i].alert # "none" => screens[i].kind \in {"login", "register"}
    PROVE  StackOK' /\ (Inside' => Inside)
<1>1. Depth' \in Nat \ {0} /\ \A i \in 1 .. Depth' : i \in 1 .. Depth
  BY StackFacts
<1>2. Top'.kind = screens[Depth'].kind /\ Depth' \in 1 .. Depth
  BY <1>1 DEF Top
<1>3. Inside' => Inside
  BY <1>2, StackFacts DEF Inside
<1>4. 1 \in 1 .. Depth' /\ Depth' \in 1 .. MaxScreens
  BY <1>1, StackFacts, ClientAssumption DEF StackOK
<1>5. screens'[1].kind = "start"
  BY <1>4 DEF StackOK
<1>6. QED
  BY <1>1, <1>3, <1>4, <1>5 DEF StackOK

LEMMA Popped ==
    ASSUME StackOK, Top.kind # "start"
    PROVE  /\ Dismissed \in Seq(Screen) /\ Len(Dismissed) = Depth - 1 /\ Depth - 1 \in 1 .. Depth
           /\ \A i \in 1 .. Depth - 1 : Dismissed[i] = screens[i] /\ i \in 1 .. Depth
           /\ screens' = Dismissed => StackOK' /\ Lesser
<1>1. Depth \in Nat /\ Depth > 1
  BY StackFacts DEF StackOK, Top
<1>2. /\ Dismissed \in Seq(Screen) /\ Len(Dismissed) = Depth - 1 /\ Depth - 1 \in 1 .. Depth
      /\ \A i \in 1 .. Depth - 1 : Dismissed[i] = screens[i] /\ i \in 1 .. Depth
  BY <1>1, FrontShape, StackFacts DEF Dismissed, StackOK, Depth
<1>3. ASSUME screens' = Dismissed
      PROVE  StackOK' /\ Lesser
  <2>1. /\ screens' \in Seq(Screen) /\ Depth' = Depth - 1
        /\ \A i \in 1 .. Depth' : screens'[i] = screens[i] /\ i \in 1 .. Depth
    BY <1>2, <1>3 DEF Depth
  <2>2. \A i \in 1 .. Depth :
           /\ screens[i].button = "off" => screens[i].kind = "register"
           /\ screens[i].alert # "none" => screens[i].kind \in {"login", "register"}
    BY DEF StackOK
  <2>3. StackOK' /\ (Inside' => Inside)
    BY <1>2, <2>1, <2>2, Redrawn
  <2>4. QED
    BY <2>1, <2>3 DEF Lesser
<1>4. QED
  BY <1>2, <1>3

\* One screen is redrawn.
LEMMA Edited ==
    ASSUME StackOK, NEW d \in 1 .. Depth, NEW s \in Screen, screens' = [screens EXCEPT ![d] = s],
           s.kind = screens[d].kind, s.button = "off" => s.kind = "register",
           s.alert # "none" => s.kind \in {"login", "register"}
    PROVE  /\ StackOK' /\ (Inside' => Inside) /\ Depth' = Depth
           /\ \A i \in 1 .. Depth : screens'[i] = IF i = d THEN s ELSE screens[i]
           /\ s.button = screens[d].button /\ Known(s) = Known(screens[d]) => Lesser
<1>1. /\ screens' \in Seq(Screen) /\ Depth' = Depth
      /\ \A i \in 1 .. Depth : screens'[i] = IF i = d THEN s ELSE screens[i]
  BY ExceptSeq DEF StackOK, Depth
<1>2. \A i \in 1 .. Depth :
         /\ screens'[i].kind = screens[i].kind
         /\ screens'[i].button = "off" => screens[i].kind = "register"
         /\ screens'[i].alert # "none" => screens[i].kind \in {"login", "register"}
  BY <1>1 DEF StackOK
<1>3. Depth' \in 1 .. Depth
  BY <1>1, StackFacts
<1>4. StackOK' /\ (Inside' => Inside)
  BY <1>1, <1>2, <1>3, Redrawn
<1>5. s.button = screens[d].button /\ Known(s) = Known(screens[d]) => Lesser
  BY <1>1, <1>4 DEF Lesser
<1>6. QED
  BY <1>1, <1>4, <1>5

LEMMA Unchanged ==
    ASSUME StackOK, UNCHANGED screens
    PROVE  StackOK' /\ Lesser
<1>1. StackOK' /\ Depth' = Depth
  BY DEF StackOK, Depth
<1>2. Inside' = Inside
  BY DEF Inside, Top, Depth
<1>3. QED
  BY <1>1, <1>2 DEF Lesser
-----------------------------------------------------------------------------
(* Steps of the app that ask nothing of the server.                         *)

\* What a disabled button waits for.
Answering ==
    \/ \E j \in 1 .. Len(requests) : requests[j].op = "register"
    \/ \E j \in 1 .. Len(replies) : replies[j].op \in {"created", "exists"}
    \/ faults # {}

LEMMA ButtonKept ==
    ASSUME ButtonAwaitsAnswer, Answering => Answering',
           \A i \in 1 .. Depth' : screens'[i].button = "off" =>
              \E j \in 1 .. Depth : screens[j].button = "off"
    PROVE  ButtonAwaitsAnswer'
<1>1. (\E j \in 1 .. Depth : screens[j].button = "off") => Answering
  BY DEF ButtonAwaitsAnswer, Answering
<1>2. Answering' => ButtonAwaitsAnswer'
  BY DEF ButtonAwaitsAnswer, Answering
<1>3. CASE \E i \in 1 .. Depth' : screens'[i].button = "off"
  BY <1>1, <1>2, <1>3
<1>4. CASE ~\E i \in 1 .. Depth' : screens'[i].button = "off"
  BY <1>4 DEF ButtonAwaitsAnswer
<1>5. QED
  BY <1>3, <1>4

LEMMA LocalStep ==
    ASSUME AppInv, StackOK', Lesser, UNCHANGED <<me, link, requests, replies, server, faults>>
    PROVE  AppInv'
<1>1. Typed'
  BY DEF AppInv, Typed, QueuesOK, ServerOK, server
<1>2. Names'
  <2>1. Asked(SessionOps)' = Asked(SessionOps) /\ Asked(Enders)' = Asked(Enders)
        /\ Asked({"login"})' = Asked({"login"}) /\ Unread' = Unread /\ Notes' = Notes
    BY DEF Asked, Unread, Notes, Told
  <2>2. LoginUnread' /\ SessionOwned' /\ AskedByOwner' /\ NotesOwned'
    BY <2>1 DEF AppInv, Names, LoginUnread, SessionOwned, AskedByOwner, NotesOwned, Lesser, server
  <2>3. StaleLogins'
    BY <2>1 DEF AppInv, Names, StaleLogins, Harmless, Lesser, server
  <2>4. QED
    BY <2>2, <2>3 DEF Names
<1>3. ButtonAwaitsAnswer'
  BY ButtonKept DEF AppInv, Lesser, Answering
<1>4. Lists'
  <2> SUFFICES ASSUME session # None, "dropped" \notin faults,
                      NEW i \in 1 .. Depth', screens'[i].kind = "contacts"
               PROVE  ListsDue'
    BY DEF Lists, Listing, server
  <2>1. ListsDue
    BY DEF AppInv, Lists, Listing, Lesser
  <2>2. Asked({"grab"})' = Asked({"grab"}) /\ Asked({"addContact"})' = Asked({"addContact"})
        /\ Told({"contacts"})' = Told({"contacts"}) /\ Unlisted' = Unlisted
    BY DEF Asked, Told, Unlisted
  <2>3. ASSUME NEW g \in Asked({"grab"}), NoAddAfter(g)
        PROVE  ListsDue'
    BY <2>2, <2>3 DEF ListsDue, NoAddAfter
  <2>4. ASSUME Asked({"addContact"}) = {},
               NEW c \in Told({"contacts"}), \A d \in Told({"contacts"}) : d <= c,
               friends[session] \subseteq replies[c].arg
        PROVE  ListsDue'
    BY <2>2, <2>4 DEF ListsDue, server
  <2>5. ASSUME Asked({"addContact"}) = {}, Told({"contacts"}) = {},
               \A j \in 1 .. Depth : Listing(j) =>
                   friends[session] \subseteq Known(screens[j]) \union Unlisted
        PROVE  ListsDue'
    <3>1. \A j \in 1 .. Depth' : screens'[j].kind = "contacts" =>
             friends[session] \subseteq Known(screens'[j]) \union Unlisted
      BY <2>5 DEF Lesser, Listing
    <3>2. QED
      BY <2>2, <2>5, <3>1 DEF ListsDue, Listing, server
  <2>6. QED
    BY <2>1, <2>3, <2>4, <2>5 DEF ListsDue
<1>5. QED
  BY <1>1, <1>2, <1>3, <1>4 DEF AppInv
-----------------------------------------------------------------------------
(* Steps that send a request.                                               *)

LEMMA SentShape ==
    ASSUME QueuesOK, me \in Maybe, NEW op \in SessionOps \union {"login", "register"},
           NEW arg \in Maybe, op = "register" => arg \in People,
           InFlightRoom, requests' = Sent(op, arg), UNCHANGED replies
    PROVE  /\ QueuesOK'
           /\ \/ link # "up" /\ requests' = requests
              \/ /\ link = "up"
                 /\ Len(requests) \in Nat /\ Len(requests') = Len(requests) + 1
                 /\ \A i \in 1 .. Len(requests) : requests'[i] = requests[i]
                 /\ requests'[Len(requests) + 1] = [op |-> op, arg |-> arg, by |-> me]
<1> DEFINE r == [op |-> op, arg |-> arg, by |-> me]
<1>1. r \in RequestMsg /\ r.op = op /\ r.arg = arg
  BY DEF RequestMsg, SessionOps
<1>2. Len(requests) \in Nat /\ Len(replies) \in Nat
      /\ Len(requests) + 1 + Len(replies) <= MaxInFlight
  BY ClientAssumption DEF QueuesOK, InFlightRoom
<1>3. CASE link # "up"
  BY <1>3 DEF QueuesOK, Sent
<1>4. CASE link = "up"
  <2>1. requests' = Append(requests, r)
    BY <1>4 DEF Sent
  <2> HIDE DEF r
  <2>2. /\ requests' \in Seq(RequestMsg) /\ Len(requests') = Len(requests) + 1
        /\ \A i \in 1 .. Len(requests) : requests'[i] = requests[i]
        /\ requests'[Len(requests) + 1] = r
    BY <1>1, <1>2, <2>1 DEF QueuesOK
  <2>3. \A i \in DOMAIN requests' : requests'[i].op = "register" => requests'[i].arg \in People
    BY <1>1, <1>2, <2>2 DEF QueuesOK
  <2>4. QueuesOK'
    BY <1>2, <2>2, <2>3 DEF QueuesOK
  <2>5. QED
    BY <1>2, <1>4, <2>2, <2>4 DEF r
<1>5. QED
  BY <1>3, <1>4

\* A request changes nothing of who the app and the server take each other for: what a
\* session does is asked for by the user's screens, and its user is then the app's.
LEMMA NamesAsked ==
    ASSUME Typed, Names, Inside' => Inside, UNCHANGED <<me, link, replies, server>>,
           NEW op \in SessionOps \union {"login", "register"},
           NEW arg \in Maybe, op = "register" => arg \in People,
           IF op \in SessionOps THEN Inside ELSE ~Inside,
           InFlightRoom, requests' = Sent(op, arg)
    PROVE  Names'
<1> DEFINE n == Len(requests)
<1>1. /\ QueuesOK'
      /\ \/ link # "up" /\ requests' = requests
         \/ /\ link = "up"
            /\ n \in Nat /\ Len(requests') = n + 1
            /\ \A i \in 1 .. n : requests'[i] = requests[i]
            /\ requests'[n + 1] = [op |-> op, arg |-> arg, by |-> me]
  BY SentShape DEF Typed, ServerOK
<1>2. Unread' = Unread /\ Notes' = Notes
  BY DEF Unread, Notes, Told
<1>3. SessionOwned' /\ NotesOwned'
  BY <1>2 DEF Names, SessionOwned, NotesOwned, server
<1>4. CASE requests' = requests
  <2>1. \A ops : Asked(ops)' = Asked(ops)
    BY <1>4 DEF Asked
  <2>2. LoginUnread' /\ AskedByOwner'
    BY <1>2, <1>4, <2>1 DEF Names, LoginUnread, AskedByOwner, server
  <2>3. StaleLogins'
    BY <2>1 DEF Names, StaleLogins, Harmless, server
  <2>4. QED
    BY <1>3, <2>2, <2>3 DEF Names
<1>5. CASE /\ n \in Nat /\ Len(requests') = n + 1
           /\ \A i \in 1 .. n : requests'[i] = requests[i]
           /\ requests'[n + 1] = [op |-> op, arg |-> arg, by |-> me]
  <2>1. /\ \A i \in DOMAIN requests : i \in 1 .. n
        /\ \A i \in DOMAIN requests' : i \in 1 .. n \/ i = n + 1
        /\ \A i \in 1 .. n : i \in DOMAIN requests
        /\ \A i \in 1 .. n : i < n + 1
    BY <1>1, <1>5 DEF Typed, QueuesOK
  <2> HIDE DEF n
  <2>2. \A ops : Asked(ops)' = Asked(ops) \union (IF op \in ops THEN {n + 1} ELSE {})
    <3> SUFFICES ASSUME NEW ops, NEW i
                 PROVE  i \in DOMAIN requests' /\ requests'[i].op \in ops
                        <=> \/ i \in DOMAIN requests /\ requests[i].op \in ops
                            \/ i = n + 1 /\ op \in ops
      BY DEF Asked
    <3>1. CASE i = n + 1
      BY <1>1, <1>5, <2>1, <3>1 DEF n, Typed, QueuesOK
    <3>2. CASE i # n + 1
      BY <1>1, <1>5, <2>1, <3>2 DEF n, Typed, QueuesOK
    <3>3. QED
      BY <3>1, <3>2
  <2>3. \A ops, i : i \in Asked(ops) => i < n + 1
    BY <2>1 DEF Asked
  <2>4. LoginUnread'
    BY <1>2, <2>2 DEF Names, LoginUnread, server
  <2>5. AskedByOwner'
    <3> SUFFICES ASSUME session # None, NEW j \in Asked(SessionOps)'
                 PROVE  requests'[j].by = session
      BY DEF AskedByOwner, server
    <3>1. CASE j \in Asked(SessionOps)
      BY <1>5, <2>1, <3>1 DEF Names, AskedByOwner, Asked
    <3>2. CASE j = n + 1 /\ op \in SessionOps
      BY <1>5, <3>2 DEF Names, LoginUnread, SessionOwned
    <3>3. QED
      BY <2>2, <3>1, <3>2
  <2>6. StaleLogins'
    <3> SUFFICES ASSUME NEW i \in Asked({"login"})',
                        Inside' \/ \E j \in Asked(SessionOps)' : i < j
                 PROVE  session # None /\ \A k \in Asked(Enders)' : i < k
      BY DEF StaleLogins, Harmless, server
    <3>1. CASE op \in SessionOps
      <4>1. i \in Asked({"login"})
        BY <2>2, <3>1 DEF SessionOps
      <4>2. Harmless(i)
        BY <3>1, <4>1 DEF Names, StaleLogins
      <4>3. QED
        BY <2>2, <2>3, <4>1, <4>2 DEF Harmless
    <3>2. CASE op \notin SessionOps
      <4>1. Asked(SessionOps)' = Asked(SessionOps) /\ Asked(Enders)' = Asked(Enders)
        BY <2>2, <3>2 DEF SessionOps, Enders
      <4>2. PICK j \in Asked(SessionOps) : i < j
        BY <3>2, <4>1
      <4>3. i \in Asked({"login"})
        <5>1. i # n + 1
          BY <2>1, <2>3, <4>2 DEF n, Typed, QueuesOK, Asked
        <5>2. QED
          BY <2>2, <5>1
      <4>4. QED
        BY <4>1, <4>2, <4>3 DEF Names, StaleLogins, Harmless
    <3>3. QED
      BY <3>1, <3>2
  <2>7. QED
    BY <1>3, <2>4, <2>5, <2>6 DEF Names
<1>6. QED
  BY <1>1, <1>4, <1>5

\* What a request may take off the lists is the contact it asks to delete; only from the
\* user's own profile, with no list open above or below, is a contact added.
Relisted(op, arg) ==
    \A i \in 1 .. Depth' : screens'[i].kind = "contacts" =>
        \/ op = "grab"
        \/ /\ op # "addContact"
           /\ \E j \in 1 .. Depth :
                 /\ screens[j].kind = "contacts"
                 /\ Known(screens[j]) \subseteq Known(screens'[i])
                                       \union (IF op = "deleteContact" THEN {arg} ELSE {})

LEMMA ListsAsked ==
    ASSUME Typed, Lists, UNCHANGED <<me, link, replies, server>>,
           NEW op \in SessionOps \union {"login", "register"},
           NEW arg \in Maybe, op = "register" => arg \in People,
           InFlightRoom, requests' = Sent(op, arg), faults \subseteq faults',
           Relisted(op, arg)
    PROVE  Lists'
<1> SUFFICES ASSUME session # None, "dropped" \notin faults',
                    NEW i0 \in 1 .. Depth', screens'[i0].kind = "contacts"
             PROVE  ListsDue'
  BY DEF Lists, Listing, server
<1> DEFINE n == Len(requests)
<1>1. link = "up" /\ "dropped" \notin faults /\ Relisted(op, arg)
  BY DEF Typed, ServerOK
<1>2. /\ n \in Nat /\ Len(requests') = n + 1
      /\ \A i \in 1 .. n : requests'[i] = requests[i]
      /\ requests'[n + 1] = [op |-> op, arg |-> arg, by |-> me]
  BY <1>1, SentShape DEF Typed, ServerOK
<1>3. /\ \A i \in DOMAIN requests : i \in 1 .. n
      /\ \A i \in 1 .. n + 1 : i \in DOMAIN requests'
      /\ \A i \in DOMAIN requests' : i \in 1 .. n \/ i = n + 1
      /\ \A i \in 1 .. n : i \in DOMAIN requests
      /\ \A i \in 1 .. n : i < n + 1
  <2>1. QueuesOK'
    BY SentShape DEF Typed, ServerOK
  <2>2. QED
    BY <1>2, <2>1 DEF Typed, QueuesOK
<1> HIDE DEF n
<1>4. \A ops : Asked(ops)' = Asked(ops) \union (IF op \in ops THEN {n + 1} ELSE {})
  <2> SUFFICES ASSUME NEW ops, NEW i
               PROVE  i \in DOMAIN requests' /\ requests'[i].op \in ops
                      <=> \/ i \in DOMAIN requests /\ requests[i].op \in ops
                          \/ i = n + 1 /\ op \in ops
    BY DEF Asked
  <2>1. CASE i = n + 1
    BY <1>2, <1>3, <2>1
  <2>2. CASE i # n + 1
    BY <1>2, <1>3, <2>2
  <2>3. QED
    BY <2>1, <2>2
<1>5. Told({"contacts"})' = Told({"contacts"})
  BY DEF Told
<1>6. \A i \in Asked({"addContact"}) : i < n + 1
  BY <1>3 DEF Asked
<1>7. CASE op = "grab"
  <2>1. n + 1 \in Asked({"grab"})' /\ \A k \in Asked({"addContact"})' : k < n + 1
    BY <1>4, <1>6, <1>7
  <2>2. QED
    BY <2>1 DEF ListsDue, NoAddAfter
<1>8. CASE op # "grab"
  <2>1. op # "addContact" /\ Asked({"addContact"})' = Asked({"addContact"})
    BY <1>1, <1>4, <1>8 DEF Relisted
  <2>2. Asked({"grab"})' = Asked({"grab"})
    BY <1>4, <1>8
  <2>3. ListsDue
    BY <1>1, <1>8 DEF Relisted, Lists, Listing
  <2>4. ASSUME NEW g \in Asked({"grab"}), NoAddAfter(g)
        PROVE  ListsDue'
    BY <2>1, <2>2, <2>4 DEF ListsDue, NoAddAfter
  <2>5. ASSUME Asked({"addContact"}) = {},
               NEW c \in Told({"contacts"}), \A d \in Told({"contacts"}) : d <= c,
               friends[session] \subseteq replies[c].arg
        PROVE  ListsDue'
    BY <1>5, <2>1, <2>5 DEF ListsDue, server
  <2>6. ASSUME Asked({"addContact"}) = {}, Told({"contacts"}) = {},
               \A j \in 1 .. Depth : Listing(j) =>
                   friends[session] \subseteq Known(screens[j]) \union Unlisted
        PROVE  ListsDue'
    <3>1. Unlisted \subseteq Unlisted'
      <4> SUFFICES ASSUME NEW k \in Asked({"deleteContact"})
                   PROVE  k \in Asked({"deleteContact"})' /\ requests'[k] = requests[k]
        BY DEF Unlisted
      <4>1. QED
        BY <1>2, <1>3, <1>4 DEF Asked
    <3>2. op = "deleteContact" => arg \in Unlisted'
      <4>1. op = "deleteContact" => n + 1 \in Asked({"deleteContact"})'
        BY <1>4
      <4>2. requests'[n + 1].arg = arg
        BY <1>2
      <4>3. QED
        BY <4>1, <4>2 DEF Unlisted
    <3>3. ASSUME NEW j \in 1 .. Depth', screens'[j].kind = "contacts"
          PROVE  friends[session] \subseteq Known(screens'[j]) \union Unlisted'
      <4>1. PICK k \in 1 .. Depth :
               /\ screens[k].kind = "contacts"
               /\ Known(screens[k]) \subseteq Known(screens'[j])
                                     \union (IF op = "deleteContact" THEN {arg} ELSE {})
        BY <1>1, <1>8, <3>3 DEF Relisted
      <4>2. friends[session] \subseteq Known(screens[k]) \union Unlisted
        BY <2>6, <4>1 DEF Listing
      <4>3. QED
        BY <3>1, <3>2, <4>1, <4>2
    <3>4. QED
      BY <1>5, <2>1, <2>6, <3>3 DEF ListsDue, Listing, server
  <2>7. QED
    BY <2>3, <2>4, <2>5, <2>6 DEF ListsDue
<1>9. QED
  BY <1>7, <1>8

LEMMA RequestStep ==
    ASSUME AppInv, UNCHANGED <<me, link, replies, server>>,
           NEW op \in SessionOps \union {"login", "register"},
           NEW arg \in Maybe, op = "register" => arg \in People,
           IF op \in SessionOps THEN Inside ELSE ~Inside,
           InFlightRoom, requests' = Sent(op, arg),
           faults' = Lost,
           StackOK', Inside' => Inside,
           op = "register" \/ (\A i \in 1 .. Depth' : screens'[i].button = "off" =>
                                  \E j \in 1 .. Depth : screens[j].button = "off"),
           Relisted(op, arg)
    PROVE  AppInv'
<1>1. faults \subseteq faults' /\ faults' \subseteq faults \union {"connection"}
  BY DEF Lost
<1>2. QueuesOK'
  BY SentShape DEF AppInv, Typed, ServerOK
<1>3. ServerOK'
  <2>1. link = "down" => requests' = <<>>
    BY DEF AppInv, Typed, ServerOK, Sent
  <2>2. QED
    BY <1>1, <2>1 DEF AppInv, Typed, ServerOK, server
<1>4. Names'
  BY NamesAsked DEF AppInv
<1>5. ButtonAwaitsAnswer'
  <2>1. CASE op = "register"
    <3>1. Answering'
      <4>1. CASE link # "up"
        <5>1. "connection" \in faults'
          BY <4>1 DEF Lost
        <5>2. faults' # {}
          BY <5>1
        <5>3. QED
          BY <5>2 DEF Answering
      <4>2. CASE link = "up"
        <5>1. /\ Len(requests) \in Nat /\ Len(requests') = Len(requests) + 1
              /\ requests'[Len(requests) + 1] = [op |-> op, arg |-> arg, by |-> me]
          BY <4>2, SentShape DEF AppInv, Typed, ServerOK
        <5>2. Len(requests) + 1 \in 1 .. Len(requests')
          BY <5>1
        <5>3. requests'[Len(requests) + 1].op = "register"
          BY <2>1, <5>1
        <5>4. QED
          BY <5>2, <5>3 DEF Answering
      <4>3. QED
        BY <4>1, <4>2
    <3>2. QED
      BY <3>1 DEF Answering, ButtonAwaitsAnswer
  <2>2. CASE op # "register"
    <3>1. Answering => Answering'
      <4>1. CASE requests' = requests
        BY <1>1, <4>1 DEF Answering
      <4>2. CASE requests' # requests
        <5>1. /\ Len(requests) \in Nat /\ Len(requests') = Len(requests) + 1
              /\ \A i \in 1 .. Len(requests) : requests'[i] = requests[i]
          BY <4>2, SentShape DEF AppInv, Typed, ServerOK
        <5>2. \A i \in 1 .. Len(requests) : i \in 1 .. Len(requests')
          BY <5>1
        <5>3. QED
          BY <1>1, <5>1, <5>2 DEF Answering
      <4>3. QED
        BY <4>1, <4>2
    <3>2. QED
      BY <2>2, <3>1, ButtonKept DEF AppInv
  <2>3. QED
    BY <2>1, <2>2
<1>6. Lists'
  BY <1>1, ListsAsked DEF AppInv
<1>7. QED
  BY <1>2, <1>3, <1>4, <1>5, <1>6 DEF AppInv, Typed
-----------------------------------------------------------------------------
(* The user's actions.                                                      *)

LEMMA NewShape ==
    ASSUME NEW k \in Kinds, NEW u \in Maybe
    PROVE  /\ New(k, u) \in Screen
           /\ New(k, u).kind = k /\ New(k, u).button = "on" /\ New(k, u).alert = "none"
  BY DEF New, Screen, Maybe

LEMMA Presented ==
    ASSUME StackOK, NEW k \in Kinds \ {"own"}, NEW u \in Maybe, Present(New(k, u)),
           Inside <=> k \in Inner
    PROVE  /\ StackOK' /\ (Inside' => Inside)
           /\ \A i \in 1 .. Depth' : screens'[i] = New(k, u) \/ (i \in 1 .. Depth /\ screens'[i] = screens[i])
           /\ k # "contacts" => Lesser
<1> DEFINE s == New(k, u)
<1>1. s \in Screen /\ s.kind = k /\ s.button = "on" /\ s.alert = "none"
  BY NewShape
<1>2. Room(s) /\ screens' = Append(screens, s)
  BY DEF Present
<1> HIDE DEF s
<1>3. screens \in Seq(Screen) /\ Len(screens) = Depth
  BY DEF StackOK, Depth
<1>4. /\ StackOK' /\ (Inside' => Inside)
      /\ \A i \in 1 .. Depth' : screens'[i] = s \/ (i \in 1 .. Depth /\ screens'[i] = screens[i])
      /\ s.kind # "contacts" => Lesser
  BY <1>1, <1>2, <1>3, Pushed
<1>5. QED
  BY <1>1, <1>4 DEF s

LEMMA StartKeeps ==
    ASSUME AppInv, Start
    PROVE  AppInv'
<1>1. StackOK /\ (\A k \in {"start", "login", "register"} : k \in Kinds \ {"own"} /\ k \notin Inner)
      /\ None \in Maybe
  BY DEF AppInv, Typed, Kinds, Inner, Maybe
<1>2. ASSUME LoginTapped
      PROVE  AppInv'
  <2>1. ~Inside
    BY <1>2, <1>1 DEF LoginTapped, On, Inside
  <2>2. StackOK' /\ Lesser
    BY <1>1, <1>2, <2>1, Presented DEF LoginTapped
  <2>3. QED
    BY <1>2, <2>2, LocalStep DEF LoginTapped
<1>3. ASSUME RegisterTapped
      PROVE  AppInv'
  <2>1. ~Inside
    BY <1>3, <1>1 DEF RegisterTapped, On, Inside
  <2>2. StackOK' /\ Lesser
    BY <1>1, <1>3, <2>1, Presented DEF RegisterTapped
  <2>3. QED
    BY <1>3, <2>2, LocalStep DEF RegisterTapped
<1>4. ASSUME BackToStart
      PROVE  AppInv'
  <2>1. ~Inside
    BY <1>4, <1>1 DEF BackToStart, On, Inside
  <2>2. StackOK' /\ Lesser
    BY <1>1, <1>4, <2>1, Presented DEF BackToStart
  <2>3. QED
    BY <1>4, <2>2, LocalStep DEF BackToStart
<1>5. ASSUME DismissAlert
      PROVE  AppInv'
  <2> DEFINE s == [Top EXCEPT !.alert = "none"]
             closed == [screens EXCEPT ![Depth] = s]
  <2>1. /\ Depth \in 1 .. Depth /\ s \in Screen /\ s.kind = Top.kind /\ s.button = Top.button
        /\ Known(s) = Known(Top) /\ s.alert = "none"
        /\ s.button = "off" => s.kind = "register"
    BY <1>1, StackFacts DEF Screen, Top, StackOK, Known
  <2>2. ~Inside
    BY <1>1, <1>5, <2>1 DEF DismissAlert, StackOK, Top, Inside
  <2>3. [screens EXCEPT ![Depth].alert = "none"] = closed
    BY DEF Top
  <2> HIDE DEF s
  <2>4. /\ closed \in Seq(Screen) /\ Len(closed) = Depth
        /\ \A i \in 1 .. Depth : closed[i] = IF i = Depth THEN s ELSE screens[i]
    BY <1>1, <2>1, ExceptSeq DEF StackOK, Depth
  <2>5. ASSUME screens' = closed
        PROVE  StackOK' /\ Lesser
    BY <1>1, <2>1, <2>5, Edited DEF Top
  <2> HIDE DEF closed
  <2>6. \A i \in 1 .. Depth : /\ closed[i].kind = screens[i].kind /\ Known(closed[i]) = Known(screens[i])
                              /\ closed[i].button = screens[i].button
                              /\ closed[i].alert \in {"none", screens[i].alert}
    BY <2>1, <2>4 DEF Top
  <2>7. ASSUME Room(New("login", None)), screens' = Append(closed, New("login", None))
        PROVE  StackOK' /\ Lesser
    <3> DEFINE l == New("login", None)
    <3>1. l \in Screen /\ l.kind = "login" /\ l.button = "on" /\ l.alert = "none"
      BY <1>1, NewShape
    <3>2. Room(l) /\ screens' = Append(closed, l)
      BY <2>7
    <3> HIDE DEF l
    <3>3. l.kind \notin Inner /\ l.kind # "own" /\ l.kind # "contacts"
      BY <3>1 DEF Inner
    <3>4. QED
      BY <1>1, <2>2, <2>4, <2>6, <3>1, <3>2, <3>3, Pushed
  <2>8. StackOK' /\ Lesser
    BY <1>5, <2>3, <2>5, <2>7 DEF DismissAlert
  <2>9. QED
    BY <1>5, <2>8, LocalStep DEF DismissAlert
<1>6. QED
  BY <1>2, <1>3, <1>4, <1>5 DEF Start

\* Asking for a login or a registration.
LEMMA SignInKeeps ==
    ASSUME AppInv, SignIn
    PROVE  AppInv'
<1>1. /\ StackOK /\ Depth \in 1 .. Depth /\ Top \in Screen
      /\ Top.button = "off" => Top.kind = "register"
      /\ Top.alert # "none" => Top.kind \in {"login", "register"}
  BY StackFacts DEF AppInv, Typed, StackOK, Top
<1>2. ASSUME RegistrationRefused
      PROVE  AppInv'
  <2> DEFINE s == [Top EXCEPT !.alert = "told"]
  <2>1. /\ s \in Screen /\ s.kind = "register" /\ s.button = Top.button /\ Known(s) = Known(Top)
        /\ Top.kind = "register"
    BY <1>1, <1>2 DEF Screen, RegistrationRefused, On, Known
  <2>2. screens' = [screens EXCEPT ![Depth] = s]
    BY <1>2 DEF RegistrationRefused, Top
  <2> HIDE DEF s
  <2>3. StackOK' /\ Lesser
    BY <1>1, <2>1, <2>2, Edited DEF Top
  <2>4. QED
    BY <1>2, <2>3, LocalStep DEF RegistrationRefused
<1>3. ASSUME NEW u \in Maybe, LoginButtonPressed(u)
      PROVE  AppInv'
  <2>1. ~Inside
    BY <1>3 DEF LoginButtonPressed, On, Inside, Inner
  <2>2. StackOK' /\ Lesser
    BY <1>1, <1>3, Unchanged DEF LoginButtonPressed, app
  <2>3. Relisted("login", u)
    BY <2>2 DEF Relisted, Lesser
  <2>4. /\ UNCHANGED <<me, link, replies, server>> /\ InFlightRoom
        /\ requests' = Sent("login", u) /\ faults' = Lost
    BY <1>3 DEF LoginButtonPressed, Request, app
  <2>5. "login" \in SessionOps \union {"login", "register"} /\ "login" \notin SessionOps
    BY DEF SessionOps
  <2>6. QED
    BY <2>1, <2>2, <2>3, <2>4, <2>5, RequestStep DEF Lesser
<1>4. ASSUME NEW u \in People, RegistrationButtonPressed(u)
      PROVE  AppInv'
  <2> DEFINE s == [Top EXCEPT !.button = "off"]
  <2>1. /\ s \in Screen /\ s.kind = "register" /\ s.alert = "none" /\ Known(s) = Known(Top)
        /\ Top.kind = "register"
    BY <1>1, <1>4 DEF Screen, RegistrationButtonPressed, On, Known
  <2>2. screens' = [screens EXCEPT ![Depth] = s]
    BY <1>4 DEF RegistrationButtonPressed, Top
  <2> HIDE DEF s
  <2>3. /\ StackOK' /\ (Inside' => Inside) /\ Depth' = Depth
        /\ \A i \in 1 .. Depth : screens'[i] = IF i = Depth THEN s ELSE screens[i]
    <3>1. /\ StackOK /\ Depth \in 1 .. Depth /\ s \in Screen
          /\ s.kind = screens[Depth].kind /\ s.kind = "register" /\ s.alert = "none"
      BY <1>1, <2>1 DEF Top
    <3>2. QED
      BY <2>2, <3>1, Edited
  <2>4. Relisted("register", u)
    BY <2>1, <2>3 DEF Relisted
  <2>5. ~Inside
    BY <2>1 DEF Inside, Inner
  <2>6. /\ UNCHANGED <<me, link, replies, server>> /\ InFlightRoom
        /\ requests' = Sent("register", u) /\ faults' = Lost
    BY <1>4 DEF RegistrationButtonPressed, Request
  <2>7. /\ "register" \in SessionOps \union {"login", "register"} /\ "register" \notin SessionOps
        /\ u \in Maybe
    BY DEF SessionOps, Maybe
  <2>8. QED
    BY <2>3, <2>4, <2>5, <2>6, <2>7, RequestStep
<1>5. QED
  BY <1>2, <1>3, <1>4 DEF SignIn, Maybe

\* A request that leaves every list as it is, or closes it.
LEMMA PlainRequest ==
    ASSUME AppInv, UNCHANGED <<me, link, replies, server>>, StackOK', Lesser, Inside,
           NEW op \in SessionOps \ {"addContact"}, NEW arg \in Maybe, Request(op, arg)
    PROVE  AppInv'
<1>1. Relisted(op, arg)
  BY DEF Relisted, Lesser
<1>2. op \in SessionOps \union {"login", "register"} /\ op # "register" /\ op \in SessionOps
  BY DEF SessionOps
<1>3. InFlightRoom /\ requests' = Sent(op, arg) /\ faults' = Lost
  BY DEF Request
<1>4. QED
  BY <1>1, <1>2, <1>3, RequestStep DEF Lesser

LEMMA ProfileKeeps ==
    ASSUME AppInv, Profile
    PROVE  AppInv'
<1>1. /\ StackOK /\ Depth \in 1 .. Depth /\ Depth \in Nat /\ Top \in Screen
      /\ \A i \in 1 .. Depth : screens[i] \in Screen
  BY StackFacts DEF AppInv, Typed, StackOK, Top
<1>2. On("own") \/ On("profile")
  BY DEF Profile, NavigationBackButtonPressed, PersonsFriendsPressed, DeleteAccountPressed,
         DeleteFriendPressed, ClickToChatPressed, AddFriendPressed
<1>3. Inside /\ Top.kind # "start" /\ None \in Maybe /\ Top.user \in Maybe
  BY <1>1, <1>2 DEF On, Inside, Inner, Maybe, Screen
<1>4. ASSUME NavigationBackButtonPressed
      PROVE  AppInv'
  <2>1. StackOK' /\ Lesser
    BY <1>1, <1>3, <1>4, Popped DEF NavigationBackButtonPressed
  <2>2. "logout" \in SessionOps \ {"addContact"}
    BY DEF SessionOps
  <2>3. QED
    BY <1>3, <1>4, <2>1, <2>2, PlainRequest DEF NavigationBackButtonPressed
<1>5. ASSUME PersonsFriendsPressed
      PROVE  AppInv'
  <2>1. /\ "contacts" \in Kinds \ {"own"} /\ "contacts" \in Inner
        /\ "grab" \in SessionOps \union {"login", "register"} /\ "grab" \in SessionOps
    BY DEF Kinds, Inner, SessionOps
  <2>2. /\ StackOK' /\ (Inside' => Inside)
        /\ \A i \in 1 .. Depth' : screens'[i] = New("contacts", None)
                                   \/ (i \in 1 .. Depth /\ screens'[i] = screens[i])
    BY <1>1, <1>3, <1>5, <2>1, Presented DEF PersonsFriendsPressed
  <2>3. New("contacts", None).button = "on"
    BY <1>3, <2>1, NewShape
  <2>4. \A i \in 1 .. Depth' : screens'[i].button = "off" =>
           \E j \in 1 .. Depth : screens[j].button = "off"
    BY <2>2, <2>3
  <2>5. Relisted("grab", None)
    BY DEF Relisted
  <2>6. /\ InFlightRoom /\ requests' = Sent("grab", None) /\ faults' = Lost
        /\ UNCHANGED <<me, link, replies, server>>
    BY <1>5 DEF PersonsFriendsPressed, Request
  <2>7. QED
    BY <1>3, <2>1, <2>2, <2>4, <2>5, <2>6, RequestStep
<1>6. ASSUME DeleteAccountPressed
      PROVE  AppInv'
  <2>1. StackOK' /\ Lesser
    BY <1>1, <1>3, <1>6, Popped DEF DeleteAccountPressed
  <2>2. "deleteAccount" \in SessionOps \ {"addContact"}
    BY DEF SessionOps
  <2>3. QED
    BY <1>3, <1>6, <2>1, <2>2, PlainRequest DEF DeleteAccountPressed
<1>7. ASSUME DeleteFriendPressed
      PROVE  AppInv'
  <2> DEFINE u == Top.user
             below == screens[Depth - 1]
             s == RowRemoved(below, u)
  <2>1. /\ Dismissed \in Seq(Screen) /\ Len(Dismissed) = Depth - 1 /\ Depth - 1 \in 1 .. Depth
        /\ \A i \in 1 .. Depth - 1 : Dismissed[i] = screens[i] /\ i \in 1 .. Depth
    BY <1>1, <1>3, Popped
  <2>2. Depth - 1 \in 1 .. Depth - 1
    BY <1>1, <2>1
  <2>3. below \in Screen
    BY <1>1, <2>1
  <2>4. /\ s \in Screen /\ s.kind = below.kind /\ s.button = below.button /\ s.alert = below.alert
        /\ Known(below) \subseteq Known(s) \union {u}
    BY <2>3 DEF RowRemoved, Screen, Known
  <2>5. screens' = [Dismissed EXCEPT ![Depth - 1] = s]
    BY <1>7, <2>1, <2>2 DEF DeleteFriendPressed
  <2> HIDE DEF s
  <2>6. /\ screens' \in Seq(Screen) /\ Depth' = Depth - 1
        /\ \A i \in 1 .. Depth - 1 : screens'[i] = IF i = Depth - 1 THEN s ELSE screens[i]
    BY <2>1, <2>2, <2>4, <2>5, ExceptSeq DEF Depth
  <2>7. \A i \in 1 .. Depth' :
           /\ i \in 1 .. Depth /\ screens'[i].kind = screens[i].kind
           /\ screens'[i].button = screens[i].button /\ screens'[i].alert = screens[i].alert
           /\ Known(screens[i]) \subseteq Known(screens'[i]) \union {u}
    BY <2>1, <2>4, <2>6
  <2>8. StackOK' /\ (Inside' => Inside)
    <3>1. \A i \in 1 .. Depth' :
             /\ screens'[i].kind = screens[i].kind
             /\ screens'[i].button = "off" => screens[i].kind = "register"
             /\ screens'[i].alert # "none" => screens[i].kind \in {"login", "register"}
      BY <1>1, <2>7 DEF StackOK
    <3>2. Depth' \in 1 .. Depth
      BY <2>1, <2>6
    <3>3. QED
      BY <1>1, <2>6, <3>1, <3>2, Redrawn
  <2>9. Relisted("deleteContact", u)
    BY <2>7 DEF Relisted
  <2>10. /\ InFlightRoom /\ requests' = Sent("deleteContact", u) /\ faults' = Lost
         /\ UNCHANGED <<me, link, replies, server>>
    BY <1>7 DEF DeleteFriendPressed, Request
  <2>11. "deleteContact" \in SessionOps
    BY DEF SessionOps
  <2> HIDE DEF u
  <2>12. u \in Maybe
    BY <1>3 DEF u
  <2>13. QED
    BY <1>3, <2>7, <2>8, <2>9, <2>10, <2>11, <2>12, RequestStep
<1>8. ASSUME ClickToChatPressed
      PROVE  AppInv'
  <2>1. "chat" \in Kinds \ {"own"} /\ "chat" \in Inner
    BY DEF Kinds, Inner
  <2>2. StackOK' /\ Lesser
    BY <1>1, <1>3, <1>8, <2>1, Presented DEF ClickToChatPressed
  <2>3. QED
    BY <1>8, <2>2, LocalStep DEF ClickToChatPressed
<1>9. ASSUME NEW f \in People, AddFriendPressed(f)
      PROVE  AppInv'
  <2>1. StackOK' /\ Lesser /\ Depth' = Depth
    BY <1>1, <1>9, Unchanged DEF AddFriendPressed, app, Depth
  <2>2. \A i \in 1 .. Depth : screens[i].kind # "contacts"
    <3>1. screens[Depth].kind = "own"
      BY <1>9 DEF AddFriendPressed, On, Top
    <3>2. ASSUME NEW i \in 1 .. Depth, screens[i].kind = "contacts"
          PROVE  FALSE
      <4>1. i < Depth
        BY <1>1, <3>1, <3>2
      <4>2. QED
        BY <1>1, <3>1, <3>2, <4>1 DEF StackOK, Inner
    <3>3. QED
      BY <3>2
  <2>3. Relisted("addContact", f)
    BY <2>1, <2>2 DEF Relisted, Lesser
  <2>4. /\ InFlightRoom /\ requests' = Sent("addContact", f) /\ faults' = Lost
        /\ UNCHANGED <<me, link, replies, server>>
    BY <1>9 DEF AddFriendPressed, Request, app
  <2>5. "addContact" \in SessionOps /\ f \in Maybe
    BY DEF SessionOps, Maybe
  <2>6. QED
    BY <1>3, <2>1, <2>3, <2>4, <2>5, RequestStep DEF Lesser
<1>10. QED
  BY <1>4, <1>5, <1>6, <1>7, <1>8, <1>9 DEF Profile

LEMMA ContactsKeep ==
    ASSUME AppInv, Contacts
    PROVE  AppInv'
<1>1. /\ StackOK /\ Depth \in 1 .. Depth /\ Depth \in Nat /\ Top \in Screen /\ Top = screens[Depth]
      /\ \A i \in 1 .. Depth : screens[i] \in Screen
  BY StackFacts DEF AppInv, Typed, StackOK, Top
<1>2. On("contacts") \/ On("chat")
  BY DEF Contacts, NavigateBackPressed, DidSelectRow, DeleteButtonAction, ChatButtonAction,
         SearchTextDidChange, DidPressSend
<1>3. Inside /\ Top.kind # "start" /\ Top.user \in Maybe
  BY <1>1, <1>2 DEF On, Inside, Inner, Maybe, Screen
<1>4. /\ "profile" \in Kinds \ {"own"} /\ "profile" \in Inner
      /\ "chat" \in Kinds \ {"own"} /\ "chat" \in Inner
      /\ \A u \in People : u \in Maybe
  BY DEF Kinds, Inner, Maybe
<1>5. ASSUME NavigateBackPressed
      PROVE  AppInv'
  <2>1. StackOK' /\ Lesser
    BY <1>1, <1>3, <1>5, Popped DEF NavigateBackPressed
  <2>2. QED
    BY <1>5, <2>1, LocalStep DEF NavigateBackPressed
<1>6. ASSUME NEW u \in People, DidSelectRow(u)
      PROVE  AppInv'
  <2>1. StackOK' /\ Lesser
    BY <1>1, <1>3, <1>4, <1>6, Presented DEF DidSelectRow
  <2>2. QED
    BY <1>6, <2>1, LocalStep DEF DidSelectRow
<1>7. ASSUME NEW u \in People, ChatButtonAction(u)
      PROVE  AppInv'
  <2>1. StackOK' /\ Lesser
    BY <1>1, <1>3, <1>4, <1>7, Presented DEF ChatButtonAction
  <2>2. QED
    BY <1>7, <2>1, LocalStep DEF ChatButtonAction
<1>8. ASSUME NEW matches \in SUBSET Top.rows, SearchTextDidChange(matches)
      PROVE  AppInv'
  <2> DEFINE s == [Top EXCEPT !.shown = matches]
  <2>1. /\ s \in Screen /\ s.kind = Top.kind /\ s.button = Top.button /\ Known(s) = Known(Top)
        /\ s.alert = Top.alert
    BY <1>1 DEF Screen, Known
  <2>2. screens' = [screens EXCEPT ![Depth] = s]
    BY <1>8 DEF SearchTextDidChange, Top
  <2> HIDE DEF s
  <2>3. (s.button = "off" => s.kind = "register")
        /\ (s.alert # "none" => s.kind \in {"login", "register"})
    BY <1>1, <2>1 DEF StackOK
  <2>4. StackOK' /\ Lesser
    BY <1>1, <2>1, <2>2, <2>3, Edited
  <2>5. QED
    BY <1>8, <2>4, LocalStep DEF SearchTextDidChange
<1>9. ASSUME NEW u \in People, DeleteButtonAction(u)
      PROVE  AppInv'
  <2>1. PICK v \in IndexOf(Top.rows, u) :
             screens' = [screens EXCEPT ![Depth].rows = @ \ {v},
                                        ![Depth].shown = Top.rows \ {v},
                                        ![Depth].wrong = @ \union ({v} \ {u})]
    BY <1>9 DEF DeleteButtonAction
  <2> DEFINE s == [Top EXCEPT !.rows = @ \ {v}, !.shown = Top.rows \ {v},
                              !.wrong = @ \union ({v} \ {u})]
  <2>2. /\ s \in Screen /\ s.kind = Top.kind /\ s.button = Top.button /\ s.alert = Top.alert
        /\ Known(Top) \subseteq Known(s) \union {u}
    <3>1. Top.rows \in SUBSET People /\ v \in People
      <4>1. Top.rows \in SUBSET People
        BY <1>1 DEF Screen
      <4>2. QED
        BY <2>1, <4>1 DEF IndexOf
    <3>2. QED
      BY <1>1, <3>1 DEF Screen, Known
  <2>3. screens' = [screens EXCEPT ![Depth] = s]
    BY <1>1, <2>1
  <2> HIDE DEF s
  <2>4. (s.button = "off" => s.kind = "register")
        /\ (s.alert # "none" => s.kind \in {"login", "register"})
    BY <1>1, <2>2 DEF StackOK
  <2>5. /\ StackOK' /\ (Inside' => Inside) /\ Depth' = Depth
        /\ \A i \in 1 .. Depth : screens'[i] = IF i = Depth THEN s ELSE screens[i]
    BY <1>1, <2>2, <2>3, <2>4, Edited
  <2>6. /\ InFlightRoom /\ requests' = Sent("deleteContact", u) /\ faults' = Lost
        /\ UNCHANGED <<me, link, replies, server>>
    BY <1>9 DEF DeleteButtonAction, Request
  <2>7. Relisted("deleteContact", u)
    <3>1. \A i \in 1 .. Depth : screens'[i].kind = screens[i].kind
                                /\ Known(screens[i]) \subseteq Known(screens'[i]) \union {u}
      BY <1>1, <2>2, <2>5
    <3>2. QED
      BY <2>5, <3>1 DEF Relisted
  <2>8. \A i \in 1 .. Depth' : screens'[i].button = "off" =>
           \E j \in 1 .. Depth : screens[j].button = "off"
    BY <1>1, <2>2, <2>5
  <2>9. "deleteContact" \in SessionOps
    BY DEF SessionOps
  <2>10. QED
    BY <1>3, <1>4, <2>5, <2>6, <2>7, <2>8, <2>9, RequestStep
<1>10. ASSUME DidPressSend
       PROVE  AppInv'
  <2>1. StackOK' /\ Lesser
    BY <1>1, <1>10, Unchanged DEF DidPressSend, app
  <2>2. "chat" \in SessionOps \ {"addContact"}
    BY DEF SessionOps
  <2>3. QED
    BY <1>3, <1>10, <2>1, <2>2, PlainRequest DEF DidPressSend, app
<1>11. QED
  BY <1>5, <1>6, <1>7, <1>8, <1>9, <1>10 DEF Contacts
-----------------------------------------------------------------------------
(* The server takes a request.                                              *)

\* The first of n requests is taken and the rest of them lost.
LEMMA Taken ==
    ASSUME Typed, NEW n \in 1 .. Len(requests), requests' = SubSeq(requests, n + 1, Len(requests))
    PROVE  /\ link = "up" /\ n \in Nat \ {0}
           /\ Head(requests) = requests[1] /\ requests[1] \in RequestMsg /\ 1 \in DOMAIN requests
           /\ requests' \in Seq(RequestMsg) /\ Len(requests') = Len(requests) - n
           /\ \A i \in DOMAIN requests' : i + n \in DOMAIN requests /\ requests'[i] = requests[i + n]
           /\ \A i \in DOMAIN requests' : requests'[i].op = "register" => requests'[i].arg \in People
           /\ \A ops, i : i \in Asked(ops)' <=> i \in Nat \ {0} /\ i + n \in Asked(ops)
<1>1. requests \in Seq(RequestMsg) /\ Len(requests) \in Nat /\ n \in Nat \ {0}
  BY DEF Typed, QueuesOK
<1>2. requests # <<>> /\ 1 \in DOMAIN requests
  BY <1>1
<1>3. link = "up"
  BY <1>2 DEF Typed, ServerOK
<1>4. Head(requests) = requests[1] /\ requests[1] \in RequestMsg
  BY <1>1, <1>2
<1>5. /\ requests' \in Seq(RequestMsg) /\ Len(requests') = Len(requests) - n
      /\ \A i \in 1 .. Len(requests') : requests'[i] = requests[i + n]
  BY <1>1, SuffixShape
<1>6. \A i \in DOMAIN requests' : i \in Nat \ {0} /\ i + n \in DOMAIN requests
                                   /\ requests'[i] = requests[i + n]
  BY <1>1, <1>5
<1>7. \A i \in Nat \ {0} : i + n \in DOMAIN requests => i \in DOMAIN requests'
  BY <1>1, <1>5
<1>8. \A i \in DOMAIN requests' : requests'[i].op = "register" => requests'[i].arg \in People
  BY <1>6 DEF Typed, QueuesOK
<1>9. \A ops, i : i \in Asked(ops)' <=> i \in Nat \ {0} /\ i + n \in Asked(ops)
  BY <1>6, <1>7 DEF Asked
<1>10. QED
  BY <1>1, <1>2, <1>3, <1>4, <1>5, <1>6, <1>8, <1>9

LEMMA Answered ==
    ASSUME QueuesOK, NEW a \in ReplyMsg, Answer(a)
    PROVE  /\ replies' \in Seq(ReplyMsg)
           /\ Len(replies) \in Nat /\ Len(replies') = Len(replies) + 1
           /\ \A i \in 1 .. Len(replies) : replies'[i] = replies[i]
           /\ replies'[Len(replies) + 1] = a
           /\ \A ops, i : i \in Told(ops)' <=>
                 i \in Told(ops) \/ (i = Len(replies) + 1 /\ a.op \in ops)
           /\ \A ops, i : i \in Told(ops) => i \in 1 .. Len(replies) /\ i < Len(replies) + 1
                                              /\ replies'[i] = replies[i]
<1> DEFINE m == Len(replies)
<1>1. /\ replies' \in Seq(ReplyMsg) /\ m \in Nat /\ Len(replies') = m + 1
      /\ \A i \in 1 .. m : replies'[i] = replies[i]
      /\ replies'[m + 1] = a
  BY DEF QueuesOK, Answer
<1>2. /\ \A i : i \in DOMAIN replies <=> i \in 1 .. m
      /\ \A i : i \in DOMAIN replies' <=> i \in 1 .. m \/ i = m + 1
      /\ \A i \in 1 .. m : i < m + 1
  BY <1>1 DEF QueuesOK
<1> HIDE DEF m
<1>3. \A ops, i : i \in Told(ops) => i \in 1 .. m /\ i < m + 1 /\ replies'[i] = replies[i]
  BY <1>1, <1>2 DEF Told
<1>4. ASSUME NEW ops, NEW i
      PROVE  i \in DOMAIN replies' /\ replies'[i].op \in ops <=>
                (i \in DOMAIN replies /\ replies[i].op \in ops) \/ (i = m + 1 /\ a.op \in ops)
  <2>1. CASE i \in 1 .. m
    BY <1>1, <1>2, <2>1
  <2>2. CASE i \notin 1 .. m
    BY <1>1, <1>2, <2>2
  <2>3. QED
    BY <2>1, <2>2
<1>5. \A ops, i : i \in Told(ops)' <=> i \in Told(ops) \/ (i = m + 1 /\ a.op \in ops)
  BY <1>4 DEF Told
<1>6. QED
  BY <1>1, <1>3, <1>5 DEF m

\* The session goes on; what it writes belongs to it.
LEMMA NamesHandled ==
    ASSUME Names, UNCHANGED app, session' = session, NEW n \in Nat,
           \A ops : \A i \in Asked(ops)' : i \in Nat /\ i + n \in Asked(ops) /\ requests'[i] = requests[i + n],
           \A ops : \A i \in Asked(ops) : i \in Nat,
           Unread' = Unread, \A i \in Unread : replies'[i] = replies[i],
           \A j \in Notes' : \/ j \in Notes /\ replies'[j] = replies[j]
                             \/ /\ session # None /\ replies'[j].to = session
                                /\ \A i \in Unread : i < j
    PROVE  Names'
<1>1. Inside' = Inside /\ me' = me
  BY DEF app, Inside, Top, Depth
<1>2. LoginUnread'
  BY <1>1 DEF Names, LoginUnread
<1>3. NotesOwned'
  <2> SUFFICES ASSUME NEW j \in Notes'
               PROVE  replies'[j].to = IF \E i \in Unread : i < j THEN session ELSE me
    BY <1>1 DEF NotesOwned
  <2>1. CASE j \in Notes /\ replies'[j] = replies[j]
    BY <2>1 DEF Names, NotesOwned
  <2>2. CASE session # None /\ replies'[j].to = session /\ \A i \in Unread : i < j
    BY <2>2 DEF Names, SessionOwned
  <2>3. QED
    BY <2>1, <2>2
<1>4. SessionOwned'
  BY <1>1 DEF Names, SessionOwned
<1>5. StaleLogins'
  <2> SUFFICES ASSUME NEW i \in Asked({"login"})',
                      Inside \/ \E j \in Asked(SessionOps)' : i < j
               PROVE  session # None /\ \A k \in Asked(Enders)' : i < k
    BY <1>1 DEF StaleLogins, Harmless
  <2>1. i \in Nat /\ i + n \in Asked({"login"})
    OBVIOUS
  <2>2. Inside \/ \E j \in Asked(SessionOps) : i + n < j
    BY <2>1
  <2>3. session # None /\ \A k \in Asked(Enders) : i + n < k
    BY <2>1, <2>2 DEF Names, StaleLogins, Harmless
  <2>4. QED
    BY <2>1, <2>3
<1>6. AskedByOwner'
  BY DEF Names, AskedByOwner
<1>7. QED
  BY <1>2, <1>3, <1>4, <1>5, <1>6 DEF Names

\* The session ends: no login from before its end is left.
LEMMA NamesEnded ==
    ASSUME Typed, Names, UNCHANGED app, UNCHANGED replies, session' = None,
           NEW n \in 1 .. Len(requests), requests' = SubSeq(requests, n + 1, Len(requests)),
           requests[1].op \in Enders
    PROVE  Names'
<1>1. Inside' = Inside /\ me' = me /\ Unread' = Unread /\ Notes' = Notes
  BY DEF app, Inside, Top, Depth, Unread, Notes, Told
<1>2. 1 \in Asked(SessionOps) /\ 1 \in Asked(Enders)
  BY Taken DEF Asked, SessionOps, Enders
<1>3. Unread = {}
  BY <1>2 DEF Names, LoginUnread
<1>4. LoginUnread' /\ NotesOwned' /\ SessionOwned' /\ AskedByOwner'
  BY <1>1, <1>3 DEF Names, LoginUnread, NotesOwned, SessionOwned, AskedByOwner
<1>5. StaleLogins'
  <2> SUFFICES ASSUME NEW i \in Asked({"login"})',
                      Inside \/ \E j \in Asked(SessionOps)' : i < j
               PROVE  FALSE
    BY <1>1 DEF StaleLogins
  <2>1. i \in Nat \ {0} /\ n \in Nat \ {0} /\ i + n \in Asked({"login"})
    BY Taken
  <2>2. Inside \/ \E j \in Asked(SessionOps) : i + n < j
    <3>1. \A j \in Asked(SessionOps)' : j \in Nat /\ j + n \in Asked(SessionOps)
      BY Taken
    <3>2. QED
      BY <2>1, <3>1
  <2>3. i + n < 1
    BY <1>2, <2>1, <2>2 DEF Names, StaleLogins, Harmless
  <2>4. QED
    BY <2>1, <2>3
<1>6. QED
  BY <1>4, <1>5 DEF Names

\* A session begins: the login was not stale, so no user's screen is shown or asks for
\* anything, and nothing of another session is unread.
LEMMA NamesBegun ==
    ASSUME Typed, Names, UNCHANGED app, session = None,
           NEW n \in 1 .. Len(requests), requests' = SubSeq(requests, n + 1, Len(requests)),
           requests[1].op = "login", NEW u \in People, session' = u,
           Answer([op |-> "loggedIn", arg |-> u, to |-> None])
    PROVE  Names' /\ ~Inside
<1> DEFINE a == [op |-> "loggedIn", arg |-> u, to |-> None]
           m == Len(replies)
<1>1. a \in ReplyMsg /\ a.op = "loggedIn" /\ a.arg = u
  BY DEF ReplyMsg, Maybe
<1>2. Inside' = Inside /\ me' = me
  BY DEF app, Inside, Top, Depth
<1>3. ~Inside /\ \A j \in Asked(SessionOps) : ~(1 < j)
  <2>1. 1 \in Asked({"login"})
    BY Taken DEF Asked
  <2>2. QED
    BY <2>1 DEF Names, StaleLogins, Harmless
<1>4. Asked(SessionOps)' = {}
  <2>1. \A j \in Asked(SessionOps)' : j \in Nat \ {0} /\ n \in Nat \ {0} /\ j + n \in Asked(SessionOps)
    BY Taken
  <2>2. \A j \in Asked(SessionOps)' : 1 < j + n
    BY <2>1
  <2>3. QED
    BY <1>3, <2>1, <2>2
<1>5. Unread = {}
  <2>1. ASSUME NEW i \in Unread
        PROVE  FALSE
    <3>1. replies[i] \in ReplyMsg /\ replies[i].op = "loggedIn"
      BY DEF Unread, Told, Typed, QueuesOK
    <3>2. replies[i].arg \in People
      BY <3>1 DEF ReplyMsg
    <3>3. replies[i].arg = None
      BY DEF Names, LoginUnread
    <3>4. QED
      BY <3>2, <3>3, ClientAssumption
  <2>2. QED
    BY <2>1
<1> HIDE DEF a
<1>6. Answer(a)
  BY DEF a
<1>7. /\ \A i : i \in Unread' <=> i = m + 1
      /\ \A i : i \in Notes' <=> i \in Notes
      /\ \A i \in Notes : i < m + 1 /\ replies'[i] = replies[i] /\ i \in 1 .. m
      /\ replies'[m + 1] = a /\ m \in Nat
  <2>1. /\ m \in Nat /\ replies'[m + 1] = a
        /\ \A ops, i : i \in Told(ops)' <=> i \in Told(ops) \/ (i = m + 1 /\ a.op \in ops)
        /\ \A ops, i : i \in Told(ops) => i \in 1 .. m /\ i < m + 1 /\ replies'[i] = replies[i]
    BY <1>1, <1>6, Answered DEF Typed
  <2>2. \A i : i \in Unread' <=> i = m + 1
    BY <1>1, <1>5, <2>1 DEF Unread
  <2>3. \A i : i \in Notes' <=> i \in Notes
    BY <1>1, <2>1 DEF Notes
  <2>4. QED
    BY <2>1, <2>2, <2>3 DEF Notes
<1> HIDE DEF m
<1>8. LoginUnread'
  BY <1>1, <1>2, <1>3, <1>4, <1>7 DEF LoginUnread
<1>9. NotesOwned'
  <2> SUFFICES ASSUME NEW j \in Notes'
               PROVE  replies'[j].to = me /\ ~(m + 1 < j)
    BY <1>2, <1>7 DEF NotesOwned
  <2>1. j \in Notes /\ j < m + 1 /\ replies'[j] = replies[j] /\ j \in 1 .. m
    BY <1>7
  <2>2. QED
    BY <1>5, <1>7, <2>1 DEF Names, NotesOwned
<1>10. SessionOwned' /\ AskedByOwner' /\ StaleLogins'
  BY <1>2, <1>3, <1>4, <1>7 DEF SessionOwned, AskedByOwner, StaleLogins
<1>11. QED
  BY <1>3, <1>8, <1>9, <1>10 DEF Names

\* Without a user's screen there is no list.
LEMMA NoListOutside ==
    ASSUME StackOK, ~Inside
    PROVE  \A i \in 1 .. Depth : ~Listing(i)
  BY StackFacts DEF Listing, Inner

\* A request other than for the list: lists that were due stay so.
LEMMA ListsDueKept ==
    ASSUME Typed, ListsDue, UNCHANGED screens, session' = session, 1 \in 1 .. Len(requests),
           requests' = SubSeq(requests, 1 + 1, Len(requests)), requests[1].op # "grab",
           requests[1].op # "addContact" => friends'[session] \subseteq friends[session],
           requests[1].op = "deleteContact" => requests[1].arg \notin friends'[session],
           UNCHANGED replies
           \/ (\E a \in ReplyMsg : a.op # "contacts" /\ Answer(a))
    PROVE  ListsDue'
<1>1. /\ 1 \in DOMAIN requests
      /\ \A ops, i : i \in Asked(ops)' <=> i \in Nat \ {0} /\ i + 1 \in Asked(ops)
      /\ \A i \in DOMAIN requests' : requests'[i] = requests[i + 1]
      /\ \A ops, i : i \in Asked(ops)' => i \in DOMAIN requests'
  BY Taken DEF Asked
<1>2. /\ Told({"contacts"})' = Told({"contacts"})
      /\ \A c \in Told({"contacts"}) : replies'[c] = replies[c]
  <2>1. CASE UNCHANGED replies
    BY <2>1 DEF Told
  <2>2. CASE \E a \in ReplyMsg : a.op # "contacts" /\ Answer(a)
    <3>1. PICK a \in ReplyMsg : a.op # "contacts" /\ Answer(a)
      BY <2>2
    <3>2. \A i : i \in Told({"contacts"})' <=> i \in Told({"contacts"})
      BY <3>1, Answered DEF Typed
    <3>3. \A i \in Told({"contacts"}) : replies'[i] = replies[i]
      BY <3>1, Answered DEF Typed
    <3>4. QED
      BY <3>2, <3>3
  <2>3. QED
    BY <2>1, <2>2
<1>3. \A ops : \A i \in Asked(ops) : i \in Nat \ {0} /\ (i # 1 => i - 1 \in Asked(ops)')
  <2>1. \A ops : \A i \in Asked(ops) : i \in Nat \ {0}
    BY DEF Asked, Typed, QueuesOK
  <2>2. ASSUME NEW ops, NEW i \in Asked(ops), i # 1
        PROVE  i - 1 \in Asked(ops)'
    <3>1. i - 1 \in Nat \ {0} /\ (i - 1) + 1 = i
      BY <2>1, <2>2
    <3>2. \A k : k \in Asked(ops)' <=> k \in Nat \ {0} /\ k + 1 \in Asked(ops)
      BY <1>1
    <3>3. QED
      BY <3>1, <3>2
  <2>3. QED
    BY <2>1, <2>2
<1>4. Asked({"addContact"}) = {} => Asked({"addContact"})' = {} /\ requests[1].op # "addContact"
  BY <1>1 DEF Asked
<1>5. ASSUME NEW g \in Asked({"grab"}), NoAddAfter(g)
      PROVE  ListsDue'
  <2>1. g # 1
    BY DEF Asked
  <2>2. g \in Nat \ {0} /\ g - 1 \in Asked({"grab"})'
    BY <1>3, <2>1
  <2>3. ASSUME NEW k \in Asked({"addContact"})'
        PROVE  k < g - 1
    <3>1. k \in Nat /\ k + 1 \in Asked({"addContact"})
      BY <1>1
    <3>2. k + 1 < g
      BY <1>5, <3>1 DEF NoAddAfter
    <3>3. QED
      BY <2>2, <3>1, <3>2
  <2> DEFINE h == g - 1
  <2> HIDE DEF h
  <2>4. h \in Asked({"grab"})' /\ \A k \in Asked({"addContact"})' : k < h
    BY <2>2, <2>3 DEF h
  <2>5. QED
    BY <2>4 DEF ListsDue, NoAddAfter
<1>6. ASSUME Asked({"addContact"}) = {},
             NEW c \in Told({"contacts"}), \A d \in Told({"contacts"}) : d <= c,
             friends[session] \subseteq replies[c].arg
      PROVE  ListsDue'
  <2>1. friends'[session'] \subseteq replies'[c].arg
    BY <1>2, <1>4, <1>6
  <2>2. QED
    BY <1>2, <1>4, <1>6, <2>1 DEF ListsDue
<1>7. ASSUME Asked({"addContact"}) = {}, Told({"contacts"}) = {},
             \A i \in 1 .. Depth : Listing(i) =>
                 friends[session] \subseteq Known(screens[i]) \union Unlisted
      PROVE  ListsDue'
  <2>1. \A u \in Unlisted : u \in Unlisted' \/ (requests[1].op = "deleteContact" /\ u = requests[1].arg)
    <3> SUFFICES ASSUME NEW k \in Asked({"deleteContact"})
                 PROVE  \/ requests[k].arg \in Unlisted'
                        \/ requests[1].op = "deleteContact" /\ requests[k].arg = requests[1].arg
      BY DEF Unlisted
    <3>1. CASE k = 1
      BY <3>1 DEF Asked
    <3>2. CASE k # 1
      <4>1. k \in Nat \ {0} /\ k - 1 \in Asked({"deleteContact"})'
        BY <1>3, <3>2
      <4>2. requests'[k - 1] = requests[k]
        <5>1. k - 1 \in DOMAIN requests' /\ (k - 1) + 1 = k
          BY <1>1, <4>1
        <5>2. QED
          BY <1>1, <5>1
      <4> DEFINE h == k - 1
      <4> HIDE DEF h
      <4>3. h \in Asked({"deleteContact"})' /\ requests'[h] = requests[k]
        BY <4>1, <4>2 DEF h
      <4>4. requests'[h].arg \in Unlisted'
        BY <4>3 DEF Unlisted
      <4>5. QED
        BY <4>3, <4>4
    <3>3. QED
      BY <3>1, <3>2
  <2>2. friends'[session] \subseteq friends[session]
    BY <1>4, <1>7
  <2>3. ASSUME NEW i \in 1 .. Depth, screens[i].kind = "contacts"
        PROVE  friends'[session'] \subseteq Known(screens'[i]) \union Unlisted'
    <3>1. friends[session] \subseteq Known(screens[i]) \union Unlisted
      BY <1>7, <2>3 DEF Listing
    <3>2. QED
      BY <2>1, <2>2, <3>1
  <2>4. Depth' = Depth
    BY DEF Depth
  <2>5. QED
    BY <1>2, <1>4, <1>7, <2>3, <2>4 DEF ListsDue, Listing
<1>8. QED
  BY <1>5, <1>6, <1>7 DEF ListsDue

\* At most one answer is given.
OneAnswer == UNCHANGED replies \/ \E a \in ReplyMsg : Answer(a)

LEMMA TypedHandled ==
    ASSUME Typed, UNCHANGED <<app, link>>, OneAnswer,
           NEW n \in 1 .. Len(requests), requests' = SubSeq(requests, n + 1, Len(requests)),
           session' \in Maybe, accounts' \subseteq People, friends' \in [People -> SUBSET People],
           faults' \subseteq faults \union {"dropped", "ignored"}
    PROVE  Typed'
<1>1. /\ link = "up" /\ n \in Nat \ {0} /\ Len(requests) \in Nat
      /\ requests' \in Seq(RequestMsg) /\ Len(requests') = Len(requests) - n
      /\ \A i \in DOMAIN requests' : requests'[i].op = "register" => requests'[i].arg \in People
  <2>1. Len(requests) \in Nat
    BY DEF Typed, QueuesOK
  <2>2. QED
    BY <2>1, Taken
<1>2. /\ replies' \in Seq(ReplyMsg) /\ Len(replies) \in Nat
      /\ Len(replies') = Len(replies) \/ Len(replies') = Len(replies) + 1
  BY Answered DEF OneAnswer, Typed, QueuesOK
<1>3. Len(requests') + Len(replies') <= MaxInFlight
  BY <1>1, <1>2, ClientAssumption DEF Typed, QueuesOK
<1>4. QueuesOK'
  BY <1>1, <1>2, <1>3 DEF QueuesOK
<1>5. ServerOK'
  BY <1>1 DEF Typed, ServerOK, app
<1>6. StackOK'
  BY Unchanged DEF Typed, app
<1>7. QED
  BY <1>4, <1>5, <1>6 DEF Typed

LEMMA ButtonHandled ==
    ASSUME Typed, ButtonAwaitsAnswer, UNCHANGED app, OneAnswer,
           NEW n \in 1 .. Len(requests), requests' = SubSeq(requests, n + 1, Len(requests)),
           faults \subseteq faults', n # 1 => faults' # {},
           n = 1 /\ requests[1].op = "register" =>
               faults' # {} \/ \E a \in ReplyMsg : a.op \in {"created", "exists"} /\ Answer(a)
    PROVE  ButtonAwaitsAnswer'
<1>1. ASSUME NEW j \in 1 .. Len(replies), replies[j].op \in {"created", "exists"}
      PROVE  Answering'
  <2>1. j \in 1 .. Len(replies') /\ replies'[j] = replies[j]
    <3>1. CASE UNCHANGED replies
      BY <3>1
    <3>2. CASE \E a \in ReplyMsg : Answer(a)
      <4>1. /\ Len(replies) \in Nat /\ Len(replies') = Len(replies) + 1
            /\ \A i \in 1 .. Len(replies) : replies'[i] = replies[i]
        BY <3>2, Answered DEF Typed
      <4>2. QED
        BY <4>1
    <3>3. QED
      BY <3>1, <3>2 DEF OneAnswer
  <2>2. QED
    BY <1>1, <2>1 DEF Answering
<1>2. ASSUME NEW j \in 1 .. Len(requests), requests[j].op = "register", n = 1, j # 1
      PROVE  Answering'
  <2> DEFINE h == j - 1
  <2>1. j \in Asked({"register"}) /\ h + 1 = j /\ h \in Nat \ {0}
    BY <1>2 DEF Asked, Typed, QueuesOK
  <2> HIDE DEF h
  <2>2. h \in Asked({"register"})'
    <3>1. h + n \in Asked({"register"})
      BY <1>2, <2>1
    <3>2. QED
      BY <2>1, <3>1, Taken
  <2>3. PICK i \in DOMAIN requests' : requests'[i].op = "register"
    BY <2>2 DEF Asked
  <2>4. requests' \in Seq(RequestMsg)
    BY Taken
  <2>5. i \in 1 .. Len(requests')
    BY <2>3, <2>4
  <2>6. QED
    BY <2>3, <2>5 DEF Answering
<1>3. ASSUME NEW a \in ReplyMsg, a.op \in {"created", "exists"}, Answer(a)
      PROVE  Answering'
  <2>1. /\ Len(replies) \in Nat /\ Len(replies') = Len(replies) + 1
        /\ replies'[Len(replies) + 1] = a
    BY <1>3, Answered DEF Typed
  <2>2. Len(replies) + 1 \in 1 .. Len(replies')
    BY <2>1
  <2>3. QED
    BY <1>3, <2>1, <2>2 DEF Answering
<1>4. faults' # {} => Answering'
  BY DEF Answering
<1>5. faults # {} => faults' # {}
  OBVIOUS
<1>6. Answering => Answering'
  BY <1>1, <1>2, <1>3, <1>4, <1>5 DEF Answering
<1>7. Depth' = Depth /\ screens' = screens
  BY DEF app, Depth
<1>8. QED
  BY <1>6, <1>7, ButtonKept

LEMMA ListsHandled ==
    ASSUME Typed, Lists, UNCHANGED app, session' = session,
           NEW n \in 1 .. Len(requests), requests' = SubSeq(requests, n + 1, Len(requests)),
           faults \subseteq faults',
           n # 1 \/ (requests[1].op = "grab" /\ session # None) => "dropped" \in faults',
           requests[1].op # "addContact" => friends'[session] \subseteq friends[session],
           requests[1].op = "deleteContact" /\ session # None /\ "dropped" \notin faults' =>
               requests[1].arg \notin friends'[session],
           UNCHANGED replies \/ (\E a \in ReplyMsg : a.op # "contacts" /\ Answer(a))
    PROVE  Lists'
<1> SUFFICES ASSUME session # None, "dropped" \notin faults',
                    NEW i0 \in 1 .. Depth, Listing(i0)
             PROVE  ListsDue'
  BY DEF Lists, Listing, app, Depth
<1>1. "dropped" \notin faults'
  OBVIOUS
<1>2. n = 1 /\ requests[1].op # "grab"
  BY <1>1
<1>3. "dropped" \notin faults
  OBVIOUS
<1>4. ListsDue
  BY <1>3 DEF Lists
<1>5. requests[1].op = "deleteContact" => requests[1].arg \notin friends'[session]
  BY <1>1
<1>6. 1 \in 1 .. Len(requests) /\ requests' = SubSeq(requests, 1 + 1, Len(requests)) /\ UNCHANGED screens
  BY <1>2 DEF app
<1>7. QED
  BY <1>2, <1>4, <1>5, <1>6, ListsDueKept

\* The list that is sent has all that the session's user has.
LEMMA ListsSent ==
    ASSUME Typed, Lists, UNCHANGED <<app, server>>, session # None,
           NEW n \in 1 .. Len(requests), requests' = SubSeq(requests, n + 1, Len(requests)),
           faults \subseteq faults', n # 1 => "dropped" \in faults',
           requests[1].op = "grab",
           NEW a \in ReplyMsg, a.op = "contacts", a.arg = friends[session], Answer(a)
    PROVE  Lists'
<1> SUFFICES ASSUME "dropped" \notin faults',
                    NEW i0 \in 1 .. Depth, Listing(i0)
             PROVE  ListsDue'
  BY DEF Lists, Listing, app, Depth
<1>1. "dropped" \notin faults'
  OBVIOUS
<1>2. n = 1
  BY <1>1
<1>3. "dropped" \notin faults
  OBVIOUS
<1>4. ListsDue
  BY <1>3 DEF Lists
<1>5. \A ops, i : i \in Asked(ops)' <=> i \in Nat \ {0} /\ i + 1 \in Asked(ops)
  BY <1>2, Taken
<1>6. CASE Asked({"addContact"})' = {}
  <2> DEFINE m == Len(replies)
  <2>1. /\ m \in Nat /\ replies'[m + 1] = a
        /\ \A i : i \in Told({"contacts"})' <=>
              i \in Told({"contacts"}) \/ (i = m + 1 /\ a.op \in {"contacts"})
        /\ \A i \in Told({"contacts"}) : i \in 1 .. m /\ i < m + 1
    BY Answered DEF Typed
  <2> HIDE DEF m
  <2>2. m + 1 \in Told({"contacts"})' /\ \A d \in Told({"contacts"})' : d <= m + 1
    BY <2>1
  <2>3. friends'[session'] \subseteq replies'[m + 1].arg
    BY <2>1 DEF server
  <2> DEFINE h == m + 1
  <2> HIDE DEF h
  <2>4. /\ h \in Told({"contacts"})' /\ \A d \in Told({"contacts"})' : d <= h
        /\ friends'[session'] \subseteq replies'[h].arg
    BY <2>2, <2>3 DEF h
  <2>5. QED
    BY <1>6, <2>4 DEF ListsDue
<1>7. CASE Asked({"addContact"})' # {}
  <2>1. PICK k \in Asked({"addContact"})' : TRUE
    BY <1>7
  <2>2. k \in Nat \ {0} /\ k + 1 \in Asked({"addContact"})
    BY <1>5, <2>1
  <2>3. PICK g \in Asked({"grab"}) : NoAddAfter(g)
    BY <1>4, <2>2 DEF ListsDue
  <2>4. g \in Nat /\ g > 1
    <3>1. g \in Nat
      BY DEF Asked, Typed, QueuesOK
    <3>2. k + 1 < g
      BY <2>2, <2>3 DEF NoAddAfter
    <3>3. QED
      BY <2>2, <3>1, <3>2
  <2> DEFINE h == g - 1
  <2>5. h \in Nat \ {0} /\ h + 1 = g
    BY <2>4
  <2> HIDE DEF h
  <2>6. h \in Asked({"grab"})'
    BY <1>5, <2>5
  <2>7. ASSUME NEW j \in Asked({"addContact"})'
        PROVE  j < h
    <3>1. j \in Nat \ {0} /\ j + 1 \in Asked({"addContact"})
      BY <1>5
    <3>2. j + 1 < g
      BY <2>3, <3>1 DEF NoAddAfter
    <3>3. QED
      BY <2>5, <3>1, <3>2
  <2>8. QED
    BY <2>6, <2>7 DEF ListsDue, NoAddAfter
<1>8. QED
  BY <1>6, <1>7

\* A request after which the session goes on, and the app is sent neither a login, a list
\* nor a message.
LEMMA GoesOn ==
    ASSUME AppInv, UNCHANGED <<app, link>>, session' = session,
           NEW n \in 1 .. Len(requests), requests' = SubSeq(requests, n + 1, Len(requests)),
           UNCHANGED replies
           \/ (\E a \in ReplyMsg : a.op \in {"loginFailure", "created", "exists"} /\ Answer(a)),
           accounts' \subseteq People, friends' \in [People -> SUBSET People],
           faults \subseteq faults', faults' \subseteq faults \union {"dropped", "ignored"},
           n # 1 \/ (requests[1].op = "grab" /\ session # None) => "dropped" \in faults',
           requests[1].op = "register" =>
               faults' # {} \/ \E a \in ReplyMsg : a.op \in {"created", "exists"} /\ Answer(a),
           requests[1].op # "addContact" => friends'[session] \subseteq friends[session],
           requests[1].op = "deleteContact" /\ session # None /\ "dropped" \notin faults' =>
               requests[1].arg \notin friends'[session]
    PROVE  AppInv'
<1>1. Typed /\ Names /\ ButtonAwaitsAnswer /\ Lists /\ UNCHANGED app
  BY DEF AppInv
<1>2. OneAnswer
  BY DEF OneAnswer
<1>3. session' \in Maybe
  BY <1>1 DEF Typed, ServerOK
<1>4. Typed'
  BY <1>1, <1>2, <1>3, TypedHandled
<1>5. n # 1 => faults' # {}
  <2>1. n # 1 => "dropped" \in faults'
    OBVIOUS
  <2>2. QED
    BY <2>1
<1>6. ButtonAwaitsAnswer'
  BY <1>1, <1>2, <1>5, ButtonHandled
<1>7. UNCHANGED replies \/ (\E a \in ReplyMsg : a.op # "contacts" /\ Answer(a))
  OBVIOUS
<1>8. Lists'
  BY <1>1, <1>7, ListsHandled
<1>9. /\ \A i : i \in Unread' <=> i \in Unread
      /\ \A i \in Unread : replies'[i] = replies[i]
      /\ \A j \in Notes' : j \in Notes /\ replies'[j] = replies[j]
  <2>1. CASE UNCHANGED replies
    BY <2>1 DEF Unread, Notes, Told
  <2>2. ASSUME NEW a \in ReplyMsg, a.op \in {"loginFailure", "created", "exists"}, Answer(a)
        PROVE  /\ \A i : i \in Unread' <=> i \in Unread
               /\ \A i \in Unread : replies'[i] = replies[i]
               /\ \A j \in Notes' : j \in Notes /\ replies'[j] = replies[j]
    <3>1. /\ \A ops, i : i \in Told(ops)' <=>
                i \in Told(ops) \/ (i = Len(replies) + 1 /\ a.op \in ops)
          /\ \A ops, i : i \in Told(ops) => replies'[i] = replies[i]
      BY <1>1, <2>2, Answered DEF Typed
    <3>2. a.op \notin {"loggedIn"} /\ a.op \notin {"contacts", "message"}
      BY <2>2
    <3>3. QED
      BY <3>1, <3>2 DEF Unread, Notes
  <2>3. QED
    BY <2>1, <2>2
<1>10. /\ n \in Nat
       /\ \A ops : \A i \in Asked(ops)' : i \in Nat /\ i + n \in Asked(ops)
                                          /\ requests'[i] = requests[i + n]
       /\ \A ops : \A i \in Asked(ops) : i \in Nat
  <2>1. /\ n \in Nat
        /\ \A ops : \A i \in Asked(ops)' : i \in Nat /\ i + n \in Asked(ops)
    BY <1>1, Taken
  <2>2. \A ops : \A i \in Asked(ops)' : requests'[i] = requests[i + n]
    <3>1. \A ops : \A i \in Asked(ops)' : i \in DOMAIN requests'
      BY DEF Asked
    <3>2. QED
      BY <1>1, <3>1, Taken
  <2>3. \A ops : \A i \in Asked(ops) : i \in Nat
    BY <1>1 DEF Asked, Typed, QueuesOK
  <2>4. QED
    BY <2>1, <2>2, <2>3
<1>11. Names'
  <2>1. Unread' = Unread
    BY <1>9
  <2>2. QED
    BY <1>1, <1>9, <1>10, <2>1, NamesHandled
<1>12. QED
  BY <1>4, <1>6, <1>8, <1>11 DEF AppInv

LEMMA HandleKeeps ==
    ASSUME AppInv, Handle
    PROVE  AppInv'
<1>1. PICK n \in 1 .. Len(requests) :
          LET r == Head(requests)
              lost == IF n = 1 THEN faults ELSE faults \union {"dropped"}
          IN /\ requests' = SubSeq(requests, n + 1, Len(requests))
             /\ \/ HandleLogin(r, lost)
                \/ HandleRegister(r, lost)
                \/ HandleLogout(r, lost)
                \/ HandleSession(r, lost)
                \/ HandleFails(r, lost)
             /\ UNCHANGED <<app, link>>
  BY DEF Handle
<1> DEFINE r == requests[1]
           lost == IF n = 1 THEN faults ELSE faults \union {"dropped"}
<1>2. /\ Typed /\ Names /\ ButtonAwaitsAnswer /\ Lists /\ UNCHANGED app
      /\ requests' = SubSeq(requests, n + 1, Len(requests))
      /\ UNCHANGED <<app, link>>
  BY <1>1 DEF AppInv
<1>3. r \in RequestMsg /\ Head(requests) = r /\ 1 \in DOMAIN requests
  BY <1>2, Taken
<1>4. /\ session \in Maybe /\ accounts \subseteq People /\ friends \in [People -> SUBSET People]
      /\ r.arg \in Maybe /\ r.op \in SessionOps \union {"login", "register"}
      /\ r.op = "register" => r.arg \in People
      /\ \A u \in People : u \in Maybe
      /\ None \in Maybe
  BY <1>2, <1>3 DEF Typed, ServerOK, QueuesOK, RequestMsg, Maybe
<1>5. /\ faults \subseteq lost /\ lost \subseteq faults \union {"dropped"}
      /\ n # 1 => "dropped" \in lost
      /\ n # 1 => lost # {}
  OBVIOUS
<1>6. \/ HandleLogin(r, lost) \/ HandleRegister(r, lost) \/ HandleLogout(r, lost)
      \/ HandleSession(r, lost) \/ HandleFails(r, lost)
  BY <1>1, <1>3
<1> HIDE DEF r, lost
<1>7. r = requests[1]
  BY DEF r
<1>8. ASSUME HandleLogin(r, lost)
      PROVE  AppInv'
  <2>1. r.op = "login"
    BY <1>8 DEF HandleLogin
  <2>2. CASE ~MayLogIn
    <3>1. faults' = lost \union {"ignored"} /\ UNCHANGED <<replies, server>>
      BY <1>8, <2>2 DEF HandleLogin
    <3>2. QED
      BY <1>2, <1>4, <1>5, <1>7, <2>1, <3>1, GoesOn DEF server
  <2>3. CASE MayLogIn /\ r.arg \notin accounts
    <3> DEFINE a == [op |-> "loginFailure", arg |-> None, to |-> session]
    <3>1. Answer(a) /\ UNCHANGED <<session, accounts, friends>> /\ faults' = lost
      BY <1>8, <2>3 DEF HandleLogin, Reply
    <3>2. a \in ReplyMsg /\ a.op = "loginFailure"
      BY <1>4 DEF ReplyMsg
    <3> HIDE DEF a
    <3>3. \E b \in ReplyMsg : b.op \in {"loginFailure", "created", "exists"} /\ Answer(b)
      BY <3>1, <3>2
    <3>4. QED
      BY <1>2, <1>4, <1>5, <1>7, <2>1, <3>1, <3>3, GoesOn
  <2>4. CASE MayLogIn /\ r.arg \in accounts
    <3> DEFINE u == r.arg
               a == [op |-> "loggedIn", arg |-> u, to |-> None]
    <3>1. session = None /\ u \in People
      BY <1>4, <2>4 DEF MayLogIn
    <3>2. /\ session' = u /\ Answer(a) /\ faults' = lost /\ UNCHANGED <<accounts, friends>>
      BY <1>8, <2>4, <3>1 DEF HandleLogin, Reply
    <3>3. Names' /\ ~Inside
      BY <1>2, <1>7, <2>1, <3>1, <3>2, NamesBegun
    <3>4. a \in ReplyMsg /\ a.op = "loggedIn"
      BY <1>4, <3>1 DEF ReplyMsg
    <3> HIDE DEF a, u
    <3>5. OneAnswer
      BY <3>2, <3>4 DEF OneAnswer
    <3>6. Typed'
      BY <1>2, <1>4, <1>5, <3>1, <3>2, <3>5, TypedHandled
    <3>7. ButtonAwaitsAnswer'
      BY <1>2, <1>5, <1>7, <2>1, <3>2, <3>5, ButtonHandled
    <3>8. Lists'
      <4>1. \A i \in 1 .. Depth : ~Listing(i)
        BY <1>2, <3>3, NoListOutside DEF Typed
      <4>2. QED
        BY <1>2, <4>1 DEF Lists, Listing, app, Depth
    <3>9. QED
      BY <3>3, <3>6, <3>7, <3>8 DEF AppInv
  <2>5. QED
    BY <2>2, <2>3, <2>4
<1>9. ASSUME HandleRegister(r, lost)
      PROVE  AppInv'
  <2>1. r.op = "register" /\ r.arg \in People
    BY <1>4, <1>9 DEF HandleRegister
  <2>2. CASE session # None
    <3>1. faults' = lost \union {"ignored"} /\ UNCHANGED <<replies, server>>
      BY <1>9, <2>2 DEF HandleRegister
    <3>2. faults' # {}
      BY <3>1
    <3>3. QED
      BY <1>2, <1>4, <1>5, <1>7, <2>1, <3>1, <3>2, GoesOn DEF server
  <2>3. CASE session = None
    <3> DEFINE a == [op |-> IF r.arg \in accounts THEN "exists" ELSE "created",
                     arg |-> None, to |-> session]
    <3>1. /\ Answer(a) /\ UNCHANGED <<session, friends>> /\ faults' = lost
          /\ accounts' = accounts \union {r.arg}
      BY <1>9, <2>3 DEF HandleRegister, Reply
    <3>2. a \in ReplyMsg /\ a.op \in {"created", "exists"}
      BY <1>4 DEF ReplyMsg
    <3> HIDE DEF a
    <3>3. /\ \E b \in ReplyMsg : b.op \in {"loginFailure", "created", "exists"} /\ Answer(b)
          /\ \E b \in ReplyMsg : b.op \in {"created", "exists"} /\ Answer(b)
      BY <3>1, <3>2
    <3>4. accounts' \subseteq People
      BY <1>4, <2>1, <3>1
    <3>5. QED
      BY <1>2, <1>4, <1>5, <1>7, <2>1, <3>1, <3>3, <3>4, GoesOn
  <2>4. QED
    BY <2>2, <2>3
<1>10. ASSUME r.op \in Enders, session' = None, faults' = lost, UNCHANGED replies,
              accounts' \subseteq People, friends' \in [People -> SUBSET People]
       PROVE  AppInv'
  <2>1. Names'
    BY <1>2, <1>7, <1>10, NamesEnded
  <2>2. OneAnswer
    BY <1>10 DEF OneAnswer
  <2>3. Typed'
    BY <1>2, <1>4, <1>5, <1>10, <2>2, TypedHandled
  <2>4. r.op # "register"
    BY <1>10 DEF Enders
  <2>5. ButtonAwaitsAnswer'
    BY <1>2, <1>5, <1>7, <1>10, <2>2, <2>4, ButtonHandled
  <2>6. Lists'
    BY <1>10 DEF Lists
  <2>7. QED
    BY <2>1, <2>3, <2>5, <2>6 DEF AppInv
<1>11. ASSUME HandleLogout(r, lost)
       PROVE  AppInv'
  BY <1>4, <1>10, <1>11 DEF HandleLogout, Enders
<1>12. ASSUME HandleSession(r, lost)
       PROVE  AppInv'
  <2>1. faults' = lost /\ r.op \in {"grab", "deleteAccount", "addContact", "deleteContact", "chat"}
    BY <1>12 DEF HandleSession
  <2>2. CASE session = None /\ UNCHANGED <<replies, server>>
    BY <1>2, <1>4, <1>5, <1>7, <2>1, <2>2, GoesOn DEF server
  <2>3. CASE session # None /\ r.op = "chat" /\ UNCHANGED <<replies, server>>
    BY <1>2, <1>4, <1>5, <1>7, <2>1, <2>3, GoesOn DEF server
  <2>4. CASE /\ session # None /\ r.op = "grab"
             /\ Answer(Reply("contacts", friends[session])) /\ UNCHANGED server
    <3> DEFINE a == [op |-> "contacts", arg |-> friends[session], to |-> session]
    <3>1. Answer(a) /\ a.op = "contacts" /\ a.arg = friends[session] /\ a.to = session
      BY <2>4 DEF Reply
    <3>2. a \in ReplyMsg
      <4>1. session \in People
        BY <1>4, <2>4 DEF Maybe
      <4>2. friends[session] \in SUBSET People
        BY <1>4, <4>1
      <4>3. QED
        BY <1>4, <4>2 DEF ReplyMsg
    <3> HIDE DEF a
    <3>3. OneAnswer
      BY <3>1, <3>2 DEF OneAnswer
    <3>4. Typed'
      BY <1>2, <1>4, <1>5, <2>1, <2>4, <3>3, TypedHandled DEF server
    <3>5. ButtonAwaitsAnswer'
      BY <1>2, <1>5, <1>7, <2>1, <2>4, <3>3, ButtonHandled
    <3>6. Lists'
      <4>1. UNCHANGED <<app, server>>
        BY <1>2, <2>4
      <4>2. QED
        BY <1>2, <1>5, <1>7, <2>1, <2>4, <3>1, <3>2, <4>1, ListsSent
    <3>7. Names'
      <4>1. 1 \in Asked(SessionOps)
        BY <1>3, <1>7, <2>4 DEF Asked, SessionOps
      <4>2. Unread = {}
        BY <1>2, <4>1 DEF Names, LoginUnread
      <4>3. /\ \A i : i \in Unread' <=> i \in Unread
            /\ \A j \in Notes' : \/ j \in Notes /\ replies'[j] = replies[j]
                                 \/ session # None /\ replies'[j].to = session
        <5>1. /\ \A ops, i : i \in Told(ops)' <=>
                    i \in Told(ops) \/ (i = Len(replies) + 1 /\ a.op \in ops)
              /\ \A ops, i : i \in Told(ops) => replies'[i] = replies[i]
              /\ replies'[Len(replies) + 1] = a
          BY <1>2, <3>1, <3>2, Answered DEF Typed
        <5>2. a.op \notin {"loggedIn"}
          BY <3>1
        <5>3. QED
          BY <2>4, <3>1, <5>1, <5>2 DEF Unread, Notes
      <4>4. /\ n \in Nat
            /\ \A ops : \A i \in Asked(ops)' : i \in Nat /\ i + n \in Asked(ops)
        BY <1>2, Taken
      <4>5. \A ops : \A i \in Asked(ops)' : requests'[i] = requests[i + n]
        <5>1. \A ops : \A i \in Asked(ops)' : i \in DOMAIN requests'
          BY DEF Asked
        <5>2. QED
          BY <1>2, <5>1, Taken
      <4>6. \A ops : \A i \in Asked(ops) : i \in Nat
        BY <1>2 DEF Asked, Typed, QueuesOK
      <4>7. Unread' = Unread /\ session' = session
        BY <2>4, <4>3 DEF server
      <4>8. QED
        BY <1>2, <4>2, <4>3, <4>4, <4>5, <4>6, <4>7, NamesHandled
    <3>8. QED
      BY <3>4, <3>5, <3>6, <3>7 DEF AppInv
  <2>5. CASE /\ session # None /\ r.op = "addContact"
             /\ friends' = IF r.arg \in accounts
                           THEN [friends EXCEPT ![session] = @ \union {r.arg}] ELSE friends
             /\ UNCHANGED <<replies, session, accounts>>
    <3>1. friends' \in [People -> SUBSET People]
      BY <1>4, <2>5
    <3>2. QED
      BY <1>2, <1>4, <1>5, <1>7, <2>1, <2>5, <3>1, GoesOn
  <2>6. CASE /\ session # None /\ r.op = "deleteContact"
             /\ friends' = [friends EXCEPT ![session] = @ \ {r.arg}]
             /\ UNCHANGED <<replies, session, accounts>>
    <3>1. session \in People
      BY <1>4, <2>6 DEF Maybe
    <3>2. friends' \in [People -> SUBSET People] /\ friends'[session] = friends[session] \ {r.arg}
      BY <1>4, <2>6, <3>1
    <3>3. QED
      BY <1>2, <1>4, <1>5, <1>7, <2>1, <2>6, <3>2, GoesOn
  <2>7. CASE /\ session # None /\ r.op = "deleteAccount"
             /\ accounts' = accounts \ {session}
             /\ friends' = [u \in People |-> IF u = session THEN {} ELSE friends[u] \ {session}]
             /\ session' = None
             /\ UNCHANGED replies
    <3>1. accounts' \subseteq People /\ friends' \in [People -> SUBSET People]
      BY <1>4, <2>7
    <3>2. r.op \in Enders
      BY <2>7 DEF Enders
    <3>3. QED
      BY <1>10, <2>1, <2>7, <3>1, <3>2
  <2>8. QED
    BY <1>12, <2>2, <2>3, <2>4, <2>5, <2>6, <2>7 DEF HandleSession
<1>13. ASSUME HandleFails(r, lost)
       PROVE  AppInv'
  <2>1. faults' = lost \union {"dropped"} /\ UNCHANGED <<replies, server>>
    BY <1>13 DEF HandleFails
  <2>2. "dropped" \in faults' /\ faults' # {}
    BY <2>1
  <2>3. QED
    BY <1>2, <1>4, <1>5, <1>7, <2>1, <2>2, GoesOn DEF server
<1>14. QED
  BY <1>6, <1>8, <1>9, <1>11, <1>12, <1>13
-----------------------------------------------------------------------------
(* The app reads a reply.                                                   *)

LEMMA ReadShape ==
    ASSUME Typed, replies # <<>>, replies' = Tail(replies)
    PROVE  /\ Head(replies) = replies[1] /\ replies[1] \in ReplyMsg /\ 1 \in DOMAIN replies
           /\ replies' \in Seq(ReplyMsg) /\ Len(replies') = Len(replies) - 1 /\ Len(replies) \in Nat
           /\ \A ops, i : i \in Told(ops)' <=> i \in Nat \ {0} /\ i + 1 \in Told(ops)
           /\ \A i \in DOMAIN replies' : replies'[i] = replies[i + 1]
           /\ \A ops : \A i \in Told(ops) : i \in Nat \ {0}
           /\ \A ops : \A i \in Told(ops)' : i \in DOMAIN replies'
<1>1. /\ replies \in Seq(ReplyMsg) /\ Len(replies) \in Nat \ {0}
      /\ Head(replies) = replies[1] /\ replies[1] \in ReplyMsg /\ 1 \in DOMAIN replies
  BY DEF Typed, QueuesOK
<1>2. /\ replies' \in Seq(ReplyMsg) /\ Len(replies') = Len(replies) - 1
      /\ \A i \in 1 .. Len(replies') : replies'[i] = replies[i + 1]
  BY <1>1
<1>3. /\ \A i \in DOMAIN replies' : i \in Nat \ {0} /\ i + 1 \in DOMAIN replies
                                    /\ replies'[i] = replies[i + 1]
      /\ \A i \in Nat \ {0} : i + 1 \in DOMAIN replies => i \in DOMAIN replies'
  BY <1>1, <1>2
<1>4. \A ops, i : i \in Told(ops)' <=> i \in Nat \ {0} /\ i + 1 \in Told(ops)
  BY <1>3 DEF Told
<1>5. /\ \A ops : \A i \in Told(ops) : i \in Nat \ {0}
      /\ \A ops : \A i \in Told(ops)' : i \in DOMAIN replies'
  BY <1>1 DEF Told
<1>6. QED
  BY <1>1, <1>2, <1>3, <1>4, <1>5

\* Screens of the same kinds, redrawn by an observer each.
LEMMA Repainted ==
    ASSUME StackOK, NEW f \in [1 .. Depth -> Screen], screens' = f,
           \A i \in 1 .. Depth : /\ f[i].kind = screens[i].kind
                                 /\ f[i].button \in {"on", screens[i].button}
                                 /\ f[i].alert \in {"none", screens[i].alert}
                                    \/ f[i].kind \in {"login", "register"}
    PROVE  /\ StackOK' /\ (Inside' => Inside) /\ Depth' = Depth
           /\ (\A i \in 1 .. Depth : Known(f[i]) = Known(screens[i])) => Lesser
<1>1. Depth \in Nat \ {0} /\ Depth \in 1 .. Depth
  BY StackFacts
<1>2. screens' \in Seq(Screen) /\ Depth' = Depth
  <2>1. f \in Seq(Screen) /\ Len(f) = Depth
    BY <1>1
  <2>2. QED
    BY <2>1 DEF Depth
<1>3. \A i \in 1 .. Depth :
         /\ screens'[i].kind = screens[i].kind
         /\ screens'[i].button = "off" => screens[i].kind = "register" /\ screens[i].button = "off"
         /\ screens'[i].alert # "none" => screens[i].kind \in {"login", "register"}
  BY DEF StackOK
<1>4. StackOK' /\ (Inside' => Inside)
  BY <1>1, <1>2, <1>3, Redrawn
<1>5. (\A i \in 1 .. Depth : Known(f[i]) = Known(screens[i])) => Lesser
  BY <1>2, <1>3, <1>4 DEF Lesser
<1>6. QED
  BY <1>2, <1>4, <1>5

LEMMA NamesRead ==
    ASSUME Typed, Names, replies # <<>>, replies' = Tail(replies), replies[1].op # "loggedIn",
           UNCHANGED <<me, requests, server>>, Inside' => Inside
    PROVE  Names'
<1>1. /\ \A i : i \in Unread' <=> i \in Nat \ {0} /\ i + 1 \in Unread
      /\ \A i \in Unread' : replies'[i] = replies[i + 1]
      /\ \A i \in Unread : i \in Nat \ {0, 1}
      /\ \A j \in Notes' : j \in Nat \ {0} /\ j + 1 \in Notes /\ replies'[j] = replies[j + 1]
  <2>1. /\ \A i : i \in Unread' <=> i \in Nat \ {0} /\ i + 1 \in Unread
        /\ \A i \in Unread' : replies'[i] = replies[i + 1]
        /\ \A i \in Unread : i \in Nat \ {0}
        /\ \A j \in Notes' : j \in Nat \ {0} /\ j + 1 \in Notes /\ replies'[j] = replies[j + 1]
    BY ReadShape DEF Unread, Notes
  <2>2. 1 \notin Unread
    BY DEF Unread, Told
  <2>3. QED
    BY <2>1, <2>2
<1>2. \A i \in Unread : i - 1 \in Unread' /\ (i - 1) + 1 = i
  BY <1>1
<1>3. Asked(SessionOps)' = Asked(SessionOps) /\ Asked(Enders)' = Asked(Enders)
      /\ Asked({"login"})' = Asked({"login"})
  BY DEF Asked
<1>4. LoginUnread'
  <2>1. \A i, j \in Unread' : i = j
    <3> SUFFICES ASSUME NEW i \in Unread', NEW j \in Unread'
                 PROVE  i = j
      OBVIOUS
    <3>1. i \in Nat /\ j \in Nat /\ i + 1 \in Unread /\ j + 1 \in Unread
      BY <1>1
    <3>2. i + 1 = j + 1
      BY <3>1 DEF Names, LoginUnread
    <3>3. QED
      BY <3>1, <3>2
  <2>2. Unread' # {} => ~Inside' /\ Asked(SessionOps)' = {}
    BY <1>1, <1>3 DEF Names, LoginUnread
  <2>3. \A i \in Unread' : session' = replies'[i].arg
    BY <1>1 DEF Names, LoginUnread, server
  <2>4. QED
    BY <2>1, <2>2, <2>3 DEF LoginUnread
<1>5. NotesOwned'
  <2> SUFFICES ASSUME NEW j \in Notes'
               PROVE  replies'[j].to = IF \E i \in Unread' : i < j THEN session ELSE me
    BY DEF NotesOwned, server
  <2>1. j \in Nat \ {0} /\ j + 1 \in Notes /\ replies'[j] = replies[j + 1]
    BY <1>1
  <2>2. replies[j + 1].to = IF \E i \in Unread : i < j + 1 THEN session ELSE me
    BY <2>1 DEF Names, NotesOwned
  <2>3. (\E i \in Unread : i < j + 1) <=> \E i \in Unread' : i < j
    <3>1. ASSUME NEW i \in Unread, i < j + 1
          PROVE  i - 1 \in Unread' /\ i - 1 < j
      BY <1>1, <1>2, <2>1, <3>1
    <3>2. ASSUME NEW i \in Unread', i < j
          PROVE  i + 1 \in Unread /\ i + 1 < j + 1
      BY <1>1, <2>1, <3>2
    <3>3. QED
      BY <3>1, <3>2
  <2>4. QED
    BY <2>1, <2>2, <2>3
<1>6. SessionOwned' /\ AskedByOwner'
  BY <1>2, <1>3 DEF Names, SessionOwned, AskedByOwner, server
<1>7. StaleLogins'
  BY <1>3 DEF Names, StaleLogins, Harmless, server
<1>8. QED
  BY <1>4, <1>5, <1>6, <1>7 DEF Names

\* A login is read: the app is now its user's.
LEMMA NamesLoggedIn ==
    ASSUME Typed, Names, replies # <<>>, replies' = Tail(replies), replies[1].op = "loggedIn",
           UNCHANGED <<requests, server>>, me' = replies[1].arg
    PROVE  Names' /\ session \in People /\ ~Inside
<1>1. 1 \in Unread
  BY ReadShape DEF Unread, Told
<1>2. /\ session = replies[1].arg /\ ~Inside /\ Asked(SessionOps) = {}
      /\ \A i \in Unread : i = 1
  BY <1>1 DEF Names, LoginUnread
<1>3. session \in People /\ session # None /\ me' = session
  <2>1. replies[1] \in ReplyMsg
    BY ReadShape
  <2>2. QED
    BY <1>2, <2>1, ClientAssumption DEF ReplyMsg
<1>4. Asked(SessionOps)' = {} /\ Asked(Enders)' = {}
  BY <1>2 DEF Asked, Enders, SessionOps
<1>5. Unread' = {}
  <2>1. ASSUME NEW i \in Unread'
        PROVE  FALSE
    <3>1. i \in Nat \ {0} /\ i + 1 \in Unread
      BY ReadShape DEF Unread
    <3>2. i + 1 = 1
      BY <1>2, <3>1
    <3>3. QED
      BY <3>1, <3>2
  <2>2. QED
    BY <2>1
<1>6. LoginUnread' /\ SessionOwned' /\ AskedByOwner'
  BY <1>3, <1>4, <1>5 DEF LoginUnread, SessionOwned, AskedByOwner, server
<1>7. StaleLogins'
  BY <1>3, <1>4 DEF StaleLogins, Harmless, server
<1>8. NotesOwned'
  <2> SUFFICES ASSUME NEW j \in Notes'
               PROVE  replies'[j].to = me'
    BY <1>5 DEF NotesOwned
  <2>1. j \in Nat \ {0} /\ j + 1 \in Notes /\ replies'[j] = replies[j + 1]
    BY ReadShape DEF Notes
  <2>2. 1 < j + 1
    BY <2>1
  <2>3. replies[j + 1].to = session
    BY <1>1, <2>1, <2>2 DEF Names, NotesOwned
  <2>4. QED
    BY <1>3, <2>1, <2>3
<1>9. QED
  BY <1>2, <1>3, <1>6, <1>7, <1>8 DEF Names

\* Reading a reply keeps the lists due: a list that is read fills every list there is.
LEMMA ListsRead ==
    ASSUME Typed, Lists, replies # <<>>, replies' = Tail(replies), UNCHANGED <<requests, server, faults>>,
           \A i \in 1 .. Depth' : screens'[i].kind = "contacts" =>
               \E j \in 1 .. Depth : screens[j].kind = "contacts"
                   /\ IF replies[1].op = "contacts" /\ replies[1].arg # {}
                      THEN Known(screens'[i]) = replies[1].arg ELSE Known(screens'[i]) = Known(screens[j])
    PROVE  Lists'
<1> SUFFICES ASSUME session # None, "dropped" \notin faults,
                    NEW i0 \in 1 .. Depth', screens'[i0].kind = "contacts"
             PROVE  ListsDue'
  BY DEF Lists, Listing, server
<1>1. ListsDue
  BY DEF Lists, Listing
<1>2. Asked({"grab"})' = Asked({"grab"}) /\ Asked({"addContact"})' = Asked({"addContact"})
      /\ Unlisted' = Unlisted
  BY DEF Asked, Unlisted
<1>3. /\ \A i : i \in Told({"contacts"})' <=> i \in Nat \ {0} /\ i + 1 \in Told({"contacts"})
      /\ \A i \in Told({"contacts"})' : replies'[i] = replies[i + 1]
      /\ \A i \in Told({"contacts"}) : i \in Nat \ {0}
      /\ 1 \in DOMAIN replies
  BY ReadShape
<1>4. ASSUME NEW g \in Asked({"grab"}), NoAddAfter(g)
      PROVE  ListsDue'
  BY <1>2, <1>4 DEF ListsDue, NoAddAfter
<1>5. ASSUME Asked({"addContact"}) = {},
             NEW c \in Told({"contacts"}), \A d \in Told({"contacts"}) : d <= c,
             friends[session] \subseteq replies[c].arg
      PROVE  ListsDue'
  <2>1. CASE c = 1
    <3>1. Told({"contacts"})' = {}
      <4>1. ASSUME NEW i \in Told({"contacts"})'
            PROVE  FALSE
        <5>1. i \in Nat \ {0} /\ i + 1 <= 1
          BY <1>3, <1>5, <2>1
        <5>2. QED
          BY <5>1
      <4>2. QED
        BY <4>1
    <3>2. replies[1].op = "contacts"
      BY <2>1 DEF Told
    <3>3. ASSUME NEW i \in 1 .. Depth', screens'[i].kind = "contacts"
          PROVE  friends'[session'] \subseteq Known(screens'[i]) \union Unlisted'
      <4>1. CASE replies[1].arg # {}
        BY <1>5, <2>1, <3>2, <3>3, <4>1 DEF server
      <4>2. CASE replies[1].arg = {}
        BY <1>5, <2>1, <4>2 DEF server
      <4>3. QED
        BY <4>1, <4>2
    <3>4. QED
      BY <1>2, <1>5, <3>1, <3>3 DEF ListsDue, Listing
  <2>2. CASE c # 1
    <3> DEFINE h == c - 1
    <3>1. h \in Nat \ {0} /\ h + 1 = c
      BY <1>3, <2>2
    <3> HIDE DEF h
    <3>2. h \in Told({"contacts"})' /\ replies'[h] = replies[c]
      BY <1>3, <3>1
    <3>3. \A d \in Told({"contacts"})' : d <= h
      <4> SUFFICES ASSUME NEW d \in Told({"contacts"})'
                   PROVE  d <= h
        OBVIOUS
      <4>1. d \in Nat /\ d + 1 <= c
        BY <1>3, <1>5
      <4>2. QED
        BY <3>1, <4>1
    <3>4. friends'[session'] \subseteq replies'[h].arg
      BY <1>5, <3>2 DEF server
    <3>5. QED
      BY <1>2, <1>5, <3>2, <3>3, <3>4 DEF ListsDue
  <2>3. QED
    BY <2>1, <2>2
<1>6. ASSUME Asked({"addContact"}) = {}, Told({"contacts"}) = {},
             \A i \in 1 .. Depth : Listing(i) =>
                 friends[session] \subseteq Known(screens[i]) \union Unlisted
      PROVE  ListsDue'
  <2>1. replies[1].op # "contacts"
    BY <1>3, <1>6 DEF Told
  <2>2. \A i \in 1 .. Depth' : screens'[i].kind = "contacts" =>
           friends[session] \subseteq Known(screens'[i]) \union Unlisted
    BY <1>6, <2>1 DEF Listing
  <2>3. Told({"contacts"})' = {}
    BY <1>3, <1>6
  <2>4. QED
    BY <1>2, <1>6, <2>2, <2>3 DEF ListsDue, Listing, server
<1>7. QED
  BY <1>1, <1>4, <1>5, <1>6 DEF ListsDue

LEMMA TypedRead ==
    ASSUME Typed, replies # <<>>, replies' = Tail(replies), me' \in Maybe, StackOK',
           UNCHANGED <<link, requests, server, faults>>
    PROVE  Typed'
<1>1. /\ replies' \in Seq(ReplyMsg) /\ Len(replies') = Len(replies) - 1
      /\ Len(replies) \in Nat /\ Len(requests) \in Nat
  BY ReadShape DEF Typed, QueuesOK
<1>2. QueuesOK'
  <2>1. Len(requests') + Len(replies') <= MaxInFlight
    BY <1>1, ClientAssumption DEF Typed, QueuesOK
  <2>2. QED
    BY <1>1, <2>1 DEF Typed, QueuesOK
<1>3. ServerOK'
  BY DEF Typed, ServerOK, server
<1>4. QED
  BY <1>2, <1>3 DEF Typed

\* Every reply but the answer to a registration, and the answer when it leaves no button
\* disabled.
LEMMA ButtonRead ==
    ASSUME Typed, ButtonAwaitsAnswer, replies # <<>>, replies' = Tail(replies),
           UNCHANGED <<requests, faults>>, replies[1].op \notin {"created", "exists"},
           \A i \in 1 .. Depth' : screens'[i].button = "off" =>
              \E j \in 1 .. Depth : screens[j].button = "off"
    PROVE  ButtonAwaitsAnswer'
<1>1. ASSUME NEW j \in 1 .. Len(replies), replies[j].op \in {"created", "exists"}
      PROVE  Answering'
  <2> DEFINE h == j - 1
  <2>1. j # 1 /\ j \in Told({"created", "exists"})
    BY <1>1 DEF Told, Typed, QueuesOK
  <2>2. h \in Nat \ {0} /\ h + 1 = j
    BY <2>1 DEF Typed, QueuesOK
  <2> HIDE DEF h
  <2>3. h \in Told({"created", "exists"})'
    BY <2>1, <2>2, ReadShape
  <2>4. h \in DOMAIN replies' /\ replies'[h].op \in {"created", "exists"}
    BY <2>3 DEF Told
  <2>5. replies' \in Seq(ReplyMsg)
    BY ReadShape
  <2>6. h \in 1 .. Len(replies')
    BY <2>4, <2>5
  <2>7. QED
    BY <2>4, <2>6 DEF Answering
<1>2. Answering => Answering'
  BY <1>1 DEF Answering
<1>3. QED
  BY <1>2, ButtonKept

LEMMA ReadKeeps ==
    ASSUME AppInv, DidReadData
    PROVE  AppInv'
<1> DEFINE r == replies[1]
<1>1. /\ Typed /\ Names /\ ButtonAwaitsAnswer /\ Lists /\ StackOK
      /\ replies # <<>> /\ replies' = Tail(replies)
      /\ UNCHANGED <<link, requests, server, faults>>
  BY DEF AppInv, Typed, DidReadData
<1>2. Head(replies) = r /\ r \in ReplyMsg
  BY <1>1, ReadShape
<1>3. LoggedIn(r) \/ LoginFailure(r) \/ Registration(r) \/ ContactsReceived(r) \/ MessageReceived(r)
  BY <1>2 DEF DidReadData
<1>4. /\ Depth \in Nat \ {0} /\ Depth \in 1 .. Depth /\ Top = screens[Depth] /\ Top \in Screen
      /\ \A i \in 1 .. Depth : screens[i] \in Screen
      /\ me \in Maybe /\ None \in Maybe /\ \A u \in People : u \in Maybe
  BY <1>1, StackFacts DEF Top, Typed, ServerOK, Maybe
<1> HIDE DEF r
<1>5. r = replies[1]
  BY DEF r
<1>6. ASSUME LoggedIn(r)
      PROVE  AppInv'
  <2>1. r.op = "loggedIn" /\ me' = r.arg /\ r.arg \in People
    BY <1>2, <1>6 DEF LoggedIn, User, ReplyMsg
  <2>2. Names' /\ session \in People /\ ~Inside
    <3>1. UNCHANGED <<requests, server>>
      BY <1>1
    <3>2. QED
      BY <1>1, <1>5, <2>1, <3>1, NamesLoggedIn
  <2>3. StackOK' /\ /\ \A i \in 1 .. Depth' : screens'[i].button = "off" =>
                          \E j \in 1 .. Depth : screens[j].button = "off"
                    /\ \A i \in 1 .. Depth' : screens'[i].kind # "contacts"
    <3>1. \A i \in 1 .. Depth : screens[i].kind \notin Inner
      BY <1>1, <2>2, StackFacts
    <3>2. CASE UNCHANGED screens
      <4>1. StackOK' /\ Lesser /\ Depth' = Depth
        BY <1>1, <3>2, Unchanged DEF Depth
      <4>2. QED
        BY <3>1, <3>2, <4>1 DEF Lesser, Inner
    <3>3. CASE On("login") /\ Present(New("own", r.arg))
      <4> DEFINE s == New("own", r.arg)
      <4>1. "own" \in Kinds
        BY DEF Kinds
      <4>2. s \in Screen /\ s.kind = "own" /\ s.button = "on" /\ s.alert = "none"
        BY <1>4, <2>1, <4>1, NewShape
      <4>3. Room(s) /\ screens' = Append(screens, s)
        BY <3>3 DEF Present
      <4> HIDE DEF s
      <4>4. Depth < MaxScreens /\ MaxScreens \in Nat
        BY <1>1, <4>2, <4>3, ClientAssumption DEF Room
      <4>5. /\ screens' \in Seq(Screen) /\ Depth' = Depth + 1
            /\ \A i \in 1 .. Depth : screens'[i] = screens[i]
            /\ screens'[Depth + 1] = s
        BY <1>1, <4>2, <4>3 DEF StackOK, Depth
      <4>6. \A i \in 1 .. Depth' : (i = Depth + 1 /\ screens'[i] = s)
                                   \/ (i \in 1 .. Depth /\ screens'[i] = screens[i])
        <5>1. \A i \in 1 .. Depth' : i = Depth + 1 \/ i \in 1 .. Depth
          BY <1>4, <4>5
        <5>2. QED
          BY <4>5, <5>1
      <4>7. StackOK'
        <5>1. Depth' \in 1 .. MaxScreens /\ screens'[1].kind = "start"
          BY <1>1, <1>4, <4>4, <4>5 DEF StackOK
        <5>2. ASSUME NEW i \in 1 .. Depth', NEW j \in 1 .. Depth', i < j, screens'[i].kind \in Inner
              PROVE  FALSE
          <6>1. i \in 1 .. Depth
            BY <1>4, <4>5, <5>2
          <6>2. QED
            BY <3>1, <4>5, <5>2, <6>1
        <5>3. \A i \in 1 .. Depth' :
                 /\ screens'[i].button = "off" => screens'[i].kind = "register"
                 /\ screens'[i].alert # "none" => screens'[i].kind \in {"login", "register"}
          BY <1>1, <4>2, <4>6 DEF StackOK
        <5>4. QED
          BY <4>5, <5>1, <5>2, <5>3 DEF StackOK
      <4>8. QED
        BY <3>1, <4>2, <4>6, <4>7 DEF Inner
    <3>4. QED
      BY <1>6, <3>2, <3>3 DEF LoggedIn
  <2>4. Typed'
    BY <1>1, <1>4, <2>1, <2>3, TypedRead
  <2>5. ButtonAwaitsAnswer'
    BY <1>1, <1>5, <2>1, <2>3, ButtonRead
  <2>6. Lists'
    BY <2>3 DEF Lists, Listing
  <2>7. QED
    BY <2>2, <2>4, <2>5, <2>6 DEF AppInv
<1>7. ASSUME StackOK', Inside' => Inside, UNCHANGED me, r.op # "loggedIn", ButtonAwaitsAnswer',
             \A i \in 1 .. Depth' : screens'[i].kind = "contacts" =>
               \E j \in 1 .. Depth : screens[j].kind = "contacts"
                   /\ IF r.op = "contacts" /\ r.arg # {}
                      THEN Known(screens'[i]) = r.arg ELSE Known(screens'[i]) = Known(screens[j])
      PROVE  AppInv'
  <2>1. Typed'
    BY <1>1, <1>4, <1>7, TypedRead
  <2>2. Names'
    <3>1. UNCHANGED <<me, requests, server>>
      BY <1>1, <1>7
    <3>2. QED
      BY <1>1, <1>5, <1>7, <3>1, NamesRead
  <2>3. Lists'
    <3>1. UNCHANGED <<requests, server, faults>>
      BY <1>1
    <3>2. QED
      BY <1>1, <1>5, <1>7, <3>1, ListsRead
  <2>4. QED
    BY <1>7, <2>1, <2>2, <2>3 DEF AppInv
<1>8. ASSUME StackOK', Lesser, UNCHANGED me, r.op \in {"loginFailure", "message"}
      PROVE  AppInv'
  <2>1. ButtonAwaitsAnswer'
    BY <1>1, <1>5, <1>8, ButtonRead DEF Lesser
  <2>2. QED
    BY <1>7, <1>8, <2>1 DEF Lesser
<1>9. ASSUME LoginFailure(r)
      PROVE  AppInv'
  <2>1. CASE On("login")
    <3> DEFINE s == [Top EXCEPT !.alert = "told"]
    <3>1. /\ s \in Screen /\ s.kind = "login" /\ s.button = Top.button /\ Known(s) = Known(Top)
          /\ Top.kind = "login"
      BY <1>4, <2>1 DEF Screen, On, Known
    <3>2. screens' = [screens EXCEPT ![Depth] = s]
      BY <1>9, <2>1 DEF LoginFailure, Top
    <3>3. s.button = "off" => s.kind = "register"
      BY <1>1, <1>4, <3>1 DEF StackOK
    <3> HIDE DEF s
    <3>4. /\ StackOK /\ Depth \in 1 .. Depth /\ s \in Screen /\ s.kind = screens[Depth].kind
          /\ s.button = screens[Depth].button /\ Known(s) = Known(screens[Depth])
      BY <1>1, <1>4, <3>1 DEF Top
    <3>5. StackOK' /\ Lesser
      BY <3>1, <3>2, <3>3, <3>4, Edited
    <3>6. QED
      BY <1>8, <1>9, <3>5 DEF LoginFailure
  <2>2. CASE ~On("login")
    <3>1. StackOK' /\ Lesser
      BY <1>1, <1>9, <2>2, Unchanged DEF LoginFailure
    <3>2. QED
      BY <1>8, <1>9, <3>1 DEF LoginFailure
  <2>3. QED
    BY <2>1, <2>2
<1>10. ASSUME MessageReceived(r)
       PROVE  AppInv'
  <2> DEFINE f == [i \in 1 .. Depth |-> Titled(screens[i], r.arg)]
  <2>1. screens' = f /\ r.op = "message" /\ r.arg \in Maybe
    BY <1>2, <1>4, <1>10 DEF MessageReceived, Each, ReplyMsg
  <2>2. \A i \in 1 .. Depth :
           /\ f[i] \in Screen /\ f[i].kind = screens[i].kind /\ Known(f[i]) = Known(screens[i])
           /\ f[i].button = screens[i].button /\ f[i].alert = screens[i].alert
    BY <1>4, <2>1 DEF Titled, Screen, Maybe, Known
  <2>3. f \in [1 .. Depth -> Screen]
    BY <2>2
  <2> HIDE DEF f
  <2>4. StackOK' /\ Lesser
    BY <1>1, <2>1, <2>2, <2>3, Repainted
  <2>5. QED
    BY <1>8, <1>10, <2>1, <2>4 DEF MessageReceived
<1>11. ASSUME ContactsReceived(r)
       PROVE  AppInv'
  <2>1. CASE r.arg = {}
    <3>1. StackOK' /\ Lesser
      BY <1>1, <1>11, <2>1, Unchanged DEF ContactsReceived
    <3>2. r.op = "contacts"
      BY <1>11 DEF ContactsReceived
    <3>3. ButtonAwaitsAnswer'
      BY <1>1, <1>5, <3>1, <3>2, ButtonRead DEF Lesser
    <3>4. QED
      BY <1>7, <1>11, <2>1, <3>1, <3>2, <3>3 DEF ContactsReceived, Lesser
  <2>2. CASE r.arg # {}
    <3> DEFINE f == [i \in 1 .. Depth |-> Filled(screens[i], r.arg)]
    <3>1. screens' = f /\ r.op = "contacts" /\ r.arg \subseteq People
      BY <1>2, <1>11, <2>2 DEF ContactsReceived, Each, ReplyMsg
    <3>2. \A i \in 1 .. Depth :
             /\ f[i] \in Screen /\ f[i].kind = screens[i].kind
             /\ f[i].button = screens[i].button /\ f[i].alert = screens[i].alert
             /\ f[i].kind = "contacts" => Known(f[i]) = r.arg
      BY <1>4, <3>1 DEF Filled, Screen, Known
    <3>3. f \in [1 .. Depth -> Screen]
      BY <3>2
    <3> HIDE DEF f
    <3>4. StackOK' /\ (Inside' => Inside) /\ Depth' = Depth
      BY <1>1, <3>1, <3>2, <3>3, Repainted
    <3>5. \A i \in 1 .. Depth' : screens'[i].button = "off" =>
             \E j \in 1 .. Depth : screens[j].button = "off"
      BY <3>1, <3>2, <3>4
    <3>6. ButtonAwaitsAnswer'
      BY <1>1, <1>5, <3>1, <3>5, ButtonRead
    <3>7. \A i \in 1 .. Depth' : screens'[i].kind = "contacts" =>
             \E j \in 1 .. Depth : screens[j].kind = "contacts" /\ Known(screens'[i]) = r.arg
      BY <3>1, <3>2, <3>4
    <3>8. QED
      BY <1>7, <1>11, <2>2, <3>1, <3>4, <3>6, <3>7 DEF ContactsReceived
  <2>3. QED
    BY <2>1, <2>2
<1>12. ASSUME Registration(r)
       PROVE  AppInv'
  <2> DEFINE e == [i \in 1 .. Depth |-> Enabled(screens[i], r.op)]
             t == IF r.op = "created" THEN "created" ELSE "told"
             f == IF On("register") THEN [e EXCEPT ![Depth].alert = t] ELSE e
  <2>1. screens' = f /\ r.op \in {"created", "exists"}
    BY <1>12 DEF Registration, Each
  <2>2. \A i \in 1 .. Depth :
           /\ e[i] \in Screen /\ e[i].kind = screens[i].kind /\ Known(e[i]) = Known(screens[i])
           /\ e[i].button \in {"on", screens[i].button} /\ e[i].alert = screens[i].alert
           /\ e[i].kind = "register" => e[i].button = "on"
    BY <1>4 DEF Enabled, Screen, Known
  <2>3. e \in [1 .. Depth -> Screen]
    BY <2>2
  <2> HIDE DEF e
  <2>4. /\ f \in [1 .. Depth -> Screen]
        /\ \A i \in 1 .. Depth :
              /\ f[i].kind = screens[i].kind /\ Known(f[i]) = Known(screens[i])
              /\ f[i].button \in {"on", screens[i].button}
              /\ f[i].alert \in {"none", screens[i].alert} \/ f[i].kind \in {"login", "register"}
              /\ f[i].kind = "register" => f[i].button = "on"
    <3>1. CASE On("register")
      <4> DEFINE s == [e[Depth] EXCEPT !.alert = t]
      <4>1. /\ s \in Screen /\ s.kind = "register" /\ Known(s) = Known(screens[Depth])
            /\ s.button = "on" /\ screens[Depth].kind = "register"
        BY <1>4, <2>2, <3>1 DEF Screen, On, Known
      <4>2. f = [e EXCEPT ![Depth] = s]
        BY <3>1
      <4> HIDE DEF s
      <4>3. /\ f \in [1 .. Depth -> Screen]
            /\ \A i \in 1 .. Depth : f[i] = IF i = Depth THEN s ELSE e[i]
        BY <1>4, <2>3, <4>1, <4>2
      <4> HIDE DEF f
      <4>4. QED
        BY <2>2, <4>1, <4>3
    <3>2. CASE ~On("register")
      BY <2>2, <2>3, <3>2
    <3>3. QED
      BY <3>1, <3>2
  <2> HIDE DEF f
  <2>5. StackOK' /\ Lesser /\ Depth' = Depth
    BY <1>1, <2>1, <2>4, Repainted
  <2>6. \A i \in 1 .. Depth' : screens'[i].button # "off"
    <3>1. \A i \in 1 .. Depth : screens[i].button = "off" => screens[i].kind = "register"
      BY <1>1 DEF StackOK
    <3>2. QED
      BY <2>1, <2>4, <2>5, <3>1
  <2>7. ButtonAwaitsAnswer'
    BY <2>6 DEF ButtonAwaitsAnswer
  <2>8. QED
    BY <1>7, <1>12, <2>1, <2>5, <2>7 DEF Registration, Lesser
<1>13. QED
  BY <1>3, <1>6, <1>9, <1>10, <1>11, <1>12
-----------------------------------------------------------------------------
(* The other clients and the connection.                                    *)

LEMMA PeerKeeps ==
    ASSUME AppInv, NEW u \in People, PeerWrites(u)
    PROVE  AppInv'
<1> DEFINE a == [op |-> "message", arg |-> u, to |-> session]
<1>1. /\ Typed /\ Names /\ ButtonAwaitsAnswer /\ Lists /\ StackOK
      /\ UNCHANGED <<app, link, requests, server, faults>>
      /\ session # None /\ InFlightRoom /\ Answer(a)
  BY DEF AppInv, Typed, PeerWrites, Reply
<1>2. a \in ReplyMsg /\ a.op = "message" /\ a.to = session
  BY <1>1 DEF ReplyMsg, Typed, ServerOK
<1> HIDE DEF a
<1>3. /\ replies' \in Seq(ReplyMsg)
      /\ Len(replies) \in Nat /\ Len(replies') = Len(replies) + 1
      /\ \A i \in 1 .. Len(replies) : replies'[i] = replies[i]
      /\ replies'[Len(replies) + 1] = a
      /\ \A ops, i : i \in Told(ops)' <=>
            i \in Told(ops) \/ (i = Len(replies) + 1 /\ a.op \in ops)
      /\ \A ops, i : i \in Told(ops) => i \in 1 .. Len(replies) /\ i < Len(replies) + 1
                                         /\ replies'[i] = replies[i]
  BY <1>1, <1>2, Answered DEF Typed
<1>4. Typed'
  <2>1. QueuesOK'
    <3>1. Len(requests') + Len(replies') <= MaxInFlight
      BY <1>1, <1>3, ClientAssumption DEF InFlightRoom, Typed, QueuesOK
    <3>2. QED
      BY <1>1, <1>3, <3>1 DEF Typed, QueuesOK
  <2>2. ServerOK'
    BY <1>1 DEF Typed, ServerOK, app, server
  <2>3. StackOK'
    BY <1>1, Unchanged DEF app
  <2>4. QED
    BY <2>1, <2>2, <2>3 DEF Typed
<1>5. Names'
  <2>1. a.op \notin {"loggedIn"}
    BY <1>2
  <2>2. Unread' = Unread /\ \A i \in Unread : replies'[i] = replies[i]
    <3>1. \A i : i \in Unread' <=> i \in Unread
      BY <1>3, <2>1 DEF Unread
    <3>2. QED
      BY <1>3, <3>1 DEF Unread
  <2>3. \A j \in Notes' : \/ j \in Notes /\ replies'[j] = replies[j]
                          \/ /\ session # None /\ replies'[j].to = session
                             /\ \A i \in Unread : i < j
    BY <1>1, <1>2, <1>3 DEF Notes, Unread
  <2>4. \A ops : Asked(ops)' = Asked(ops) /\ \A i \in Asked(ops) : i \in Nat /\ i + 0 = i
    BY <1>1 DEF Asked, Typed, QueuesOK
  <2>5. 0 \in Nat /\ \A ops : \A i \in Asked(ops)' :
                        i \in Nat /\ i + 0 \in Asked(ops) /\ requests'[i] = requests[i + 0]
    BY <1>1, <2>4
  <2>6. session' = session /\ UNCHANGED app
    BY <1>1 DEF server
  <2>7. \A ops : \A i \in Asked(ops) : i \in Nat
    BY <2>4
  <2>8. QED
    BY <1>1, <2>2, <2>3, <2>5, <2>6, <2>7, NamesHandled
<1>6. ButtonAwaitsAnswer'
  <2>1. \A j \in 1 .. Len(replies) : j \in 1 .. Len(replies')
    BY <1>3
  <2>2. Answering => Answering'
    BY <1>1, <1>3, <2>1 DEF Answering
  <2>3. screens' = screens /\ Depth' = Depth
    BY <1>1 DEF app, Depth
  <2>4. QED
    BY <1>1, <2>2, <2>3, ButtonKept
<1>7. Lists'
  <2>1. /\ Told({"contacts"})' = Told({"contacts"})
        /\ \A c \in Told({"contacts"}) : replies'[c] = replies[c]
    <3>1. a.op \notin {"contacts"}
      BY <1>2
    <3>2. \A i : i \in Told({"contacts"})' <=> i \in Told({"contacts"})
      BY <1>3, <3>1
    <3>3. QED
      BY <1>3, <3>2
  <2>2. Asked({"grab"})' = Asked({"grab"}) /\ Asked({"addContact"})' = Asked({"addContact"})
        /\ Unlisted' = Unlisted
    BY <1>1 DEF Asked, Unlisted
  <2>3. /\ screens' = screens /\ Depth' = Depth /\ session' = session /\ friends' = friends
        /\ faults' = faults
    BY <1>1 DEF app, server, Depth
  <2>4. ListsDue => ListsDue'
    <3>1. ASSUME NEW g \in Asked({"grab"}), NoAddAfter(g)
          PROVE  ListsDue'
      BY <2>2, <3>1 DEF ListsDue, NoAddAfter
    <3>2. ASSUME Asked({"addContact"}) = {},
                 NEW c \in Told({"contacts"}), \A d \in Told({"contacts"}) : d <= c,
                 friends[session] \subseteq replies[c].arg
          PROVE  ListsDue'
      <4>1. friends'[session'] \subseteq replies'[c].arg
        BY <2>1, <2>3, <3>2
      <4>2. QED
        BY <2>1, <2>2, <3>2, <4>1 DEF ListsDue
    <3>3. ASSUME Asked({"addContact"}) = {}, Told({"contacts"}) = {},
                 \A i \in 1 .. Depth : Listing(i) =>
                     friends[session] \subseteq Known(screens[i]) \union Unlisted
          PROVE  ListsDue'
      BY <2>1, <2>2, <2>3, <3>3 DEF ListsDue, Listing
    <3>4. QED
      BY <3>1, <3>2, <3>3 DEF ListsDue
  <2>5. QED
    BY <1>1, <2>3, <2>4 DEF Lists, Listing
<1>8. QED
  BY <1>4, <1>5, <1>6, <1>7 DEF AppInv

LEMMA DisconnectKeeps ==
    ASSUME AppInv, DidDisconnect
    PROVE  AppInv'
<1>1. /\ Typed /\ ButtonAwaitsAnswer /\ UNCHANGED <<app, accounts, friends>>
      /\ link' = "down" /\ requests' = <<>> /\ replies' = <<>> /\ session' = None
      /\ faults' = IF requests = <<>> /\ replies = <<>> THEN faults
                   ELSE faults \union {"connection"}
  BY DEF AppInv, DidDisconnect, SessionAfterLoss
<1>2. <<>> \in Seq(RequestMsg) /\ <<>> \in Seq(ReplyMsg) /\ Len(<<>>) = 0 /\ DOMAIN <<>> = {}
  BY EmptySeq
<1>3. Typed'
  <2>1. QueuesOK'
    <3>1. Len(requests') + Len(replies') <= MaxInFlight
      BY <1>1, <1>2, ClientAssumption
    <3>2. QED
      BY <1>1, <1>2, <3>1 DEF QueuesOK
  <2>2. ServerOK'
    BY <1>1 DEF Typed, ServerOK, app, Maybe
  <2>3. StackOK'
    BY <1>1, Unchanged DEF Typed, app
  <2>4. QED
    BY <2>1, <2>2, <2>3 DEF Typed
<1>4. /\ \A ops : Asked(ops)' = {} /\ Told(ops)' = {}
      /\ Unread' = {} /\ Notes' = {}
  BY <1>1, <1>2 DEF Asked, Told, Unread, Notes
<1>5. Names'
  BY <1>1, <1>4 DEF Names, LoginUnread, NotesOwned, SessionOwned, StaleLogins, AskedByOwner
<1>6. ButtonAwaitsAnswer'
  <2>1. CASE requests = <<>> /\ replies = <<>>
    BY <1>1, <2>1 DEF ButtonAwaitsAnswer, app, Depth
  <2>2. CASE ~(requests = <<>> /\ replies = <<>>)
    <3>1. "connection" \in faults'
      BY <1>1, <2>2
    <3>2. faults' # {}
      BY <3>1
    <3>3. QED
      BY <3>2 DEF ButtonAwaitsAnswer
  <2>3. QED
    BY <2>1, <2>2
<1>7. Lists'
  BY <1>1 DEF Lists
<1>8. QED
  BY <1>3, <1>5, <1>6, <1>7 DEF AppInv

LEMMA ConnectKeeps ==
    ASSUME AppInv, DidConnect
    PROVE  AppInv'
<1>1. /\ Typed /\ Names /\ ButtonAwaitsAnswer /\ Lists
      /\ UNCHANGED <<app, requests, replies, server, faults>> /\ link' = "up"
      /\ session = None
  BY DEF AppInv, DidConnect, Typed, ServerOK
<1>2. Typed'
  BY <1>1, Unchanged DEF Typed, QueuesOK, ServerOK, app, server
<1>3. /\ Inside' = Inside /\ Unread' = Unread /\ Notes' = Notes
      /\ \A ops : Asked(ops)' = Asked(ops)
  BY <1>1 DEF app, Inside, Top, Depth, Unread, Notes, Told, Asked
<1>4. Names'
  BY <1>1, <1>3 DEF Names, LoginUnread, NotesOwned, SessionOwned, StaleLogins, AskedByOwner,
                    Harmless, app, server
<1>5. ButtonAwaitsAnswer'
  BY <1>1 DEF ButtonAwaitsAnswer, app, Depth
<1>6. Lists'
  BY <1>1 DEF Lists, server
<1>7. QED
  BY <1>2, <1>4, <1>5, <1>6 DEF AppInv
-----------------------------------------------------------------------------
(* The invariant and what follows from it.                                  *)

LEMMA AppInit == Init => AppInv
<1> SUFFICES ASSUME Init
             PROVE  AppInv
  OBVIOUS
<1> DEFINE s == New("start", None)
<1>1. s \in Screen /\ s.kind = "start" /\ s.button = "on" /\ s.alert = "none"
  BY NewShape DEF Kinds, Maybe
<1>2. /\ screens = <<s>> /\ requests = <<>> /\ replies = <<>> /\ me = None /\ session = None
      /\ link = "down" /\ faults = {} /\ accounts \subseteq People
      /\ friends = [u \in People |-> {}]
  BY DEF Init
<1> HIDE DEF s
<1>3. <<>> \in Seq(RequestMsg) /\ <<>> \in Seq(ReplyMsg) /\ Len(<<>>) = 0 /\ DOMAIN <<>> = {}
  BY EmptySeq
<1>4. QueuesOK
  <2>1. Len(requests) + Len(replies) <= MaxInFlight
    BY <1>2, <1>3, ClientAssumption
  <2>2. QED
    BY <1>2, <1>3, <2>1 DEF QueuesOK
<1>5. ServerOK
  BY <1>2 DEF ServerOK, Maybe
<1>6. Depth = 1 /\ screens[1] = s /\ screens \in Seq(Screen)
  BY <1>1, <1>2 DEF Depth
<1>7. StackOK
  <2>1. \A i \in 1 .. Depth : i = 1
    BY <1>6
  <2>2. Depth \in 1 .. MaxScreens
    BY <1>6, ClientAssumption
  <2>3. \A i, j \in 1 .. Depth : ~(i < j)
    BY <1>6
  <2>4. QED
    BY <1>1, <1>6, <2>1, <2>2, <2>3 DEF StackOK
<1>8. (\A ops : Asked(ops) = {} /\ Told(ops) = {}) /\ Unread = {} /\ Notes = {}
  BY <1>2, <1>3 DEF Asked, Told, Unread, Notes
<1>9. Names
  BY <1>2, <1>8 DEF Names, LoginUnread, NotesOwned, SessionOwned, StaleLogins, AskedByOwner
<1>10. ButtonAwaitsAnswer
  BY <1>1, <1>6 DEF ButtonAwaitsAnswer
<1>11. Lists
  BY <1>2 DEF Lists
<1>12. QED
  BY <1>4, <1>5, <1>7, <1>9, <1>10, <1>11 DEF AppInv, Typed

LEMMA AppStep == AppInv /\ [Next]_vars => AppInv'
<1> SUFFICES ASSUME AppInv, [Next]_vars
             PROVE  AppInv'
  OBVIOUS
<1>1. CASE Start \/ SignIn \/ Profile \/ Contacts
  BY <1>1, StartKeeps, SignInKeeps, ProfileKeeps, ContactsKeep
<1>2. CASE Network
  BY <1>2, HandleKeeps, ReadKeeps, PeerKeeps, DisconnectKeeps, ConnectKeeps DEF Network
<1>3. CASE UNCHANGED vars
  <2>1. StackOK' /\ Lesser
    BY <1>3, Unchanged DEF vars, AppInv, Typed
  <2>2. QED
    BY <1>3, <2>1, LocalStep DEF vars, server
<1>4. QED
  BY <1>1, <1>2, <1>3 DEF Next

LEMMA AppInvariant == Spec => []AppInv
  BY AppInit, AppStep, PTL DEF Spec

\* The app's state is what the code takes it to be: a stack of screens within bounds, and
\* no session without a connection.
THEOREM AppTyped == Spec => []TypeOK
<1>1. AppInv => TypeOK
  <2> SUFFICES ASSUME AppInv
               PROVE  TypeOK
    OBVIOUS
  <2>1. \A i \in 1 .. Depth : screens[i] \in Screen
    BY StackFacts DEF AppInv, Typed
  <2>2. QED
    BY <2>1 DEF AppInv, Typed, QueuesOK, ServerOK, StackOK, TypeOK, Maybe
<1>2. QED
  BY <1>1, AppInvariant, PTL

\* No reply of one session is applied to the app of another user (NetworkManager's
\* notifications name no user, and the screens do not ask whose reply it is).
THEOREM RepliesStayMine == Spec => []RepliesAreMine
<1>1. AppInv => RepliesAreMine
  <2> SUFFICES ASSUME AppInv, replies # <<>>, Head(replies).op \in {"contacts", "message"}
               PROVE  Head(replies).to = me
    BY DEF RepliesAreMine
  <2>1. Head(replies) = replies[1] /\ 1 \in Notes
    BY DEF AppInv, Typed, QueuesOK, Notes, Told
  <2>2. \A i \in Unread : ~(i < 1)
    BY DEF AppInv, Typed, QueuesOK, Unread, Told
  <2>3. QED
    BY <2>1, <2>2 DEF AppInv, Names, NotesOwned
<1>2. QED
  BY <1>1, AppInvariant, PTL

\* The register button that registrationButtonPressed disables is enabled again by the
\* answer, and without a fault the answer is on its way.
THEOREM ButtonsComeBack == Spec => []ButtonAwaitsAnswer
  BY AppInvariant, PTL DEF AppInv

\* What changes an account's contacts or deletes it was asked for while the app showed
\* that account's user.
THEOREM ServedInMyName == Spec => ActsInMyName
<1>1. AppInv /\ [Next]_vars =>
        [friends' # friends \/ accounts \ accounts' # {}
           => session = Head(requests).by]_<<accounts, friends>>
  <2> SUFFICES ASSUME AppInv, [Next]_vars, friends' # friends \/ accounts \ accounts' # {}
               PROVE  session = Head(requests).by
    OBVIOUS
  <2>1. Handle
    <3>1. ASSUME UNCHANGED <<accounts, friends>>
          PROVE  FALSE
      BY <3>1
    <3>2. CASE Start
      BY <3>1, <3>2 DEF Start, LoginTapped, RegisterTapped, BackToStart, DismissAlert, server
    <3>3. CASE SignIn
      BY <3>1, <3>3 DEF SignIn, RegistrationRefused, LoginButtonPressed,
                        RegistrationButtonPressed, server
    <3>4. CASE Profile
      BY <3>1, <3>4 DEF Profile, NavigationBackButtonPressed, PersonsFriendsPressed,
                        DeleteAccountPressed, DeleteFriendPressed, ClickToChatPressed,
                        AddFriendPressed, server
    <3>5. CASE Contacts
      BY <3>1, <3>5 DEF Contacts, NavigateBackPressed, DidSelectRow, DeleteButtonAction,
                        ChatButtonAction, SearchTextDidChange, DidPressSend, server
    <3>6. CASE Network
      BY <3>1, <3>6 DEF Network, DidReadData, DidDisconnect, DidConnect, PeerWrites, server
    <3>7. CASE UNCHANGED vars
      BY <3>1, <3>7 DEF vars
    <3>8. QED
      BY <3>2, <3>3, <3>4, <3>5, <3>6, <3>7 DEF Next
  <2>2. Typed /\ Names
    BY DEF AppInv
  <2>3. Head(requests) = requests[1] /\ 1 \in DOMAIN requests
    BY <2>1, <2>2 DEF Handle, Typed, QueuesOK
  <2>4. session # None /\ requests[1].op \in SessionOps
    BY <2>1, <2>3 DEF Handle, HandleLogin, HandleRegister, HandleLogout, HandleSession,
                      HandleFails, server, SessionOps
  <2>5. 1 \in Asked(SessionOps)
    BY <2>3, <2>4 DEF Asked
  <2>6. QED
    BY <2>2, <2>3, <2>4, <2>5 DEF Names, AskedByOwner
<1>2. QED
  BY <1>1, AppInvariant, PTL DEF Spec, ActsInMyName

\* Once all is answered, and no request dropped by the server, a list hides no contact but
\* those whose rows deleteButtonAction took for another's since the list was last filled:
\* whatever removeContact and the lists that were read on the way have done to it.
THEOREM ContactsStayListed == Spec => []NoContactHidden
<1>1. AppInv => NoContactHidden
  <2> SUFFICES ASSUME AppInv, requests = <<>>, replies = <<>>, session # None,
                      "dropped" \notin faults,
                      NEW i \in 1 .. Depth, screens[i].kind = "contacts"
               PROVE  friends[session] \subseteq Known(screens[i])
    BY DEF NoContactHidden, Known
  <2>1. DOMAIN requests = {} /\ DOMAIN replies = {}
    BY EmptySeq
  <2>2. (\A ops : Asked(ops) = {} /\ Told(ops) = {}) /\ Unlisted = {}
    BY <2>1 DEF Asked, Told, Unlisted
  <2>3. ListsDue
    BY DEF AppInv, Lists, Listing
  <2>4. QED
    BY <2>2, <2>3 DEF ListsDue, Listing
<1>2. QED
  BY <1>1, AppInvariant, PTL
=============================================================================
