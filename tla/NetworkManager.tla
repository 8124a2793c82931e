---------------------------- MODULE NetworkManager ----------------------------
(***************************************************************************)
(* The iOS client's NetworkManager: one connection at a time to the chat   *)
(* server, re-established for ever; packets read as a header and then a    *)
(* body; and the "Reestablishing Connection..." screen, which is presented *)
(* on the root of the app: that is its start screen, and it can present    *)
(* only one other screen at a time.                                        *)
(*                                                                         *)
(* Everything here runs on the main queue, one callback at a time.  The    *)
(* socket library delivers the callbacks of a socket in order and its      *)
(* disconnection once and last.                                            *)
(***************************************************************************)
EXTENDS Sequences, Naturals

CONSTANT MaxWire    \* bound: headers and bodies on their way to the client

Replies == {"SMSG_UNSUCCESSFUL_LOGIN", "SMSG_ACCOUNT_CREATED", "SMSG_ACCOUNT_ALREADY_EXISTS"}
Lists   == {"SMSG_SUCCESSFUL_LOGIN", "SMSG_SEND_CONTACTS"}
Opcodes == {"SMSG_CONNECTED", "SMSG_KEEP_ALIVE", "SMSG_SEND_CHAT_MESSAGE", "other"}
               \union Replies \union Lists

HasBody(op) == op \in Lists \union {"SMSG_SEND_CHAT_MESSAGE"}

Chunk == [part : {"header", "body"}, op : Opcodes]
NoPacket == "nil"

\* Sent only to a user who has gone on from the start screen: the replies to the requests
\* made there, and what only a session is sent.
Beyond == Replies \union Lists \union {"SMSG_SEND_CHAT_MESSAGE"}

ASSUME NetworkAssumption == MaxWire \in Nat

VARIABLES
    socket,         \* _socket ("none": the app is not running)
    retries,        \* blocks queued to call connect after their second's sleep
    wire,           \* what the server has sent and this connection has not read
    reading,        \* what the pending readDataToLength is for
    tmp,            \* tmp: the packet whose header has been read
    noNetworkVC,    \* _noNetworkVC: nil, on the screen, being dismissed, or refused by UIKit
    covered,        \* the root presents the login or the registration screen
    wrote,          \* did this step write CMSG_KEEP_ALIVE?
    greeted         \* history: SMSG_CONNECTED has been read on this connection

vars == <<socket, retries, wire, reading, tmp, noNetworkVC, covered, wrote, greeted>>
-----------------------------------------------------------------------------
(* Making and losing the connection. *)

\* connect: a new GCDAsyncSocket; tmp is a global and keeps its value.
connect ==
    /\ socket' = "connecting"
    /\ wire' = <<>> /\ reading' = "nothing"
    /\ greeted' = FALSE
    /\ wrote' = FALSE

\* AppDelegate connects when the app has been launched.
Launch ==
    /\ socket = "none"
    /\ connect
    /\ retries' = 0 /\ tmp' = NoPacket /\ noNetworkVC' = "nil" /\ covered' = FALSE

DidConnect ==
    /\ socket = "connecting"
    /\ socket' = "connected"
    /\ reading' = "header"
    /\ wrote' = FALSE
    /\ UNCHANGED <<retries, wire, tmp, noNetworkVC, covered, greeted>>

\* loginButtonTapped, registerButtonTapped: no later screen leads back to the root.  While
\* the root presents the NoNetworkViewController its buttons cannot be reached.
LeaveStart ==
    /\ socket # "none" /\ ~covered /\ noNetworkVC = "nil"
    /\ covered' = TRUE
    /\ wrote' = FALSE
    /\ UNCHANGED <<socket, retries, wire, reading, tmp, noNetworkVC, greeted>>

\* presentViewController: on the root, which UIKit refuses while the root presents
\* another screen.  The view controller is made, and remembered, all the same.
Presented == IF covered THEN "refused" ELSE "shown"

\* Mutant: only the loss of a connection is shown, not the failure to make one.
PresentAfterLoss == IF noNetworkVC = "nil" /\ socket = "connected" THEN Presented
                                                                   ELSE noNetworkVC
\* Mutant: presented on the topmost screen, not on the root.
PresentOverAnything == IF noNetworkVC = "nil" THEN "shown" ELSE noNetworkVC
Present == IF noNetworkVC = "nil" THEN Presented ELSE noNetworkVC

\* socketDidDisconnect: the connection failed, timed out, broke or was closed.
DidDisconnect ==
    /\ socket \in {"connecting", "connected", "closing"}
    /\ socket' = "closed"
    /\ wire' = <<>> /\ reading' = "nothing"
    /\ noNetworkVC' = Present
    /\ retries' = retries + 1
    /\ wrote' = FALSE
    /\ UNCHANGED <<tmp, covered, greeted>>

\* The queued block, after its sleep.
Reconnect ==
    /\ socket # "none" /\ retries > 0
    /\ connect
    /\ retries' = retries - 1
    /\ UNCHANGED <<tmp, noNetworkVC, covered>>

\* The dismissal's animation has ended: its completion block.
Dismissed ==
    /\ noNetworkVC = "dismissing"
    /\ noNetworkVC' = "nil"
    /\ wrote' = FALSE
    /\ UNCHANGED <<socket, retries, wire, reading, tmp, covered, greeted>>
-----------------------------------------------------------------------------
(* The server: SMSG_CONNECTED first, if its table has room, then anything. *)

Packet(op) == IF HasBody(op) THEN <<[part |-> "header", op |-> op], [part |-> "body", op |-> op]>>
                             ELSE <<[part |-> "header", op |-> op]>>

IsGreeted == greeted \/ \E i \in DOMAIN wire : wire[i].op = "SMSG_CONNECTED"

ServerSends(op) ==
    /\ socket = "connected"
    /\ op = "SMSG_CONNECTED" <=> ~IsGreeted
    /\ op \in Beyond => covered
    /\ Len(wire \o Packet(op)) <= MaxWire
    /\ wire' = wire \o Packet(op)
    /\ UNCHANGED <<socket, retries, reading, tmp, noNetworkVC, covered, wrote, greeted>>
-----------------------------------------------------------------------------
(* socket:didReadData:withTag: *)

\* nilOutDisconnectedVC; a message to nil does nothing.  Of a view controller that was
\* refused there is nothing to dismiss: whether its completion block runs is UIKit's.
nilOutDisconnectedVC ==
    \/ noNetworkVC = "shown" /\ noNetworkVC' = "dismissing"
    \/ noNetworkVC = "refused" /\ noNetworkVC' \in {"refused", "nil"}
    \/ noNetworkVC \in {"nil", "dismissing"} /\ UNCHANGED noNetworkVC

\* An uncaught NSRangeException ends the app.
Crash ==
    /\ socket' = "none" /\ retries' = 0
    /\ wire' = <<>> /\ reading' = "nothing"
    /\ tmp' = NoPacket /\ noNetworkVC' = "nil" /\ covered' = FALSE
    /\ greeted' = FALSE
    /\ wrote' = FALSE

\* Mutant: the packet's own handler tries again as well.
DisconnectAndRetry == socket' = "closing" /\ retries' = retries + 1
Disconnect == socket' = "closing" /\ UNCHANGED retries

\* Mutant: the packet is freed but not forgotten.
NextHeaderKeepingPacket ==
    /\ reading' = "header"
    /\ wire' = Tail(wire)
    /\ greeted' = (greeted \/ Head(wire).op = "SMSG_CONNECTED")
    /\ UNCHANGED <<tmp, covered>>

\* Forget the packet and read the next header.
NextHeader ==
    /\ tmp' = NoPacket
    /\ reading' = "header"
    /\ wire' = Tail(wire)
    /\ greeted' = (greeted \/ Head(wire).op = "SMSG_CONNECTED")
    /\ UNCHANGED covered

\* The switch, for a packet op and the data just read.  The strings of a list or
\* of a message are taken from the data by position: with a header in its place
\* there are too few.  For a message this matters only to an open chat view.
startPacketReading(op) ==
    LET data == Head(wire)
        isOwn == ~HasBody(op) \/ data = [part |-> "body", op |-> op]
    IN
    \/ /\ op = "SMSG_CONNECTED"
       /\ nilOutDisconnectedVC
       /\ NextHeader
       /\ wrote' = FALSE
       /\ UNCHANGED <<socket, retries>>
    \/ /\ \/ op \in Replies \union {"SMSG_KEEP_ALIVE", "SMSG_SEND_CHAT_MESSAGE"}
          \/ op \in Lists /\ isOwn
       /\ NextHeader
       /\ wrote' = (op = "SMSG_KEEP_ALIVE")
       /\ UNCHANGED <<socket, retries, noNetworkVC>>
    \/ /\ op \in Lists \union {"SMSG_SEND_CHAT_MESSAGE"} /\ ~isOwn
       /\ Crash
    \/ /\ op = "other"
       /\ Disconnect
       /\ NextHeader
       /\ wrote' = FALSE
       /\ UNCHANGED noNetworkVC

\* Mutant: a body is read after every header.
BodyAlways(op) == TRUE
BodyFollows(op) == HasBody(op)

ReadHeader ==
    /\ socket = "connected" /\ wire # <<>> /\ tmp = NoPacket
    /\ \/ /\ ~BodyFollows(Head(wire).op)
          /\ startPacketReading(Head(wire).op)
       \/ /\ BodyFollows(Head(wire).op)
          /\ tmp' = Head(wire).op
          /\ reading' = "body"
          /\ wire' = Tail(wire)
          /\ wrote' = FALSE
          /\ UNCHANGED <<socket, retries, noNetworkVC, covered, greeted>>

ReadBody ==
    /\ socket = "connected" /\ wire # <<>> /\ tmp # NoPacket
    /\ startPacketReading(tmp)
-----------------------------------------------------------------------------
Init ==
    /\ socket = "none" /\ retries = 0
    /\ wire = <<>> /\ reading = "nothing"
    /\ tmp = NoPacket /\ noNetworkVC = "nil" /\ covered = FALSE
    /\ greeted = FALSE
    /\ wrote = FALSE

Next ==
    \/ Launch \/ DidConnect \/ DidDisconnect \/ Reconnect
    \/ LeaveStart \/ Dismissed
    \/ \E op \in Opcodes : ServerSends(op)
    \/ ReadHeader \/ ReadBody

\* The main queue serves what is queued on it, sleeps and animations end, and an
\* attempt to connect succeeds or times out after two seconds.  Nothing is assumed
\* of the server or the network.
Spec ==
    /\ Init /\ [][Next]_vars
    /\ WF_vars(Reconnect)
    /\ WF_vars(Dismissed)
    /\ WF_vars(socket \in {"connecting", "closing"} /\ (DidConnect \/ DidDisconnect))
    /\ WF_vars(ReadHeader \/ ReadBody)
-----------------------------------------------------------------------------
TypeOK ==
    /\ socket \in {"none", "connecting", "connected", "closing", "closed"}
    /\ retries \in 0 .. 1
    /\ wire \in Seq(Chunk)
    /\ reading \in {"nothing", "header", "body"}
    /\ tmp \in Opcodes \union {NoPacket}
    /\ noNetworkVC \in {"nil", "shown", "dismissing", "refused"}
    /\ covered \in BOOLEAN /\ wrote \in BOOLEAN /\ greeted \in BOOLEAN

\* There is always exactly one thing under way towards a connection: a connection,
\* an attempt, a callback still to come, or one queued retry.  So a retry never
\* replaces a socket in use, and the client never stops trying.
OneConnection == socket # "none" => (socket = "closed" <=> retries = 1)

\* The pending read has the length of what the server sends next, even on a
\* connection whose first header is taken for the body of an earlier packet.
ReadsInStep == wire # <<>> => Head(wire).part = reading

\* Every keep-alive probe that is read is answered: after a packet was cut off it is
\* the greeting that is lost, never a probe.
ProbesAnswered ==
    [][wire # <<>> /\ wire' = Tail(wire) /\ Head(wire).op = "SMSG_KEEP_ALIVE"
          /\ socket = "connected" /\ socket' = "connected" => wrote']_vars

\* An outage that lasts is shown to a user who is on the start screen, although a loss
\* during the screen's dismissal presents nothing: the next failed attempt does.  Over any
\* later screen nothing is shown.
OutageShown ==
    socket # "connected" ~> noNetworkVC = "shown" \/ covered \/ socket \in {"connected", "none"}

\* The screen, which says "Reestablishing Connection..." (NoNetworkViewController.m:23), is
\* up only until the server has greeted the connection, although the greeting is lost
\* where a packet was cut off before: to be sent such a packet the user must have left
\* the start screen, where alone the screen is shown.
ScreenMeansNoConnection == socket = "connected" /\ greeted => noNetworkVC # "shown"
=============================================================================
