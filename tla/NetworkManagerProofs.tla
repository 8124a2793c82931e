------------------------- MODULE NetworkManagerProofs -------------------------
(***************************************************************************)
(* What the iOS client's NetworkManager guarantees for any server, however *)
(* much it has sent and wherever the connection breaks: it has one         *)
(* connection or attempt at a time, it reads headers and bodies in step    *)
(* with what is sent, it answers every probe, and its screen for outages   *)
(* does not stay over a connection that works.                             *)
(***************************************************************************)
EXTENDS NetworkManager, SequenceTheorems, TLAPS

Online == socket \in {"connected", "closing"}

\* Nothing is read or kept of a connection that is not there; the retry that is queued
\* is the one of a lost connection.
Idle ==
    /\ ~Online => wire = <<>> /\ reading = "nothing"
    /\ Online => reading # "nothing"
    /\ socket = "connecting" => ~greeted
    /\ retries = IF socket = "closed" THEN 1 ELSE 0

HeaderAt(i) == wire[i].part = "header" /\ HasBody(wire[i].op)

\* On the wire a body follows its own header, and only that.
PacketsWhole ==
    \A i \in DOMAIN wire :
        /\ HeaderAt(i) =>
             i + 1 \in DOMAIN wire /\ wire[i + 1] = [part |-> "body", op |-> wire[i].op]
        /\ ~HeaderAt(i) /\ i + 1 \in DOMAIN wire => wire[i + 1].part = "header"

\* A body is awaited only for the packet whose header has been read, and its body is
\* what comes next.  Otherwise a header comes next; tmp is then left from an earlier
\* connection, and it is the greeting, a packet without a body, that comes.
InStep ==
    /\ reading = "body" => greeted /\ wire # <<>> /\ Head(wire) = [part |-> "body", op |-> tmp]
    /\ reading = "header" /\ wire # <<>> => Head(wire).part = "header"
    /\ reading = "header" /\ socket = "connected" /\ tmp # NoPacket => ~greeted
    /\ ~greeted /\ wire # <<>> => Head(wire) = [part |-> "header", op |-> "SMSG_CONNECTED"]
    /\ tmp # NoPacket => HasBody(tmp)

\* A packet with a body is sent, and cut off, only after the user has left the start screen;
\* only there is the NoNetworkViewController on display, and only until the greeting.
OnScreen ==
    /\ noNetworkVC \in {"shown", "dismissing"} => ~covered
    /\ tmp # NoPacket => covered
    /\ \A i \in DOMAIN wire : HasBody(wire[i].op) => covered
    /\ ScreenMeansNoConnection

NetInv == TypeOK /\ Idle /\ PacketsWhole /\ InStep /\ OnScreen
\* TypeOK is the type of the wire and of the rest.
Fields ==
    /\ socket \in {"none", "connecting", "connected", "closing", "closed"}
    /\ retries \in 0 .. 1
    /\ reading \in {"nothing", "header", "body"}
    /\ tmp \in Opcodes \union {NoPacket}
    /\ noNetworkVC \in {"nil", "shown", "dismissing", "refused"}

Flags == covered \in BOOLEAN /\ wrote \in BOOLEAN /\ greeted \in BOOLEAN

LEMMA TypeParts ==
    /\ TypeOK <=> Fields /\ Flags /\ wire \in Seq(Chunk)
    /\ TypeOK' <=> Fields' /\ Flags' /\ wire' \in Seq(Chunk)
  BY DEF TypeOK, Fields, Flags
-----------------------------------------------------------------------------
(* The wire.                                                                *)

LEMMA WireHead ==
    ASSUME TypeOK, wire # <<>>
    PROVE  /\ Head(wire) = wire[1] /\ wire[1] \in Chunk /\ 1 \in DOMAIN wire
           /\ Tail(wire) \in Seq(Chunk)
           /\ Len(Tail(wire)) = Len(wire) - 1
           /\ \A i \in DOMAIN Tail(wire) : i + 1 \in DOMAIN wire /\ Tail(wire)[i] = wire[i + 1]
           /\ \A i \in DOMAIN wire : i # 1 => i - 1 \in DOMAIN Tail(wire)
  BY DEF TypeOK

\* Reading a header or a body leaves whole packets, but for the body of that header.
LEMMA ReadWhole ==
    ASSUME TypeOK, PacketsWhole, wire # <<>>, wire' = Tail(wire)
    PROVE  /\ PacketsWhole' /\ wire' \in Seq(Chunk)
           /\ Head(wire).part = "header" /\ HasBody(Head(wire).op) =>
                wire' # <<>> /\ Head(wire') = [part |-> "body", op |-> Head(wire).op]
           /\ ~(Head(wire).part = "header" /\ HasBody(Head(wire).op)) /\ wire' # <<>> =>
                Head(wire').part = "header"
<1>1. PacketsWhole'
  <2> SUFFICES ASSUME NEW i \in DOMAIN Tail(wire)
               PROVE  LET here == Tail(wire)[i].part = "header" /\ HasBody(Tail(wire)[i].op)
                      IN /\ here => /\ i + 1 \in DOMAIN Tail(wire)
                                    /\ Tail(wire)[i + 1] = [part |-> "body", op |-> Tail(wire)[i].op]
                         /\ ~here /\ i + 1 \in DOMAIN Tail(wire) =>
                              Tail(wire)[i + 1].part = "header"
    BY DEF PacketsWhole, HeaderAt
  <2>1. i + 1 \in DOMAIN wire /\ Tail(wire)[i] = wire[i + 1]
    BY WireHead
  <2>2. (i + 1) + 1 \in DOMAIN wire => i + 1 \in DOMAIN Tail(wire)
    BY <2>1, WireHead DEF TypeOK
  <2>3. i + 1 \in DOMAIN Tail(wire) =>
          (i + 1) + 1 \in DOMAIN wire /\ Tail(wire)[i + 1] = wire[(i + 1) + 1]
    BY WireHead
  <2>4. QED
    BY <2>1, <2>2, <2>3 DEF PacketsWhole, HeaderAt
<1>2. Head(wire) = wire[1] /\ 1 \in DOMAIN wire /\ wire' \in Seq(Chunk)
  BY WireHead
<1>3. wire' # <<>> <=> 1 + 1 \in DOMAIN wire
  BY <1>2, WireHead, EmptySeq DEF TypeOK
<1>4. wire' # <<>> => Head(wire') = wire[1 + 1]
  BY DEF TypeOK
<1>5. QED
  BY <1>1, <1>2, <1>3, <1>4 DEF PacketsWhole, HeaderAt

LEMMA PacketShape ==
    ASSUME NEW op \in Opcodes
    PROVE  /\ Packet(op) \in Seq(Chunk) /\ Packet(op) # <<>>
           /\ Packet(op)[1] = [part |-> "header", op |-> op]
           /\ Len(Packet(op)) = IF HasBody(op) THEN 2 ELSE 1
           /\ HasBody(op) => Packet(op)[2] = [part |-> "body", op |-> op]
<1>1. [part |-> "header", op |-> op] \in Chunk /\ [part |-> "body", op |-> op] \in Chunk
  BY DEF Chunk
<1>2. QED
  BY <1>1 DEF Packet

\* What the server sends is whole.
LEMMA SendWhole ==
    ASSUME TypeOK, PacketsWhole, NEW op \in Opcodes, wire' = wire \o Packet(op)
    PROVE  PacketsWhole' /\ wire' \in Seq(Chunk)
<1> DEFINE p == Packet(op)
           n == Len(wire)
<1>1. p \in Seq(Chunk) /\ wire \in Seq(Chunk) /\ n \in Nat /\ Len(p) \in Nat
  BY PacketShape, LenProperties DEF TypeOK
<1> HIDE DEF p
<1>2. /\ wire' \in Seq(Chunk) /\ Len(wire') = n + Len(p)
      /\ \A i \in 1 .. n : wire'[i] = wire[i]
      /\ \A i \in 1 .. Len(p) : wire'[n + i] = p[i]
  <2>1. wire' = wire \o p
    BY DEF p
  <2>2. /\ wire \o p \in Seq(Chunk) /\ Len(wire \o p) = n + Len(p)
        /\ \A i \in 1 .. n + Len(p) : (wire \o p)[i] = IF i <= n THEN wire[i] ELSE p[i - n]
    BY <1>1, ConcatProperties
  <2>3. QED
    BY <1>1, <2>1, <2>2
<1>3. /\ p[1] = [part |-> "header", op |-> op]
      /\ Len(p) = IF HasBody(op) THEN 2 ELSE 1
      /\ HasBody(op) => p[2] = [part |-> "body", op |-> op]
  BY PacketShape DEF p
<1> HIDE DEF n
<1>4. n = Len(wire)
  BY DEF n
<1>5. wire'[n + 1] = [part |-> "header", op |-> op]
  BY <1>1, <1>2, <1>3
<1>6. HasBody(op) => Len(wire') = n + 2 /\ wire'[(n + 1) + 1] = [part |-> "body", op |-> op]
  <2>1. CASE HasBody(op)
    <3>1. Len(p) = 2 /\ wire'[n + 2] = p[2] /\ (n + 1) + 1 = n + 2
      BY <1>1, <1>2, <1>3, <2>1
    <3>2. QED
      BY <1>1, <1>2, <1>3, <2>1, <3>1
  <2>2. QED
    BY <2>1
<1>7. ~HasBody(op) => Len(wire') = n + 1
  BY <1>1, <1>2, <1>3
<1>8. ASSUME NEW i \in DOMAIN wire'
      PROVE  LET here == wire'[i].part = "header" /\ HasBody(wire'[i].op)
             IN /\ here => i + 1 \in DOMAIN wire' /\ wire'[i + 1] = [part |-> "body", op |-> wire'[i].op]
                /\ ~here /\ i + 1 \in DOMAIN wire' => wire'[i + 1].part = "header"
  <2>1. i \in 1 .. Len(wire') /\ DOMAIN wire' = 1 .. Len(wire') /\ DOMAIN wire = 1 .. n
    BY <1>1, <1>2, <1>4
  <2>2. CASE i < n
    <3>1. i \in DOMAIN wire /\ i + 1 \in DOMAIN wire /\ i + 1 \in DOMAIN wire'
      BY <1>1, <1>2, <1>3, <2>1, <2>2
    <3>2. wire'[i] = wire[i] /\ wire'[i + 1] = wire[i + 1]
      BY <1>1, <1>2, <2>1, <3>1
    <3>3. QED
      BY <3>1, <3>2 DEF PacketsWhole, HeaderAt
  <2>3. CASE i = n
    <3>1. n \in DOMAIN wire /\ n + 1 \notin DOMAIN wire /\ wire'[n] = wire[n]
      BY <1>1, <1>2, <2>1, <2>3
    <3>2. ~HeaderAt(n)
      BY <3>1 DEF PacketsWhole
    <3>3. QED
      BY <1>5, <2>3, <3>1, <3>2 DEF HeaderAt
  <2>4. CASE i = n + 1
    <3>1. CASE HasBody(op)
      BY <1>1, <1>2, <1>5, <1>6, <2>1, <2>4, <3>1
    <3>2. CASE ~HasBody(op)
      BY <1>1, <1>2, <1>5, <1>7, <2>1, <2>4, <3>2
    <3>3. QED
      BY <3>1, <3>2
  <2>5. CASE i = n + 2
    <3>1. HasBody(op) /\ Len(wire') = n + 2
      BY <1>1, <1>2, <1>6, <1>7, <2>1, <2>5
    <3>2. wire'[i].part = "body" /\ i + 1 \notin DOMAIN wire'
      BY <1>1, <1>2, <1>6, <2>1, <2>5, <3>1
    <3>3. QED
      BY <3>2
  <2>6. i < n \/ i = n \/ i = n + 1 \/ i = n + 2
    <3>1. Len(wire') = n + 1 \/ Len(wire') = n + 2
      BY <1>6, <1>7
    <3>2. i \in Nat /\ i <= Len(wire')
      BY <1>1, <1>2, <2>1
    <3>3. QED
      BY <1>1, <3>1, <3>2
  <2>7. QED
    BY <2>2, <2>3, <2>4, <2>5, <2>6
<1>9. QED
  BY <1>1, <1>2, <1>8 DEF PacketsWhole, HeaderAt
-----------------------------------------------------------------------------
(* Connecting and losing the connection.                                    *)

LEMMA EmptyWire ==
    ASSUME wire' = <<>>
    PROVE  PacketsWhole' /\ wire' \in Seq(Chunk) /\ DOMAIN wire' = {}
<1>1. DOMAIN wire' = {}
  OBVIOUS
<1>2. QED
  BY <1>1, EmptySeq DEF PacketsWhole

LEMMA LinkSteps ==
    ASSUME NetInv, Launch \/ DidDisconnect \/ Reconnect \/ Crash
    PROVE  NetInv'
<1> USE TypeParts
<1>1. PacketsWhole' /\ wire' \in Seq(Chunk) /\ DOMAIN wire' = {} /\ Flags'
  <2>1. wire' = <<>>
    BY DEF Launch, DidDisconnect, Reconnect, Crash, connect
  <2>2. Flags'
    BY DEF Launch, DidDisconnect, Reconnect, Crash, connect, NetInv, TypeOK, Flags
  <2>3. QED
    BY <2>1, <2>2, EmptyWire
<1>2. CASE Launch
  <2>1. Fields'
    BY <1>2 DEF Launch, connect, NetInv, Fields
  <2>2. Idle' /\ InStep'
    BY <1>2 DEF Launch, connect, NetInv, Idle, InStep, Online
  <2>3. OnScreen'
    BY <1>1, <1>2 DEF Launch, connect, OnScreen, ScreenMeansNoConnection
  <2>4. QED
    BY <1>1, <2>1, <2>2, <2>3 DEF NetInv
<1>3. CASE DidDisconnect
  <2>1. Fields'
    BY <1>3 DEF DidDisconnect, Present, Presented, NetInv, Fields, Idle
  <2>2. Idle' /\ InStep'
    BY <1>3 DEF DidDisconnect, NetInv, Idle, InStep, Online
  <2>3. OnScreen'
    BY <1>1, <1>3 DEF DidDisconnect, Present, Presented, NetInv, OnScreen,
         ScreenMeansNoConnection
  <2>4. QED
    BY <1>1, <2>1, <2>2, <2>3 DEF NetInv
<1>4. CASE Reconnect
  <2>1. retries = 1 /\ retries' = 0
    BY <1>4 DEF Reconnect, NetInv, Idle
  <2>2. Fields'
    BY <1>4, <2>1 DEF Reconnect, connect, NetInv, Fields
  <2>3. Idle' /\ InStep'
    BY <1>4, <2>1 DEF Reconnect, connect, NetInv, Idle, InStep, Online
  <2>4. OnScreen'
    BY <1>1, <1>4 DEF Reconnect, connect, NetInv, OnScreen, ScreenMeansNoConnection
  <2>5. QED
    BY <1>1, <2>2, <2>3, <2>4 DEF NetInv
<1>5. CASE Crash
  <2>1. Fields'
    BY <1>5 DEF Crash, Fields
  <2>2. Idle' /\ InStep'
    BY <1>5 DEF Crash, Idle, InStep, Online
  <2>3. OnScreen'
    BY <1>1, <1>5 DEF Crash, OnScreen, ScreenMeansNoConnection
  <2>4. QED
    BY <1>1, <2>1, <2>2, <2>3 DEF NetInv
<1>6. QED
  BY <1>2, <1>3, <1>4, <1>5

\* The wire is empty when a connection is made, so nothing has been read of it.
LEMMA ConnectStep ==
    ASSUME NetInv, DidConnect
    PROVE  NetInv'
<1>1. wire' = wire /\ wire = <<>>
  BY DEF DidConnect, NetInv, Idle, Online
<1>2. PacketsWhole' /\ wire' \in Seq(Chunk) /\ DOMAIN wire' = {}
  BY <1>1, EmptyWire
<1>3. TypeOK' /\ Idle' /\ InStep'
  BY <1>1, <1>2 DEF DidConnect, NetInv, TypeOK, Idle, InStep, Online
<1>4. OnScreen'
  BY <1>2 DEF DidConnect, NetInv, Idle, OnScreen, ScreenMeansNoConnection
<1>5. QED
  BY <1>2, <1>3, <1>4 DEF NetInv

LEMMA ScreenStep ==
    ASSUME NetInv, LeaveStart \/ Dismissed
    PROVE  NetInv'
<1>1. UNCHANGED <<socket, retries, wire, reading, tmp, greeted>> /\ wrote' = FALSE
  BY DEF LeaveStart, Dismissed
<1>2. Idle' /\ PacketsWhole' /\ InStep'
  BY <1>1 DEF NetInv, Idle, PacketsWhole, HeaderAt, InStep, Online
<1>3. TypeOK'
  BY <1>1 DEF LeaveStart, Dismissed, NetInv, TypeOK
<1>4. OnScreen'
  BY <1>1 DEF LeaveStart, Dismissed, NetInv, OnScreen, ScreenMeansNoConnection
<1>5. QED
  BY <1>2, <1>3, <1>4 DEF NetInv
-----------------------------------------------------------------------------
(* Sending and reading.                                                     *)

\* What is sent is put behind what is on the way, and is all of one packet.
LEMMA SentOps ==
    ASSUME TypeOK, NEW op \in Opcodes, wire' = wire \o Packet(op)
    PROVE  /\ \A i \in DOMAIN wire : wire'[i] = wire[i]
           /\ \A i \in DOMAIN wire' : i \in DOMAIN wire \/ wire'[i].op = op
<1> DEFINE p == Packet(op)
<1>1. p \in Seq(Chunk) /\ wire \in Seq(Chunk)
  BY PacketShape DEF TypeOK
<1>2. \A i \in DOMAIN p : p[i].op = op
  BY DEF Packet
<1> HIDE DEF p
<1>3. wire' = wire \o p
  BY DEF p
<1>4. /\ Len(wire') = Len(wire) + Len(p)
      /\ \A i \in 1 .. Len(wire) + Len(p) :
           wire'[i] = IF i <= Len(wire) THEN wire[i] ELSE p[i - Len(wire)]
      /\ wire' \in Seq(Chunk)
  BY <1>1, <1>3, ConcatProperties
<1>5. /\ DOMAIN wire = 1 .. Len(wire) /\ DOMAIN wire' = 1 .. Len(wire) + Len(p)
      /\ DOMAIN p = 1 .. Len(p) /\ Len(wire) \in Nat /\ Len(p) \in Nat
  BY <1>1, <1>4, LenProperties
<1>6. ASSUME NEW i \in DOMAIN wire', i \notin DOMAIN wire
      PROVE  wire'[i].op = op
  <2>1. i - Len(wire) \in DOMAIN p /\ ~(i <= Len(wire))
    BY <1>5, <1>6
  <2>2. wire'[i] = p[i - Len(wire)]
    BY <1>4, <1>5, <2>1
  <2>3. QED
    BY <1>2, <2>1, <2>2
<1>7. QED
  BY <1>4, <1>5, <1>6

\* The first packet of a connection is the greeting.
LEMMA SendStep ==
    ASSUME NetInv, NEW op \in Opcodes, ServerSends(op)
    PROVE  NetInv'
<1> USE DEF NetInv
<1>1. /\ socket = "connected" /\ wire' = wire \o Packet(op)
      /\ UNCHANGED <<socket, retries, reading, tmp, noNetworkVC, covered, wrote, greeted>>
      /\ op = "SMSG_CONNECTED" <=> ~IsGreeted
      /\ op \in Beyond => covered
  BY DEF ServerSends
<1>2. PacketsWhole' /\ wire' \in Seq(Chunk)
  BY <1>1, SendWhole
<1>3. TypeOK'
  BY <1>1, <1>2 DEF TypeOK
<1>4. /\ wire' # <<>>
      /\ wire # <<>> => Head(wire') = Head(wire)
      /\ wire = <<>> => Head(wire') = [part |-> "header", op |-> op]
  <2> DEFINE p == Packet(op)
  <2>1. p \in Seq(Chunk) /\ p # <<>> /\ p[1] = [part |-> "header", op |-> op]
    BY PacketShape
  <2>2. wire' = wire \o p /\ wire \in Seq(Chunk)
    BY <1>1 DEF TypeOK
  <2> HIDE DEF p
  <2>3. QED
    BY <2>1, <2>2
<1>5. wire = <<>> /\ ~greeted => op = "SMSG_CONNECTED"
  BY <1>1 DEF IsGreeted
<1>6. Idle'
  BY <1>1 DEF Idle, Online
<1>7. InStep'
  BY <1>1, <1>4, <1>5 DEF InStep
<1>8. \A i \in DOMAIN wire' : HasBody(wire'[i].op) => covered
  <2>1. HasBody(op) => covered
    BY <1>1 DEF HasBody, Beyond
  <2>2. \A i \in DOMAIN wire' : i \in DOMAIN wire \/ wire'[i].op = op
    BY <1>1, SentOps
  <2>3. \A i \in DOMAIN wire : wire'[i] = wire[i]
    BY <1>1, SentOps
  <2>4. QED
    BY <2>1, <2>2, <2>3 DEF OnScreen
<1>9. OnScreen'
  BY <1>1, <1>8 DEF OnScreen, ScreenMeansNoConnection
<1>10. QED
  BY <1>2, <1>3, <1>6, <1>7, <1>9

\* The rest of the connection after a packet has been handled.
LEMMA NextHeaderStep ==
    ASSUME NetInv, socket = "connected", wire # <<>>, socket' \in {"connected", "closing"},
           retries' = retries, noNetworkVC' \in {"nil", "shown", "dismissing", "refused"},
           noNetworkVC' = "shown" => noNetworkVC = "shown" /\ greeted,
           noNetworkVC' = "dismissing" => noNetworkVC \in {"shown", "dismissing"},
           wrote' \in BOOLEAN, NextHeader,
           ~(Head(wire).part = "header" /\ HasBody(Head(wire).op))
    PROVE  NetInv'
<1> USE DEF NetInv
<1>1. /\ wire' = Tail(wire) /\ tmp' = NoPacket /\ reading' = "header"
      /\ greeted' = (greeted \/ Head(wire).op = "SMSG_CONNECTED") /\ covered' = covered
  BY DEF NextHeader
<1>2. /\ PacketsWhole' /\ wire' \in Seq(Chunk)
      /\ wire' # <<>> => Head(wire').part = "header"
  BY <1>1, ReadWhole
<1>3. Fields'
  BY <1>1 DEF TypeOK, Fields
<1>4. greeted' = TRUE
  <2>1. ~greeted => Head(wire).op = "SMSG_CONNECTED"
    BY DEF InStep
  <2>2. QED
    BY <1>1, <2>1
<1>5. Flags'
  BY <1>1, <1>4 DEF TypeOK, Flags
<1>6. Idle'
  BY <1>1, <1>4 DEF Idle, Online
<1>7. InStep'
  BY <1>1, <1>2, <1>4 DEF InStep
<1>8. \A i \in DOMAIN wire' : HasBody(wire'[i].op) => covered'
  BY <1>1, WireHead DEF OnScreen
<1>9. OnScreen'
  BY <1>1, <1>4, <1>8 DEF OnScreen, ScreenMeansNoConnection
<1>10. QED
  BY <1>2, <1>3, <1>5, <1>6, <1>7, <1>9, TypeParts

LEMMA HandleStep ==
    ASSUME NetInv, socket = "connected", wire # <<>>, NEW op, startPacketReading(op),
           ~(Head(wire).part = "header" /\ HasBody(Head(wire).op)),
           op = IF tmp = NoPacket THEN Head(wire).op ELSE tmp
    PROVE  NetInv'
<1>1. CASE Crash
  BY <1>1, LinkSteps
<1>2. CASE ~Crash
  <2>1. /\ NextHeader /\ socket' \in {"connected", "closing"} /\ retries' = retries
        /\ IF op = "SMSG_CONNECTED" THEN nilOutDisconnectedVC ELSE UNCHANGED noNetworkVC
        /\ wrote' \in BOOLEAN
    BY <1>2 DEF startPacketReading, Disconnect, Replies, Lists
  <2>2. /\ noNetworkVC' \in {"nil", "shown", "dismissing", "refused"}
        /\ noNetworkVC' = "dismissing" => noNetworkVC \in {"shown", "dismissing"}
        /\ noNetworkVC' = "shown" => noNetworkVC = "shown" /\ UNCHANGED noNetworkVC
    BY <2>1 DEF nilOutDisconnectedVC, NetInv, TypeOK
  <2>3. ASSUME noNetworkVC' = "shown"
        PROVE  greeted
    <3>1. op # "SMSG_CONNECTED"
      BY <2>1, <2>2, <2>3 DEF nilOutDisconnectedVC
    <3>2. tmp = NoPacket
      BY <2>2, <2>3 DEF NetInv, OnScreen
    <3>3. ~greeted => Head(wire) = [part |-> "header", op |-> "SMSG_CONNECTED"]
      BY DEF NetInv, InStep
    <3>4. QED
      BY <3>1, <3>2, <3>3
  <2>4. QED
    BY <2>1, <2>2, <2>3, NextHeaderStep
<1>3. QED
  BY <1>1, <1>2

LEMMA HeaderStep ==
    ASSUME NetInv, ReadHeader
    PROVE  NetInv'
<1> USE DEF NetInv
<1>1. /\ socket = "connected" /\ wire # <<>> /\ tmp = NoPacket
      /\ Head(wire).part = "header" /\ reading = "header"
      /\ Head(wire) \in Chunk
  <2>1. socket = "connected" /\ wire # <<>> /\ tmp = NoPacket
    BY DEF ReadHeader
  <2>2. reading \in {"header", "body"} /\ Head(wire) \in Chunk
    BY <2>1, WireHead DEF Idle, Online, TypeOK
  <2>3. reading # "body"
    <3>1. reading = "body" => Head(wire).op = NoPacket
      BY <2>1 DEF InStep
    <3>2. NoPacket \notin Opcodes
      BY DEF NoPacket, Opcodes, Replies, Lists
    <3>3. QED
      BY <2>2, <3>1, <3>2 DEF Chunk
  <2>4. QED
    BY <2>1, <2>2, <2>3 DEF InStep
<1>2. CASE ~HasBody(Head(wire).op)
  BY <1>1, <1>2, HandleStep DEF ReadHeader, BodyFollows
<1>3. CASE HasBody(Head(wire).op)
  <2>1. /\ tmp' = Head(wire).op /\ reading' = "body" /\ wire' = Tail(wire)
        /\ wrote' = FALSE
        /\ UNCHANGED <<socket, retries, noNetworkVC, covered, greeted>>
    BY <1>3 DEF ReadHeader, BodyFollows
  <2>2. /\ PacketsWhole' /\ wire' \in Seq(Chunk)
        /\ wire' # <<>> /\ Head(wire') = [part |-> "body", op |-> Head(wire).op]
    BY <1>1, <1>3, <2>1, ReadWhole
  <2>3. greeted
    <3>1. ~greeted => Head(wire).op = "SMSG_CONNECTED"
      BY <1>1 DEF InStep
    <3>2. ~HasBody("SMSG_CONNECTED")
      BY DEF HasBody, Lists
    <3>3. QED
      BY <1>3, <3>1, <3>2
  <2>4. Fields'
    BY <1>1, <2>1 DEF TypeOK, Fields, Chunk
  <2>5. Flags'
    BY <2>1 DEF TypeOK, Flags
  <2>6. Idle'
    BY <1>1, <2>1 DEF Idle, Online
  <2>7. InStep'
    BY <1>1, <1>3, <2>1, <2>2, <2>3 DEF InStep
  <2>8. covered /\ \A i \in DOMAIN wire' : HasBody(wire'[i].op) => covered'
    BY <1>1, <1>3, <2>1, WireHead DEF OnScreen
  <2>9. OnScreen'
    BY <2>1, <2>8 DEF OnScreen, ScreenMeansNoConnection
  <2>10. QED
    BY <2>2, <2>4, <2>5, <2>6, <2>7, <2>9, TypeParts
<1>4. QED
  BY <1>2, <1>3

\* What follows a header that has been read: its body, or on a new connection the
\* greeting.
LEMMA BodyOrGreeting ==
    ASSUME NetInv, socket = "connected", wire # <<>>, tmp # NoPacket
    PROVE  Head(wire) \in {[part |-> "body", op |-> tmp],
                           [part |-> "header", op |-> "SMSG_CONNECTED"]}
<1>1. reading \in {"header", "body"}
  BY DEF NetInv, Idle, Online, TypeOK
<1>2. QED
  BY <1>1 DEF NetInv, InStep

LEMMA BodyStep ==
    ASSUME NetInv, ReadBody
    PROVE  NetInv'
<1>1. socket = "connected" /\ wire # <<>> /\ tmp # NoPacket /\ startPacketReading(tmp)
  BY DEF ReadBody
<1>2. ~(Head(wire).part = "header" /\ HasBody(Head(wire).op))
  BY <1>1, BodyOrGreeting DEF HasBody, Lists
<1>3. QED
  BY <1>1, <1>2, HandleStep
-----------------------------------------------------------------------------
(* Together.                                                                *)

LEMMA InitNet == Init => NetInv
<1> SUFFICES ASSUME Init
             PROVE  NetInv
  OBVIOUS
<1>1. wire \in Seq(Chunk) /\ PacketsWhole
  <2>1. wire = <<>> /\ DOMAIN wire = {}
    BY DEF Init
  <2>2. QED
    BY <2>1, EmptySeq DEF PacketsWhole
<1>2. Fields
  BY DEF Init, Fields
<1>3. Flags
  BY DEF Init, Flags
<1>4. Idle /\ InStep
  BY DEF Init, Idle, InStep, Online
<1>5. OnScreen
  <2>1. DOMAIN wire = {}
    BY DEF Init
  <2>2. QED
    BY <2>1 DEF Init, OnScreen, ScreenMeansNoConnection
<1>6. QED
  BY <1>1, <1>2, <1>3, <1>4, <1>5, TypeParts DEF NetInv

LEMMA NextNet ==
    ASSUME NetInv, [Next]_vars
    PROVE  NetInv'
<1>1. CASE UNCHANGED vars
  BY <1>1 DEF vars, NetInv, TypeOK, Idle, PacketsWhole, HeaderAt, InStep, Online, OnScreen,
       ScreenMeansNoConnection
<1>2. CASE Launch \/ DidDisconnect \/ Reconnect
  BY <1>2, LinkSteps
<1>3. CASE DidConnect
  BY <1>3, ConnectStep
<1>4. CASE LeaveStart \/ Dismissed
  BY <1>4, ScreenStep
<1>5. CASE \E op \in Opcodes : ServerSends(op)
  BY <1>5, SendStep
<1>6. CASE ReadHeader \/ ReadBody
  BY <1>6, HeaderStep, BodyStep
<1>7. QED
  BY <1>1, <1>2, <1>3, <1>4, <1>5, <1>6 DEF Next

LEMMA NetInvariant == Spec => []NetInv
  BY InitNet, NextNet, PTL DEF Spec

\* The client's state is always of its type; in particular no second retry is queued.
THEOREM ClientTyped == Spec => []TypeOK
<1>1. NetInv => TypeOK
  BY DEF NetInv
<1>2. QED
  BY <1>1, NetInvariant, PTL

\* There is always exactly one thing under way towards a connection: a retry never
\* replaces a socket in use, and the client never stops trying.
THEOREM OneConnectionOnly == Spec => []OneConnection
<1>1. NetInv => OneConnection
  BY DEF NetInv, Idle, OneConnection
<1>2. QED
  BY <1>1, NetInvariant, PTL

\* However much the server has sent and wherever the connection before broke, the
\* pending read has the length of what comes next.
THEOREM ReadsNeverSlip == Spec => []ReadsInStep
<1>1. NetInv => ReadsInStep
  <2> SUFFICES ASSUME NetInv, wire # <<>>
               PROVE  Head(wire).part = reading
    BY DEF ReadsInStep
  <2>1. reading \in {"header", "body"}
    BY DEF NetInv, Idle, TypeOK
  <2>2. QED
    BY <2>1 DEF NetInv, InStep
<1>2. QED
  BY <1>1, NetInvariant, PTL

\* Wherever the connection before broke, a connection that has been greeted is not under the
\* "Reestablishing Connection..." screen: whoever can be sent a packet that is cut off is
\* past the one screen over which it is shown.
THEOREM ScreenComesDown == Spec => []ScreenMeansNoConnection
<1>1. NetInv => ScreenMeansNoConnection
  BY DEF NetInv, OnScreen
<1>2. QED
  BY <1>1, NetInvariant, PTL

\* A probe is consumed only by reading it as a packet of its own.
LEMMA ProbeRead ==
    ASSUME NetInv, Next, wire # <<>>, wire' = Tail(wire), Head(wire).op = "SMSG_KEEP_ALIVE",
           socket = "connected", socket' = "connected"
    PROVE  wrote'
<1>1. ~HasBody("SMSG_KEEP_ALIVE")
  BY DEF HasBody, Lists
<1>2. Len(wire) \in Nat \ {0} /\ Len(wire') = Len(wire) - 1
  BY EmptySeq, WireHead DEF NetInv, TypeOK
<1>3. CASE UNCHANGED wire
  BY <1>2, <1>3
<1>4. ASSUME NEW op \in Opcodes, ServerSends(op)
      PROVE  FALSE
  <2>1. wire' = wire \o Packet(op)
    BY <1>4 DEF ServerSends
  <2>2. Len(wire') = Len(wire) + Len(Packet(op)) /\ Len(Packet(op)) \in Nat
    BY <2>1, PacketShape, ConcatProperties, LenProperties DEF NetInv, TypeOK
  <2>3. QED
    BY <1>2, <2>2
<1>5. CASE Launch \/ DidDisconnect \/ Reconnect
  BY <1>5 DEF Launch, DidDisconnect, Reconnect, connect
<1>6. CASE ReadHeader
  <2>1. startPacketReading("SMSG_KEEP_ALIVE")
    BY <1>1, <1>6 DEF ReadHeader, BodyFollows
  <2>2. QED
    BY <2>1, <1>1 DEF startPacketReading, Crash, Lists
<1>7. CASE ReadBody
  <2>1. /\ Head(wire) \in {[part |-> "body", op |-> tmp],
                           [part |-> "header", op |-> "SMSG_CONNECTED"]}
        /\ HasBody(tmp)
    BY <1>7, BodyOrGreeting DEF ReadBody, NetInv, InStep
  <2>2. Head(wire).op = tmp \/ Head(wire).op = "SMSG_CONNECTED"
    BY <2>1
  <2>3. QED
    BY <1>1, <2>1, <2>2
<1>8. QED
  BY <1>3, <1>4, <1>5, <1>6, <1>7 DEF Next, DidConnect, LeaveStart, Dismissed

\* Every probe that is read is answered: what a cut-off packet costs the client on the
\* next connection is the greeting, never a probe.
THEOREM EveryProbeAnswered == Spec => ProbesAnswered
<1>1. NetInv /\ [Next]_vars =>
        [wire # <<>> /\ wire' = Tail(wire) /\ Head(wire).op = "SMSG_KEEP_ALIVE"
           /\ socket = "connected" /\ socket' = "connected" => wrote']_vars
  BY ProbeRead
<1>2. QED
  BY InitNet, NextNet, <1>1, PTL DEF Spec, ProbesAnswered
=============================================================================
