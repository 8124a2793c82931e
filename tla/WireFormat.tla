----------------------------- MODULE WireFormat -----------------------------
(***************************************************************************)
(* The bytes between the app and the chat server.  Texts follow each other *)
(* with their lengths before them, one byte each.  The app writes a length *)
(* as a character of a string, which is more bytes in UTF-8 when it is not *)
(* ASCII, and reads it as a signed char; the server decodes what one       *)
(* recv() returns as one request and never looks at its LENGTH.            *)
(* Texts are ASCII and not empty, as the app asks for them.                *)
(***************************************************************************)
EXTENDS Integers, FiniteSets, Functions, Sequences, SequencesExt

CONSTANTS
    Half,       \* 128: the values of a char that are not negative, the ASCII characters
    Recv,       \* 1024, the bytes of one recv
    Segments,   \* how many bytes TCP delivers, other than to the end of a request
    NameRoom,   \* 50, for the name of a contact
    LoginRoom, ListRoom,    \* 1024 and 2048, for the texts of a reply
    Texts,      \* sequences of bytes below Half
    Rows,       \* numbers of contacts
    None, Undefined

VARIABLES
    sent,       \* the requests that have not been received in full
    cut,        \* how much of the first of them has
    request,    \* the first of the last delivery, None if only a part of it came
    got,        \* what the server takes the delivery for
    reply,      \* what it answers
    read        \* what the app reads

vars == <<sent, cut, request, got, reply, read>>

Byte == 2 * Half
Concat(texts) == FlattenSeq(texts)
\* Reading bytes from the offset i on; those after the last are not of this packet.
At(bytes, i) == IF i < Len(bytes) THEN bytes[i + 1] ELSE Undefined
Bytes(bytes, i, n) == IF i + n <= Len(bytes) THEN SubSeq(bytes, i + 1, i + n) ELSE Undefined
\* A string ends before its first NUL.
CString(bytes) ==
    LET nul == SelectInSeq(bytes, LAMBDA b : b = 0) IN IF nul = 0 THEN bytes ELSE SubSeq(bytes, 1, nul - 1)
-----------------------------------------------------------------------------
(* The app's requests: an opcode and texts. *)

CMSG_KEEP_ALIVE == 1
CMSG_LOGIN == 4
CMSG_REGISTER == 5
CMSG_ADD_CONTACT == 14
CMSG_DELETE_CONTACT == 16
CMSG_SEND_CHAT_MESSAGE == 17

Request(op, texts) == [op |-> op, texts |-> texts]

\* Registrations differ in one text from that of the shortest; the answer to a probe stands for
\* all requests without texts.
Requests ==
    LET short == CHOOSE t \in Texts : \A u \in Texts : Len(t) <= Len(u) IN
    {Request(CMSG_KEEP_ALIVE, <<>>)}
    \union {Request(op, <<t>>) : op \in {CMSG_ADD_CONTACT, CMSG_DELETE_CONTACT}, t \in Texts}
    \union {Request(op, <<t, u>>) : op \in {CMSG_LOGIN, CMSG_SEND_CHAT_MESSAGE}, t \in Texts, u \in Texts}
    \union {Request(CMSG_REGISTER, [j \in 1 .. 6 |-> IF j = i THEN t ELSE short]) : i \in 1 .. 6, t \in Texts}

\* "%c" of a length; one that is no ASCII character becomes several bytes, two here.
LengthByte(n) ==
    LET c == n % Byte IN IF c < Half THEN <<c>> ELSE <<Byte - 1 - (c % 2), Half + ((c \div 2) % Half)>>

\* Mutant: the length bytes are not counted.
BodyOfTexts(texts) == Len(Concat(texts))

\* packetBody.length, in characters
BodyLength(texts) == Len(Concat(texts)) + Len(texts)

\* packetBodyData, of which ConstructPacket copies as many bytes as the body has characters
Body(texts) ==
    SubSeq(Concat([i \in DOMAIN texts |-> LengthByte(Len(texts[i])) \o texts[i]]), 1, BodyLength(texts))

ConstructPacket(op, body) == <<op, Len(body) % Byte, (Len(body) \div Byte) % Byte>> \o body

Packet(r) == ConstructPacket(r.op, Body(r.texts))
-----------------------------------------------------------------------------
(* The server's reading of them. *)

\* Offset[j]: of the j-th text's length, the sum of those before it and their length bytes.
Offsets(data, k) ==
    LET Offset[j \in 1 .. k] ==
            IF j = 1 THEN 0
            ELSE IF Offset[j - 1] = Undefined \/ At(data, Offset[j - 1]) = Undefined THEN Undefined
            ELSE Offset[j - 1] + At(data, Offset[j - 1]) + 1
    IN Offset

\* Room for a text of this request; a contact's name is at most NameRoom, and its length signed.
RoomFor(op, j) ==
    CASE op \in {CMSG_ADD_CONTACT, CMSG_DELETE_CONTACT} -> IF NameRoom < Half THEN NameRoom ELSE Half
      [] op = CMSG_SEND_CHAT_MESSAGE /\ j = 1 -> NameRoom
      [] OTHER -> Byte

\* Whatever lies behind a NUL in a message is forwarded from an uninitialized buffer.
TextAt(data, op, j, i) ==
    IF i = Undefined \/ At(data, i) = Undefined \/ At(data, i) >= RoomFor(op, j) THEN Undefined
    ELSE LET text == Bytes(data, i + 1, At(data, i)) IN
         IF text = Undefined \/ (op = CMSG_SEND_CHAT_MESSAGE /\ j = 2 /\ 0 \in Range(text))
         THEN Undefined ELSE CString(text)

NumTexts(op) ==
    CASE op \in {CMSG_ADD_CONTACT, CMSG_DELETE_CONTACT} -> 1
      [] op \in {CMSG_LOGIN, CMSG_SEND_CHAT_MESSAGE} -> 2
      [] op = CMSG_REGISTER -> 6
      [] OTHER -> 0

\* DecodePacket, and what the opcode's handler takes from DATA
Decode(bytes) ==
    LET op == bytes[1]
        data == SubSeq(bytes, 4, Len(bytes))
        texts == [j \in 1 .. NumTexts(op) |-> TextAt(data, op, j, Offsets(data, NumTexts(op))[j])]
    IN Request(op, IF \E j \in DOMAIN texts : texts[j] = Undefined THEN Undefined ELSE texts)
-----------------------------------------------------------------------------
(* The server's replies, and the app's reading of them. *)

Field(text) == <<Len(text) % Byte>> \o text
Fields(texts) == Concat([i \in DOMAIN texts |-> Field(texts[i])])

\* sprintf with a string that is longer than the room for it does anything.
Printed(bytes, room) == IF Len(bytes) < room THEN bytes ELSE Undefined

SMSG_SUCCESSFUL_LOGIN(texts) ==
    LET buf == Printed(Fields(texts), LoginRoom) IN IF buf = Undefined THEN Undefined ELSE CString(buf)
SMSG_SEND_CONTACTS(rows) ==
    Printed(<<Len(rows) % Byte>> \o Concat([i \in DOMAIN rows |-> Fields(rows[i])]), ListRoom)
SMSG_SEND_CHAT_MESSAGE(texts) == Fields(texts)

\* The texts from an offset on. A negative length ends the app.
convertPacketDataToStringArray(data) ==
    LET From[i \in 0 .. Len(data)] ==
            IF i = Len(data) THEN <<>>
            ELSE LET n == At(data, i) IN
                 IF n >= Half \/ Bytes(data, i + 1, n) = Undefined THEN <<Undefined>>
                 ELSE <<CString(Bytes(data, i + 1, n))>> \o From[i + 1 + n]
    IN From[0]

\* The first n texts; objectAtIndex: throws when there are fewer.
FirstTexts(data, n) ==
    LET texts == convertPacketDataToStringArray(data) IN
    IF Undefined \in Range(texts) \/ Len(texts) < n THEN Undefined ELSE SubSeq(texts, 1, n)

ReadLogin(data) == IF data = Undefined THEN Undefined ELSE FirstTexts(data, 6)

\* The contacts, or None if the number is not positive.
ReadContacts(data) ==
    IF data = Undefined THEN Undefined
    ELSE IF data[1] \notin 1 .. Half - 1 THEN None
    ELSE LET texts == FirstTexts(Tail(data), 4 * data[1]) IN
         IF texts = Undefined THEN Undefined
         ELSE [i \in 1 .. data[1] |-> SubSeq(texts, 4 * i - 3, 4 * i)]

ReadMessage(data) == convertPacketDataToStringArray(data)
-----------------------------------------------------------------------------
\* The bytes on the way, and where among them each request ends.
Stream == Concat([i \in DOMAIN sent |-> Packet(sent[i])])
Ends == [i \in DOMAIN sent |-> Len(Concat([j \in 1 .. i |-> Packet(sent[j])]))]

\* The app writes; bounded to two requests on the way, the second with at most one text.
Write(r) ==
    /\ sent = <<>> \/ (Len(sent) = 1 /\ Len(r.texts) <= 1)
    /\ sent' = Append(sent, r)
    /\ request' = None /\ got' = None /\ reply' = None /\ read' = None
    /\ UNCHANGED cut

\* One recv of n bytes: a part of a request, one, or more. A message goes on to its receiver, with
\* the name of the account that sends it.
Receive(n) ==
    LET packet == Decode(SubSeq(Stream, cut + 1, cut + n))
        done == Cardinality({i \in DOMAIN sent : Ends[i] <= cut + n})
    IN /\ n \in Segments \/ cut + n \in Range(Ends)
       /\ n <= Len(Stream) - cut
       /\ sent' = SubSeq(sent, done + 1, Len(sent))
       /\ cut' = cut + n - (IF done = 0 THEN 0 ELSE Ends[done])
       /\ request' = IF cut = 0 /\ done > 0 THEN sent[1] ELSE None
       /\ got' = packet
       /\ IF packet.op = CMSG_SEND_CHAT_MESSAGE /\ packet.texts # Undefined
          THEN \E from \in Texts :
                /\ reply' = [kind |-> "message", texts |-> <<from, packet.texts[2]>>]
                /\ read' = ReadMessage(SMSG_SEND_CHAT_MESSAGE(<<from, packet.texts[2]>>))
          ELSE reply' = None /\ read' = None

\* Other replies share nothing with the requests, and are made while there are none on the way.
\* Their texts are all t but one.
Login(t, u) ==
    /\ sent = <<>>
    /\ \E i \in 1 .. 6 :
        LET account == [j \in 1 .. 6 |-> IF j = i THEN u ELSE t] IN
        /\ reply' = [kind |-> "login", texts |-> account]
        /\ read' = ReadLogin(SMSG_SUCCESSFUL_LOGIN(account))
    /\ request' = None /\ got' = None
    /\ UNCHANGED <<sent, cut>>

List(n, t, u) ==
    /\ sent = <<>>
    /\ \E i \in 1 .. 4 :
        LET rows == [k \in 1 .. n |-> [j \in 1 .. 4 |-> IF k = n /\ j = i THEN u ELSE t]] IN
        /\ reply' = [kind |-> "contacts", rows |-> rows]
        /\ read' = ReadContacts(SMSG_SEND_CONTACTS(rows))
    /\ request' = None /\ got' = None
    /\ UNCHANGED <<sent, cut>>

Init ==
    /\ sent = <<>> /\ cut = 0
    /\ request = None /\ got = None /\ reply = None /\ read = None

Next ==
    \/ \E r \in Requests : Write(r)
    \/ sent # <<>> /\ \E n \in 1 .. Recv : Receive(n)
    \/ \E t, u \in Texts : Login(t, u)
    \/ \E t, u \in Texts, n \in Rows : List(n, t, u)
-----------------------------------------------------------------------------
TypeOK ==
    /\ \A i \in DOMAIN sent : sent[i] \in Requests
    /\ Len(sent) <= 2 /\ cut \in 0 .. Len(Stream) /\ (sent # <<>> => cut < Ends[1])
    /\ request \in Requests \union {None}

Short(texts) == \A t \in Range(texts) : Len(t) < Half

\* A request that is the first of its delivery is read as it was written, if its texts are shorter
\* than Half, a name in it shorter than NameRoom, and all of it not longer than Recv.
RequestRead ==
    /\ request # None /\ Short(request.texts) /\ Len(Packet(request)) <= Recv
    /\ request.op \notin {CMSG_LOGIN, CMSG_REGISTER, CMSG_KEEP_ALIVE} => Len(request.texts[1]) < NameRoom
    => got = request

\* The app reads messages, the account of its login and a list of fewer than Half contacts as the
\* server has them, if the texts are shorter than Half and all of them fit the server's buffer.
ReplyRead ==
    reply # None =>
        CASE reply.kind = "message" -> Short(reply.texts) => read = reply.texts
          [] reply.kind = "login" ->
                Short(reply.texts) /\ Len(Fields(reply.texts)) < LoginRoom => read = reply.texts
          [] reply.kind = "contacts" ->
                /\ Len(reply.rows) < Half /\ \A i \in DOMAIN reply.rows : Short(reply.rows[i])
                /\ Len(Concat(Concat(reply.rows))) + 4 * Len(reply.rows) + 1 < ListRoom
                => read = IF reply.rows = <<>> THEN None ELSE reply.rows

\* What the app asks reaches the handler that it is for, text by text, and what the server
\* answers reaches the app, whatever of later requests TCP delivers with it.
TextsArrive == RequestRead /\ ReplyRead
=============================================================================
