------------------------------ MODULE Receive ------------------------------
(***************************************************************************)
(* Client::receive of server/Server.cpp for one connection: the loop that  *)
(* cuts the chunks read() returns into a header (type, length) and a       *)
(* payload, keeps the payload in recvBuffer until it is complete, and then *)
(* hands it on as a picture, a name or a focus request.                    *)
(*                                                                         *)
(* Memory is modelled in cells: an int takes IntSize cells, and a payload  *)
(* cell is <<id, k>>, the k-th cell of the frame with that id.  The client *)
(* is the environment: it sends frame after frame, and TCP cuts the stream *)
(* into chunks of any length up to MaxBuf.  The frame a header belongs to  *)
(* is chosen when the header is read.  The history variables frame, at and *)
(* sync say where in the stream the server really is; the code does not    *)
(* have them and decides by remainBytes alone.                             *)
(***************************************************************************)
EXTENDS Integers

CONSTANTS
    IntSize,        \* sizeof(int), in cells
    MaxBuf,         \* MAX_BUF, the most read() returns at once
    FrameId,        \* identities of frames, to tell their payloads apart
    Payload,        \* for each type a client sends, the payload lengths
    JunkHeader,     \* the <<type, length>> that arbitrary bytes read as
    SplitHeaders,   \* may a chunk end inside a header?
    SplitFocus      \* may a chunk end inside the payload of a focus frame?

\* Header types, Server.cpp 71-75; receive accepts any type from 0 to 10.
RECV_NAME == 2
CHANGE_FOCUS_STATUS == 4
RECV_IMAGE == 5
MaxType == 10

HeaderSize == 2 * IntSize

ASSUME ReceiveAssumption ==
    /\ IntSize \in Nat \ {0}
    /\ MaxBuf \in Nat \ {0}
    /\ FrameId \subseteq Nat \ {0}
    /\ DOMAIN Payload \subseteq Int
    /\ \A t \in DOMAIN Payload : Payload[t] \subseteq Nat
    /\ CHANGE_FOCUS_STATUS \in DOMAIN Payload =>
           Payload[CHANGE_FOCUS_STATUS] \subseteq {IntSize}
    /\ JunkHeader \subseteq Int \X Int
    /\ SplitHeaders \in BOOLEAN
    /\ SplitFocus \in BOOLEAN

FramesOf(t) == [id : FrameId, type : {t}, len : Payload[t]]
Frame == UNION {FramesOf(t) : t \in DOMAIN Payload}
NoFrame == [id |-> 0, type |-> 0, len |-> 0]

Junk == <<0, 0>>                          \* a cell nobody wrote
Fresh(n) == [i \in 0..n |-> Junk]         \* new char[n + 1]
NoBuffer == [i \in {} |-> Junk]           \* NULL
NoName == -1                              \* userNameSize while userName is NULL

VARIABLES
    chunkSize, chunkRead,        \* the chunk in hand and how far it is read
    header_type, header_length,  \* the last header
    remainBytes,                 \* payload still missing
    recvBuffer, recvOffset,      \* the payload collected so far
    jpegBuffer,                  \* the picture: its first jpegOffset cells
    userName, userNameSize,      \* the name, and the size of its array
    ready,                       \* what was stored in ready_fd
    status,                      \* open, closed (return -1), or killed
    frame, at, sync              \* history: see above

chunk == <<chunkSize, chunkRead>>
header == <<header_type, header_length>>
payload == <<remainBytes, recvBuffer, recvOffset>>
output == <<jpegBuffer, userName, ready>>
wire == <<frame, at, sync>>
vars == <<chunk, header, payload, output, userNameSize, status, wire>>

Init ==
    /\ chunkSize = 0 /\ chunkRead = 0
    /\ header_type = 0 /\ header_length = 0
    /\ remainBytes = -1
    /\ recvBuffer = NoBuffer /\ recvOffset = 0
    /\ jpegBuffer = NoBuffer
    /\ userName = NoBuffer /\ userNameSize = NoName
    /\ ready = NoBuffer
    /\ status = "open"
    /\ frame = NoFrame /\ at = 0 /\ sync = TRUE

Left == chunkSize - chunkRead

----------------------------------------------------------------------------
\* The environment.

\* n cells follow, of which the first rest complete the payload of f: the
\* chunk they end may end here.
Cut(f, n, rest) ==
    /\ SplitHeaders \/ n <= rest \/ n - rest >= HeaderSize
    /\ SplitFocus \/ f.type # CHANGE_FOCUS_STATUS \/ n = 0 \/ n >= rest

\* read() returns the next chunk and receive is called with it.
Arrive ==
    /\ status = "open"
    /\ Left <= 0
    /\ \E n \in 1..MaxBuf :
          /\ sync => Cut(frame, n, frame.len - at)
          /\ chunkSize' = n
    /\ chunkRead' = 0
    /\ UNCHANGED <<header, payload, output, userNameSize, status, wire>>

----------------------------------------------------------------------------
\* The header branch.

Valid(type) == type >= 0 /\ type <= MaxType

\* A type out of range: receive gives up and the connection is torn down.
RejectHeader(type) ==
    /\ ~Valid(type)
    /\ status' = "closed"
    /\ UNCHANGED <<payload, userNameSize>>

\* Faulty: the size of the name array leaves out the zero byte.
AllocateName_NoTerminator(len) ==
    \/ len >= 0 /\ userNameSize' = len /\ UNCHANGED status
    \/ len < 0 /\ status' = "killed" /\ UNCHANGED userNameSize

\* Faulty: a negative size goes unnoticed.
AllocateName_AnySize(len) == userNameSize' = len + 1 /\ UNCHANGED status

\* The name array is allocated once, for the first name; a negative size
\* throws out of operator new and ends the process.
AllocateName(len) ==
    \/ len >= -1 /\ userNameSize' = len + 1 /\ UNCHANGED status
    \/ len < -1 /\ status' = "killed" /\ UNCHANGED userNameSize

\* Faulty: recvOffset keeps its value from the frame before.
AcceptHeader_NoReset(type, len) ==
    /\ Valid(type)
    /\ remainBytes' = len
    /\ recvOffset' = recvOffset
    /\ recvBuffer' = IF len > 0 THEN Fresh(len) ELSE recvBuffer
    /\ IF type = RECV_NAME /\ userNameSize = NoName
       THEN AllocateName(len)
       ELSE UNCHANGED <<userNameSize, status>>

AcceptHeader(type, len) ==
    /\ Valid(type)
    /\ remainBytes' = len
    /\ recvOffset' = 0
    /\ recvBuffer' = IF len > 0 THEN Fresh(len) ELSE recvBuffer
    /\ IF type = RECV_NAME /\ userNameSize = NoName
       THEN AllocateName(len)
       ELSE UNCHANGED <<userNameSize, status>>

TakeHeader(type, len) ==
    /\ chunkRead' = chunkRead + HeaderSize
    /\ header_type' = type
    /\ header_length' = len
    /\ RejectHeader(type) \/ AcceptHeader(type, len)
    /\ UNCHANGED <<chunkSize, output>>

\* The cells the next header is read from really are a header.
AtHeader == sync /\ at = frame.len /\ Left >= HeaderSize

ReadHeader ==
    /\ status = "open"
    /\ Left > 0
    /\ remainBytes <= 0
    /\ AtHeader
    /\ \E f \in Frame :
          /\ f.id # frame.id
          /\ Cut(f, Left - HeaderSize, f.len)
          /\ TakeHeader(f.type, f.len)
          /\ frame' = f
    /\ at' = 0
    /\ UNCHANGED sync

\* The header is cut by the end of the chunk, and what lies behind the chunk
\* in its array is read for the missing cells; or the cells are not a header.
ReadJunkHeader ==
    /\ status = "open"
    /\ Left > 0
    /\ remainBytes <= 0
    /\ ~AtHeader
    /\ \E h \in JunkHeader : TakeHeader(h[1], h[2])
    /\ sync' = FALSE
    /\ UNCHANGED <<frame, at>>

----------------------------------------------------------------------------
\* The payload branch.

\* memcpy of the next n cells of the chunk to recvBuffer + recvOffset.
Copied(n) ==
    [i \in DOMAIN recvBuffer |->
        IF i < recvOffset \/ i >= recvOffset + n THEN recvBuffer[i]
        ELSE IF sync THEN <<frame.id, at + (i - recvOffset)>> ELSE Junk]

\* Faulty: remainBytes is not reduced.
Consume_NoRemain(n) ==
    /\ chunkRead' = chunkRead + n
    /\ UNCHANGED remainBytes
    /\ at' = IF sync THEN at + n ELSE at
    /\ UNCHANGED <<chunkSize, header, userNameSize, status, frame, sync>>

Consume(n) ==
    /\ chunkRead' = chunkRead + n
    /\ remainBytes' = remainBytes - n
    /\ at' = IF sync THEN at + n ELSE at
    /\ UNCHANGED <<chunkSize, header, userNameSize, status, frame, sync>>

\* Faulty: readSize is 0, the part is neither kept nor skipped.
ReadPart_Stays ==
    /\ status = "open"
    /\ Left > 0
    /\ remainBytes > Left
    /\ UNCHANGED vars

\* Faulty: only pictures survive the end of a chunk.
ReadPart_ImageOnly ==
    /\ status = "open"
    /\ Left > 0
    /\ remainBytes > Left
    /\ IF header_type = RECV_IMAGE
       THEN recvBuffer' = Copied(Left) /\ recvOffset' = recvOffset + Left
       ELSE UNCHANGED <<recvBuffer, recvOffset>>
    /\ Consume(Left)
    /\ UNCHANGED output

\* The payload goes on in the next chunk: only pictures and names are kept.
ReadPart ==
    /\ status = "open"
    /\ Left > 0
    /\ remainBytes > Left
    /\ IF header_type \in {RECV_IMAGE, RECV_NAME}
       THEN recvBuffer' = Copied(Left) /\ recvOffset' = recvOffset + Left
       ELSE UNCHANGED <<recvBuffer, recvOffset>>
    /\ Consume(Left)
    /\ UNCHANGED output

\* The first n cells of buffer b.
Taken(b, n) == [i \in 0..(n - 1) |-> IF i \in DOMAIN b THEN b[i] ELSE Junk]

HandOn ==
    /\ jpegBuffer' = IF header_type = RECV_IMAGE
                     THEN Taken(recvBuffer', recvOffset') ELSE jpegBuffer
    /\ userName' = IF header_type = RECV_NAME
                   THEN Taken(recvBuffer', recvOffset') ELSE userName
    /\ ready' = IF header_type = CHANGE_FOCUS_STATUS
                THEN Taken(recvBuffer', IntSize) ELSE ready

\* The rest of the payload is in the chunk.
ReadRest ==
    /\ status = "open"
    /\ remainBytes > 0
    /\ remainBytes <= Left
    /\ recvBuffer' = Copied(remainBytes)
    /\ recvOffset' = recvOffset + remainBytes
    /\ HandOn
    /\ Consume(remainBytes)

----------------------------------------------------------------------------
\* receive's loop runs to the end of the chunk; chunks need not arrive.
Loop == ReadHeader \/ ReadJunkHeader \/ ReadPart \/ ReadRest
Next == Arrive \/ Loop

Spec == Init /\ [][Next]_vars
FairSpec == Spec /\ WF_vars(Loop)

----------------------------------------------------------------------------
Cell == (FrameId \cup {0}) \X Nat
Buffer(b) == DOMAIN b \subseteq Nat /\ \A i \in DOMAIN b : b[i] \in Cell

\* Every variable has its type.
TypeOK ==
    /\ chunkSize \in Nat /\ chunkRead \in Nat
    /\ header_type \in Int /\ header_length \in Int
    /\ remainBytes \in Int /\ recvOffset \in Nat
    /\ Buffer(recvBuffer) /\ Buffer(jpegBuffer)
    /\ Buffer(userName) /\ Buffer(ready)
    /\ userNameSize \in Nat \cup {NoName}
    /\ status \in {"open", "closed", "killed"}
    /\ frame \in Frame \cup {NoFrame}
    /\ at \in Nat
    /\ sync \in BOOLEAN

\* The cells the payload branch is going to write with memcpy (410, 416, 430)
\* lie in the array the header branch allocated, whatever the stream and its
\* cuts are and however many chunks and frames came before.
RecvInBounds ==
    \A i \in recvOffset..(recvOffset + remainBytes - 1) : i \in DOMAIN recvBuffer

\* remainBytes, the only memory receive has of where it is in the stream,
\* agrees with the stream as long as no header was cut: the server takes for a
\* header what the client sent as one, and for payload what belongs to the
\* frame announced last.
Framed ==
    sync /\ status = "open" =>
            /\ remainBytes > 0 => /\ remainBytes = frame.len - at
                                  /\ header_type = frame.type
            /\ remainBytes <= 0 => at = frame.len

\* A name and the zero byte behind it fit the array allocated for names
\* (389-390, 459-461), as line 381 has it for the array of the payload.
NameFits ==
    userNameSize # NoName => \A i \in DOMAIN userName : i + 1 < userNameSize

\* receive returns: the chunk in hand is used up, or the connection is over.
ChunkConsumed == (Left > 0) ~> (Left <= 0 \/ status # "open")

----------------------------------------------------------------------------
\* What the buffers hold, as frames: the abstract view of Client::receive.

Garbled == [id |-> 0, type |-> -1, len |-> 0]

Content(type, b) ==
    IF b = NoBuffer THEN NoFrame
    ELSE LET f == CHOOSE g \in Frame :
                    /\ g.type = type
                    /\ b = [i \in 0..(g.len - 1) |-> <<g.id, i>>]
         IN  IF \E g \in Frame :
                    /\ g.type = type
                    /\ b = [i \in 0..(g.len - 1) |-> <<g.id, i>>]
             THEN f ELSE Garbled

\* A focus request names the client its sender named: what is stored in
\* ready_fd is the payload of one focus frame, also when that payload arrives
\* in two chunks (404-422, 464-468).
RequestsWhole == Content(CHANGE_FOCUS_STATUS, ready) # Garbled

Delivery == INSTANCE FrameDelivery WITH
    Frame   <- {f \in Frame : f.len > 0},
    cur     <- IF remainBytes > 0 THEN frame ELSE NoFrame,
    image   <- Content(RECV_IMAGE, jpegBuffer),
    name    <- Content(RECV_NAME, userName),
    request <- Content(CHANGE_FOCUS_STATUS, ready)

\* receive hands every picture, name and focus request on whole, once and in
\* order, and nothing else, when no header and no focus payload is cut
\* (353-480).
DeliversFrames == Delivery!Spec
=============================================================================
