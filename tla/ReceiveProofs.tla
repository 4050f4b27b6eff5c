--------------------------- MODULE ReceiveProofs ---------------------------
(***************************************************************************)
(* Proofs about Receive for all frames, payload lengths, chunk sizes and   *)
(* cuts: types, the bounds of the payload copies, the parser's position.   *)
(***************************************************************************)
EXTENDS Receive, TLAPS

\* A frame a client can send has a type and a length.
LEMMA FrameType ==
    \A f \in Frame : /\ f.id \in FrameId
                     /\ f.type \in DOMAIN Payload /\ f.type \in Int
                     /\ f.len \in Payload[f.type] /\ f.len \in Nat
  BY ReceiveAssumption DEF Frame, FramesOf

\* No frame at all has them too.
LEMMA WireType ==
    ASSUME frame \in Frame \cup {NoFrame}
    PROVE  frame.id \in FrameId \cup {0} /\ frame.type \in Int /\ frame.len \in Nat
  BY FrameType, ReceiveAssumption DEF NoFrame

\* A copy into recvBuffer leaves its size alone and writes cells.
LEMMA CopiedType ==
    ASSUME TypeOK, NEW n \in Nat
    PROVE  Buffer(Copied(n)) /\ DOMAIN Copied(n) = DOMAIN recvBuffer
  <1>1. ASSUME NEW i \in DOMAIN recvBuffer
        PROVE  Copied(n)[i] \in Cell
    BY WireType DEF TypeOK, Buffer, Cell, Copied, Junk
  <1> QED
    BY <1>1 DEF Buffer, Copied, TypeOK

\* So is what is taken from a buffer.
LEMMA TakenType ==
    ASSUME NEW b, Buffer(b), NEW n \in Nat
    PROVE  Buffer(Taken(b, n))
  BY DEF Buffer, Taken, Cell, Junk

\* Types hold initially.
LEMMA TypeInit == Init => TypeOK
  BY DEF Init, TypeOK, Buffer, NoBuffer, NoName

\* A header, real or not, leaves well-typed variables.
LEMMA TakeHeaderType ==
    ASSUME TypeOK, NEW type \in Int, NEW len \in Int, TakeHeader(type, len),
           frame' \in Frame \cup {NoFrame}, at' \in Nat, sync' \in BOOLEAN
    PROVE  TypeOK'
  <1>1. chunkRead' \in Nat
    BY ReceiveAssumption DEF TakeHeader, TypeOK, HeaderSize
  <1>2. Buffer(recvBuffer')
    BY DEF TakeHeader, RejectHeader, AcceptHeader, TypeOK, payload, Buffer,
           Fresh, Cell, Junk
  <1>3. remainBytes' \in Int /\ recvOffset' \in Nat
    BY DEF TakeHeader, RejectHeader, AcceptHeader, TypeOK, payload
  <1>4. /\ userNameSize' \in Nat \cup {NoName}
        /\ status' \in {"open", "closed", "killed"}
    BY DEF TakeHeader, RejectHeader, AcceptHeader, AllocateName, TypeOK, NoName
  <1> QED
    BY <1>1, <1>2, <1>3, <1>4 DEF TakeHeader, TypeOK, output

\* Every step of the loop and every chunk preserve the types.
LEMMA TypeStep == TypeOK /\ [Next]_vars => TypeOK'
  <1> SUFFICES ASSUME TypeOK, [Next]_vars PROVE TypeOK'
    OBVIOUS
  <1>1. CASE Arrive
    BY <1>1 DEF Arrive, TypeOK, header, payload, output, wire
  <1>2. CASE ReadHeader
    <2>1. PICK f \in Frame : TakeHeader(f.type, f.len) /\ frame' = f
      BY <1>2 DEF ReadHeader
    <2>2. at' \in Nat /\ sync' \in BOOLEAN
      BY <1>2 DEF ReadHeader, TypeOK
    <2> QED
      BY <2>1, <2>2, FrameType, TakeHeaderType
  <1>3. CASE ReadJunkHeader
    <2>1. PICK h \in JunkHeader : TakeHeader(h[1], h[2])
      BY <1>3 DEF ReadJunkHeader
    <2>2. h[1] \in Int /\ h[2] \in Int
      BY ReceiveAssumption
    <2>3. frame' \in Frame \cup {NoFrame} /\ at' \in Nat /\ sync' \in BOOLEAN
      BY <1>3 DEF ReadJunkHeader, TypeOK
    <2> QED
      BY <2>1, <2>2, <2>3, TakeHeaderType
  <1>4. CASE ReadPart
    <2>1. Left \in Nat
      BY <1>4 DEF ReadPart, Left, TypeOK
    <2>2. Buffer(recvBuffer') /\ recvOffset' \in Nat
      BY <1>4, <2>1, CopiedType DEF ReadPart, TypeOK
    <2>3. chunkRead' \in Nat /\ remainBytes' \in Int /\ at' \in Nat
      BY <1>4, <2>1 DEF ReadPart, Consume, TypeOK
    <2> QED
      BY <1>4, <2>2, <2>3 DEF ReadPart, Consume, TypeOK, header, output
  <1>5. CASE ReadRest
    <2>1. remainBytes \in Nat
      BY <1>5 DEF ReadRest, TypeOK
    <2>2. Buffer(recvBuffer') /\ recvOffset' \in Nat
      BY <1>5, <2>1, CopiedType DEF ReadRest, TypeOK
    <2>3. chunkRead' \in Nat /\ remainBytes' \in Int /\ at' \in Nat
      BY <1>5, <2>1 DEF ReadRest, Consume, TypeOK
    <2>4. Buffer(jpegBuffer') /\ Buffer(userName') /\ Buffer(ready')
      BY <1>5, <2>2, TakenType, ReceiveAssumption DEF ReadRest, HandOn, TypeOK
    <2> QED
      BY <1>5, <2>2, <2>3, <2>4 DEF ReadRest, Consume, TypeOK, header
  <1>6. CASE UNCHANGED vars
    BY <1>6 DEF vars, chunk, header, payload, output, wire, TypeOK
  <1> QED
    BY <1>1, <1>2, <1>3, <1>4, <1>5, <1>6 DEF Next, Loop

\* Client::receive keeps its variables in their types.
THEOREM TypeCorrect == Spec => []TypeOK
  BY TypeInit, TypeStep, PTL DEF Spec

----------------------------------------------------------------------------
\* The array holds what is missing behind what is there: the header branch
\* allocates it for the length it stores in remainBytes, and a payload step
\* advances recvOffset by no more than it takes off remainBytes.
Room == remainBytes > 0 => /\ recvOffset + remainBytes <= header_length
                           /\ DOMAIN recvBuffer = 0..header_length

\* Room is what makes the next copy fit.
LEMMA RoomFits == TypeOK /\ Room => RecvInBounds
  BY DEF TypeOK, Room, RecvInBounds

\* What is taken off one summand may be added to the other.
LEMMA SumStays ==
    ASSUME NEW a \in Int, NEW b \in Int, NEW c \in Int, NEW d \in Int,
           NEW n \in Int, a + b <= c, d <= a + n
    PROVE  d + (b - n) <= c
  OBVIOUS

\* Every step of the loop and every chunk preserve the room.
LEMMA RoomStep == TypeOK /\ Room /\ [Next]_vars => Room'
  <1> SUFFICES ASSUME TypeOK, Room, [Next]_vars PROVE Room'
    OBVIOUS
  <1>1. CASE Arrive
    BY <1>1 DEF Arrive, Room, header, payload
  <1>2. ASSUME NEW type, NEW len \in Int, TakeHeader(type, len), remainBytes <= 0
        PROVE  Room'
    <2>1. CASE RejectHeader(type)
      BY <1>2, <2>1 DEF RejectHeader, payload, Room, TypeOK
    <2>2. CASE AcceptHeader(type, len)
      <3>1. remainBytes' = len /\ recvOffset' = 0 /\ header_length' = len
        BY <1>2, <2>2 DEF AcceptHeader, TakeHeader
      <3>2. len > 0 => DOMAIN recvBuffer' = 0..len
        BY <2>2 DEF AcceptHeader, Fresh
      <3> QED
        BY <1>2, <3>1, <3>2 DEF Room
    <2> QED
      BY <1>2, <2>1, <2>2 DEF TakeHeader
  <1>3. CASE ReadHeader
    BY <1>2, <1>3, FrameType DEF ReadHeader
  <1>4. CASE ReadJunkHeader
    <2>1. PICK h \in JunkHeader : TakeHeader(h[1], h[2])
      BY <1>4 DEF ReadJunkHeader
    <2> QED
      BY <1>2, <1>4, <2>1, ReceiveAssumption DEF ReadJunkHeader
  <1>5. CASE ReadPart
    <2>1. Left \in Nat /\ remainBytes > Left
      BY <1>5 DEF ReadPart, Left, TypeOK
    <2>2. DOMAIN recvBuffer' = DOMAIN recvBuffer
      BY <1>5, <2>1, CopiedType DEF ReadPart
    <2>3. recvOffset' <= recvOffset + Left
      BY <1>5, <2>1 DEF ReadPart, TypeOK
    <2>4. /\ remainBytes' = remainBytes - Left
          /\ header_length' = header_length
      BY <1>5 DEF ReadPart, Consume, header
    <2>5. recvOffset' \in Nat
      BY <1>5, <2>1 DEF ReadPart, TypeOK
    <2>6. /\ recvOffset + remainBytes <= header_length
          /\ DOMAIN recvBuffer = 0..header_length
      BY <2>1 DEF Room, TypeOK
    <2>7. recvOffset' + remainBytes' <= header_length'
      <3>1. /\ recvOffset \in Int /\ recvOffset' \in Int /\ header_length \in Int
            /\ remainBytes \in Int /\ Left \in Int
        BY <2>1, <2>5 DEF TypeOK
      <3>2. recvOffset + remainBytes <= header_length
        BY <2>6
      <3>3. recvOffset' + (remainBytes - Left) <= header_length
        BY <2>3, <3>1, <3>2, SumStays
      <3> QED
        BY <2>4, <3>3
    <2> QED
      BY <2>2, <2>4, <2>6, <2>7 DEF Room
  <1>6. CASE ReadRest
    BY <1>6 DEF ReadRest, Consume, Room, TypeOK
  <1>7. CASE UNCHANGED vars
    BY <1>7 DEF vars, header, payload, Room
  <1> QED
    BY <1>1, <1>3, <1>4, <1>5, <1>6, <1>7 DEF Next, Loop

\* No copy of a payload leaves the array of its frame, for every stream, cut
\* and number of frames, valid or not.
THEOREM CopiesInBounds == Spec => []RecvInBounds
  <1>1. Init => Room
    BY DEF Init, Room
  <1>2. Spec => [](TypeOK /\ Room)
    BY <1>1, TypeInit, TypeStep, RoomStep, PTL DEF Spec
  <1> QED
    BY <1>2, RoomFits, PTL

----------------------------------------------------------------------------
\* The parser's position: every header of a whole frame and every payload step
\* keep remainBytes and the stream together.
LEMMA FramedStep == TypeOK /\ Framed /\ [Next]_vars => Framed'
  <1> SUFFICES ASSUME TypeOK, Framed, [Next]_vars PROVE Framed'
    OBVIOUS
  <1>1. CASE Arrive
    BY <1>1 DEF Arrive, Framed, header, payload, wire
  <1>2. CASE ReadHeader
    <2>1. PICK f \in Frame : TakeHeader(f.type, f.len) /\ frame' = f
      BY <1>2 DEF ReadHeader
    <2>2. at' = 0
      BY <1>2 DEF ReadHeader
    <2>3. CASE RejectHeader(f.type)
      BY <2>3 DEF RejectHeader, Framed
    <2>4. CASE AcceptHeader(f.type, f.len)
      <3>1. /\ remainBytes' = frame'.len /\ header_type' = frame'.type
            /\ frame'.len \in Nat
        BY <2>1, <2>4, FrameType DEF AcceptHeader, TakeHeader
      <3> QED
        BY <2>2, <3>1 DEF Framed
    <2> QED
      BY <2>1, <2>3, <2>4 DEF TakeHeader
  <1>3. CASE ReadJunkHeader
    BY <1>3 DEF ReadJunkHeader, Framed
  <1>4. ASSUME NEW n \in Nat, Consume(n), status = "open",
               remainBytes > 0, n <= remainBytes
        PROVE  Framed'
    <2>1. CASE sync
      <3>1. remainBytes = frame.len - at /\ header_type = frame.type
        BY <1>4, <2>1 DEF Framed
      <3>2. /\ remainBytes' = remainBytes - n /\ at' = at + n
            /\ frame' = frame /\ header_type' = header_type
        BY <1>4, <2>1 DEF Consume, header
      <3>3. frame.len \in Nat /\ at \in Nat
        BY WireType DEF TypeOK
      <3> QED
        BY <1>4, <3>1, <3>2, <3>3 DEF Framed
    <2> QED
      BY <1>4, <2>1 DEF Consume, Framed, TypeOK
  <1>5. CASE ReadPart
    <2>1. Left \in Nat /\ remainBytes > Left
      BY <1>5 DEF ReadPart, Left, TypeOK
    <2> QED
      BY <1>4, <1>5, <2>1 DEF ReadPart, TypeOK
  <1>6. CASE ReadRest
    BY <1>4, <1>6 DEF ReadRest, TypeOK
  <1>7. CASE UNCHANGED vars
    BY <1>7 DEF vars, header, payload, wire, Framed
  <1> QED
    BY <1>1, <1>2, <1>3, <1>5, <1>6, <1>7 DEF Next, Loop

\* As long as no header was cut the server takes for a header what the client
\* sent as one, for every stream of frames and every cut of it.
THEOREM StaysFramed == Spec => []Framed
  <1>1. Init => Framed
    BY DEF Init, Framed, NoFrame
  <1> QED
    BY <1>1, TypeInit, TypeStep, FramedStep, PTL DEF Spec

----------------------------------------------------------------------------
\* Without cut headers the server never loses its place: what is left of a
\* chunk always ends where a header may begin.
Kept == {RECV_IMAGE, RECV_NAME, CHANGE_FOCUS_STATUS}

InStep ==
    /\ sync
    /\ Left > 0 => Cut(frame, Left, frame.len - at)

\* What was kept of the frame in hand are its first cells, in order.
Collected ==
    status = "open" /\ remainBytes > 0 /\ header_type \in Kept =>
        /\ recvOffset = at /\ header_length = frame.len
        /\ \A k \in 0..(at - 1) : recvBuffer[k] = <<frame.id, k>>

NoCuts == ~SplitHeaders /\ ~SplitFocus

LEMMA StaysInStep ==
    ASSUME ~SplitHeaders, TypeOK, Framed, InStep, [Next]_vars PROVE InStep'
  <1>1. /\ chunkSize \in Nat /\ chunkRead \in Nat /\ at \in Nat /\ remainBytes \in Int
        /\ frame.len \in Nat
    BY WireType DEF TypeOK
  <1>2. CASE Arrive
    <2>1. PICK n \in 1..MaxBuf : Cut(frame, n, frame.len - at) /\ chunkSize' = n
      BY <1>2 DEF Arrive, InStep
    <2>2. Left' = n /\ UNCHANGED wire
      BY <1>2, <2>1, ReceiveAssumption DEF Arrive, Left
    <2> QED
      BY <2>1, <2>2 DEF InStep, wire
  <1>3. CASE ReadHeader
    <2>1. PICK f \in Frame : /\ Cut(f, Left - HeaderSize, f.len)
                             /\ TakeHeader(f.type, f.len) /\ frame' = f
      BY <1>3 DEF ReadHeader
    <2>2. at' = 0 /\ sync' = sync /\ f.len \in Nat
      BY <1>3, FrameType DEF ReadHeader
    <2>3. Left' = Left - HeaderSize
      BY <1>1, <2>1, ReceiveAssumption DEF TakeHeader, Left, HeaderSize
    <2> QED
      BY <2>1, <2>2, <2>3 DEF InStep
  <1>4. CASE ReadJunkHeader
    <2>1. Left > 0 /\ at = frame.len /\ Left < HeaderSize
      BY <1>1, <1>4, ReceiveAssumption
         DEF ReadJunkHeader, AtHeader, InStep, Framed, Left, HeaderSize
    <2>2. Cut(frame, Left, 0)
      BY <1>1, <2>1 DEF InStep
    <2> QED
      BY <1>1, <2>1, <2>2, ReceiveAssumption DEF Cut, Left, HeaderSize
  <1>5. CASE ReadPart
    <2>1. sync' = sync /\ Left' = 0
      BY <1>1, <1>5 DEF ReadPart, Consume, Left
    <2> QED
      BY <2>1 DEF InStep
  <1>6. CASE ReadRest
    <2>1. /\ remainBytes > 0 /\ remainBytes <= Left /\ remainBytes = frame.len - at
          /\ Cut(frame, Left, remainBytes)
      BY <1>1, <1>6 DEF ReadRest, Framed, InStep, Left
    <2>2. /\ frame' = frame /\ at' = at + remainBytes /\ sync' = sync
          /\ Left' = Left - remainBytes
      BY <1>1, <1>6 DEF ReadRest, Consume, InStep, Left
    <2>3. frame'.len - at' = 0
      BY <1>1, <2>1, <2>2
    <2>4. Left' > 0 => Cut(frame, Left', 0)
      BY <1>1, <2>1, <2>2, ReceiveAssumption DEF Cut, Left, HeaderSize
    <2> QED
      BY <2>2, <2>3, <2>4 DEF InStep
  <1>7. CASE UNCHANGED vars
    BY <1>7 DEF vars, chunk, wire, InStep, Left
  <1> QED
    BY <1>2, <1>3, <1>4, <1>5, <1>6, <1>7 DEF Next, Loop

\* The payload of a focus request is in one chunk.
LEMMA RequestUncut ==
    ASSUME NoCuts, TypeOK, Framed, InStep, ReadPart PROVE header_type # CHANGE_FOCUS_STATUS
  <1>1. /\ sync /\ status = "open" /\ remainBytes > Left /\ Left > 0
        /\ remainBytes \in Int /\ Left \in Int
    BY DEF InStep, ReadPart, TypeOK, Left
  <1>2. remainBytes = frame.len - at /\ header_type = frame.type
    BY <1>1 DEF Framed
  <1>3. Cut(frame, Left, remainBytes)
    BY <1>1, <1>2 DEF InStep
  <1> QED
    BY <1>1, <1>2, <1>3 DEF Cut, NoCuts

\* A copied cell is a cell of the frame in hand.
LEMMA CopiesFrame ==
    ASSUME TypeOK, Room, Framed, InStep, Collected, status = "open",
           remainBytes > 0, header_type \in Kept,
           NEW n \in Nat, n <= remainBytes
    PROVE  /\ recvOffset = at /\ header_length = frame.len
           /\ DOMAIN Copied(n) = 0..header_length
           /\ \A k \in 0..(at + n - 1) : Copied(n)[k] = <<frame.id, k>>
  <1>1. /\ recvOffset = at /\ header_length = frame.len
        /\ \A k \in 0..(at - 1) : recvBuffer[k] = <<frame.id, k>>
    BY DEF Collected
  <1>2. DOMAIN recvBuffer = 0..header_length /\ at + remainBytes <= header_length
    BY <1>1 DEF Room
  <1>3. at \in Nat /\ remainBytes \in Int /\ header_length \in Int
    BY DEF TypeOK
  <1>4. ASSUME NEW k \in 0..(at + n - 1) PROVE Copied(n)[k] = <<frame.id, k>>
    <2>1. k \in DOMAIN recvBuffer
      BY <1>2, <1>3
    <2>2. CASE k < at
      BY <1>1, <1>3, <2>1, <2>2 DEF Copied
    <2>3. CASE k >= at
      <3>1. Copied(n)[k] = <<frame.id, at + (k - recvOffset)>>
        BY <1>1, <1>3, <2>1, <2>3 DEF Copied, InStep
      <3> QED
        BY <1>1, <1>3, <3>1
    <2> QED
      BY <1>3, <2>2, <2>3
  <1> QED
    BY <1>1, <1>2, <1>4 DEF Copied

LEMMA StaysCollected ==
    ASSUME NoCuts, TypeOK, Room, Framed, InStep, Collected, [Next]_vars
    PROVE  Collected'
  <1>1. CASE Arrive
    BY <1>1 DEF Arrive, Collected, header, payload, wire
  <1>2. CASE ReadHeader
    <2>1. PICK f \in Frame : TakeHeader(f.type, f.len) /\ frame' = f
      BY <1>2 DEF ReadHeader
    <2>2. at' = 0 /\ remainBytes <= 0
      BY <1>2 DEF ReadHeader
    <2>3. CASE RejectHeader(f.type)
      BY <2>3 DEF RejectHeader, Collected
    <2>4. CASE AcceptHeader(f.type, f.len)
      <3>1. recvOffset' = 0 /\ header_length' = f.len
        BY <2>1, <2>4 DEF AcceptHeader, TakeHeader
      <3> QED
        BY <2>1, <2>2, <3>1 DEF Collected
    <2> QED
      BY <2>1, <2>3, <2>4 DEF TakeHeader
  <1>3. CASE ReadJunkHeader
    BY <1>3, StaysInStep DEF ReadJunkHeader, InStep, NoCuts
  <1>4. CASE ReadPart
    <2>1. /\ Left \in Nat /\ Left <= remainBytes /\ remainBytes > 0 /\ status = "open"
          /\ recvOffset \in Nat /\ at \in Nat
      BY <1>4 DEF ReadPart, Left, TypeOK
    <2>2. /\ at' = at + Left /\ frame' = frame
          /\ UNCHANGED <<header_type, header_length, status>>
      BY <1>4 DEF ReadPart, Consume, InStep, header
    <2>3. ASSUME header_type \in Kept PROVE Collected'
      <3>1. header_type \in {RECV_IMAGE, RECV_NAME}
        BY <1>4, <2>3, RequestUncut DEF Kept
      <3>2. recvBuffer' = Copied(Left) /\ recvOffset' = recvOffset + Left
        BY <1>4, <3>1 DEF ReadPart
      <3> QED
        BY <2>1, <2>2, <2>3, <3>2, CopiesFrame DEF Collected
    <2> QED
      BY <2>2, <2>3 DEF Collected
  <1>5. CASE ReadRest
    BY <1>5 DEF ReadRest, Consume, Collected, TypeOK
  <1>6. CASE UNCHANGED vars
    BY <1>6 DEF vars, header, payload, wire, Collected
  <1> QED
    BY <1>1, <1>2, <1>3, <1>4, <1>5, <1>6 DEF Next, Loop

\* A buffer with the cells of a frame reads as that frame.
LEMMA ContentOf ==
    ASSUME NEW f \in Frame, f.len > 0, NEW b,
           b = [k \in 0..(f.len - 1) |-> <<f.id, k>>]
    PROVE  Content(f.type, b) = f
  <1>1. f.len \in Nat /\ 0 \in 0..(f.len - 1)
    BY FrameType
  <1>2. b # NoBuffer
    BY <1>1 DEF NoBuffer
  <1>3. ASSUME NEW g \in Frame, g.type = f.type,
               b = [k \in 0..(g.len - 1) |-> <<g.id, k>>]
        PROVE  g = f
    <2>1. 0..(g.len - 1) = 0..(f.len - 1) /\ g.len \in Nat
      BY <1>3, FrameType
    <2>2. g.len = f.len
      BY <1>1, <2>1
    <2>3. b[0] = <<g.id, 0>> /\ b[0] = <<f.id, 0>>
      BY <1>1, <1>3, <2>1
    <2> QED
      BY <1>3, <2>2, <2>3 DEF Frame, FramesOf
  <1> QED
    BY <1>2, <1>3 DEF Content

\* What the abstract frame in transfer is.
Cur == IF remainBytes > 0 THEN frame ELSE NoFrame
Output == <<Content(RECV_IMAGE, jpegBuffer), Content(RECV_NAME, userName),
            Content(CHANGE_FOCUS_STATUS, ready)>>

\* The server is in the middle of a frame the client can send.
LEMMA FrameInHand ==
    ASSUME TypeOK, Framed, InStep, status = "open", remainBytes > 0
    PROVE  /\ frame \in Frame /\ frame.len > 0 /\ frame # NoFrame
           /\ header_type = frame.type /\ remainBytes = frame.len - at
  <1>1. header_type = frame.type /\ remainBytes = frame.len - at
    BY DEF Framed, InStep
  <1>2. frame.len > 0
    BY <1>1, WireType DEF TypeOK
  <1>3. NoFrame.len = 0
    BY DEF NoFrame
  <1> QED
    BY <1>1, <1>2, <1>3 DEF TypeOK

\* The end of a payload hands the frame in hand on, whole.
LEMMA HandsOnFrame ==
    ASSUME TypeOK, Room, Framed, InStep, Collected, ReadRest
    PROVE  /\ Cur' = NoFrame
           /\ Output' = <<IF frame.type = RECV_IMAGE THEN frame ELSE Output[1],
                          IF frame.type = RECV_NAME THEN frame ELSE Output[2],
                          IF frame.type = CHANGE_FOCUS_STATUS THEN frame ELSE Output[3]>>
  <1>1. /\ status = "open" /\ remainBytes > 0 /\ remainBytes \in Nat
        /\ recvBuffer' = Copied(remainBytes) /\ recvOffset' = recvOffset + remainBytes
        /\ header_type' = header_type /\ at \in Nat
    BY DEF ReadRest, Consume, header, TypeOK
  <1>2. /\ frame \in Frame /\ frame.len > 0 /\ header_type = frame.type
        /\ frame.len = at + remainBytes
    BY <1>1, FrameInHand, WireType DEF TypeOK
  <1>3. Cur' = NoFrame
    BY <1>1 DEF ReadRest, Consume, Cur
  <1>4. ASSUME frame.type \in Kept
        PROVE  Taken(recvBuffer', frame.len) = [k \in 0..(frame.len - 1) |-> <<frame.id, k>>]
               /\ recvOffset' = frame.len
    <2>1. /\ recvOffset = at /\ header_length = frame.len
          /\ DOMAIN recvBuffer' = 0..header_length
          /\ \A k \in 0..(at + remainBytes - 1) : recvBuffer'[k] = <<frame.id, k>>
      BY <1>1, <1>2, <1>4, CopiesFrame
    <2>2. \A k \in 0..(frame.len - 1) :
             k \in DOMAIN recvBuffer' /\ recvBuffer'[k] = <<frame.id, k>>
      <3>1. frame.len \in Nat
        BY <1>2, FrameType
      <3>2. 0..(frame.len - 1) \subseteq 0..header_length
        BY <2>1, <3>1
      <3>3. frame.len = at + remainBytes
        BY <1>2
      <3>4. \A k \in 0..(frame.len - 1) : k \in 0..(at + remainBytes - 1)
        BY <1>1, <3>1, <3>3
      <3> QED
        BY <2>1, <3>2, <3>4
    <2> QED
      BY <1>1, <1>2, <2>1, <2>2 DEF Taken
  <1>5. frame.type = CHANGE_FOCUS_STATUS => frame.len = IntSize
    BY <1>2, ReceiveAssumption DEF Frame, FramesOf
  <1>6. Content(RECV_IMAGE, jpegBuffer') =
           IF frame.type = RECV_IMAGE THEN frame ELSE Content(RECV_IMAGE, jpegBuffer)
    <2>1. CASE frame.type = RECV_IMAGE
      BY <1>1, <1>2, <1>4, <2>1, ContentOf DEF ReadRest, HandOn, Kept
    <2> QED
      BY <1>2, <2>1 DEF ReadRest, HandOn
  <1>7. Content(RECV_NAME, userName') =
           IF frame.type = RECV_NAME THEN frame ELSE Content(RECV_NAME, userName)
    <2>1. CASE frame.type = RECV_NAME
      BY <1>1, <1>2, <1>4, <2>1, ContentOf DEF ReadRest, HandOn, Kept
    <2> QED
      BY <1>2, <2>1 DEF ReadRest, HandOn
  <1>8. Content(CHANGE_FOCUS_STATUS, ready') =
           IF frame.type = CHANGE_FOCUS_STATUS THEN frame
           ELSE Content(CHANGE_FOCUS_STATUS, ready)
    <2>1. CASE frame.type = CHANGE_FOCUS_STATUS
      BY <1>1, <1>2, <1>4, <1>5, <2>1, ContentOf DEF ReadRest, HandOn, Kept
    <2> QED
      BY <1>2, <2>1 DEF ReadRest, HandOn
  <1>9. Output' = <<Content(RECV_IMAGE, jpegBuffer'), Content(RECV_NAME, userName'),
                    Content(CHANGE_FOCUS_STATUS, ready')>>
    BY DEF Output, Content
  <1> QED
    BY <1>3, <1>6, <1>7, <1>8, <1>9 DEF Output

\* Every step of receive is a step of the abstract delivery or none.
LEMMA StepDelivers ==
    ASSUME NoCuts, TypeOK, Room, Framed, InStep, Collected, [Next]_vars
    PROVE  \/ UNCHANGED <<Cur, Output>>
           \/ /\ Cur = NoFrame /\ Cur' \in Frame /\ Cur'.len > 0
              /\ UNCHANGED Output
           \/ /\ Cur \in Frame /\ Cur # NoFrame /\ Cur' = NoFrame
              /\ Output' = <<IF Cur.type = RECV_IMAGE THEN Cur ELSE Output[1],
                             IF Cur.type = RECV_NAME THEN Cur ELSE Output[2],
                             IF Cur.type = CHANGE_FOCUS_STATUS THEN Cur ELSE Output[3]>>
  <1>1. ASSUME UNCHANGED output PROVE UNCHANGED Output
    BY <1>1 DEF output, Output, Content
  <1>2. CASE Arrive
    BY <1>1, <1>2 DEF Arrive, payload, wire, Cur
  <1>3. CASE ReadHeader
    <2>1. PICK f \in Frame : TakeHeader(f.type, f.len) /\ frame' = f
      BY <1>3 DEF ReadHeader
    <2>2. Cur = NoFrame /\ UNCHANGED Output
      <3>1. remainBytes <= 0 /\ remainBytes \in Int
        BY <1>3 DEF ReadHeader, TypeOK
      <3>2. UNCHANGED output
        BY <2>1 DEF TakeHeader
      <3> QED
        BY <1>1, <3>1, <3>2 DEF Cur
    <2>3. remainBytes <= 0 /\ remainBytes' \in {remainBytes, f.len}
      BY <1>3, <2>1 DEF ReadHeader, TakeHeader, RejectHeader, AcceptHeader, payload
    <2>4. CASE remainBytes' > 0
      BY <2>1, <2>2, <2>3, <2>4 DEF Cur, TypeOK
    <2>5. CASE ~(remainBytes' > 0)
      BY <2>2, <2>5 DEF Cur
    <2> QED
      BY <2>4, <2>5
  <1>4. CASE ReadJunkHeader
    BY <1>4, StaysInStep DEF ReadJunkHeader, InStep, NoCuts
  <1>5. CASE ReadPart
    <2>1. remainBytes > 0 /\ remainBytes' > 0 /\ frame' = frame
      BY <1>5 DEF ReadPart, Consume, Left, TypeOK
    <2> QED
      BY <1>1, <1>5, <2>1 DEF ReadPart, Cur
  <1>6. CASE ReadRest
    <2>1. status = "open" /\ remainBytes > 0
      BY <1>6 DEF ReadRest
    <2>2. Cur = frame /\ frame \in Frame /\ frame # NoFrame
      BY <2>1, FrameInHand DEF Cur
    <2> QED
      BY <1>6, <2>2, HandsOnFrame
  <1>7. CASE UNCHANGED vars
    BY <1>1, <1>7 DEF vars, payload, wire, Cur
  <1> QED
    BY <1>2, <1>3, <1>4, <1>5, <1>6, <1>7 DEF Next, Loop

DeliveryInv == TypeOK /\ Room /\ Framed /\ InStep /\ Collected

LEMMA DeliveryInvInit == Init => DeliveryInv
  BY TypeInit DEF Init, Room, Framed, NoFrame, InStep, Left, Collected, DeliveryInv

LEMMA DeliveryInvStep == NoCuts /\ DeliveryInv /\ [Next]_vars => DeliveryInv'
  <1> SUFFICES ASSUME NoCuts, DeliveryInv, [Next]_vars PROVE DeliveryInv'
    OBVIOUS
  <1>1. TypeOK' /\ Room' /\ Framed'
    BY TypeStep, RoomStep, FramedStep DEF DeliveryInv
  <1>2. InStep' /\ Collected'
    BY StaysInStep, StaysCollected DEF DeliveryInv, NoCuts
  <1> QED
    BY <1>1, <1>2 DEF DeliveryInv

\* receive implements the abstract delivery for frames of any length, chunks of
\* any size and every cut that spares headers and focus payloads: each frame is
\* handed on whole, once and in order, and nothing else is.
THEOREM ReceiveDelivers ==
    ASSUME NoCuts PROVE Spec => DeliversFrames
  <1>1. Init => Delivery!Init
    BY DEF Init, Delivery!Init, Content
  <1>2. DeliveryInv /\ [Next]_vars => [Delivery!Next]_(Delivery!vars)
    <2> SUFFICES ASSUME DeliveryInv, [Next]_vars
                 PROVE  [Delivery!Next]_(Delivery!vars)
      OBVIOUS
    <2>1. CASE UNCHANGED <<Cur, Output>>
      BY <2>1 DEF Cur, Output, Delivery!vars
    <2>2. CASE Cur = NoFrame /\ Cur' \in Frame /\ Cur'.len > 0 /\ UNCHANGED Output
      BY <2>2 DEF Cur, Output, Delivery!Next, Delivery!Begin
    <2>3. CASE /\ Cur \in Frame /\ Cur # NoFrame /\ Cur' = NoFrame
               /\ Output' = <<IF Cur.type = RECV_IMAGE THEN Cur ELSE Output[1],
                              IF Cur.type = RECV_NAME THEN Cur ELSE Output[2],
                              IF Cur.type = CHANGE_FOCUS_STATUS THEN Cur ELSE Output[3]>>
      BY <2>3 DEF Cur, Output, Delivery!Next, Delivery!Deliver
    <2> QED
      BY <2>1, <2>2, <2>3, StepDelivers DEF DeliveryInv
  <1> QED
    BY <1>1, <1>2, NoCuts, DeliveryInvInit, DeliveryInvStep, PTL
       DEF Spec, DeliversFrames, Delivery!Spec

----------------------------------------------------------------------------
\* The array of the name is allocated once, for the first name.
NameFrame == {f \in Frame : f.type = RECV_NAME}
OneNameLength == \A f, g \in NameFrame : f.len = g.len

NameRoom ==
    /\ userNameSize # NoName => \E f \in NameFrame : userNameSize = f.len + 1
    /\ \A k \in DOMAIN userName : \E f \in NameFrame : k < f.len
    /\ status = "open" /\ remainBytes > 0 => header_length = frame.len

LEMMA RoomForNames ==
    ASSUME OneNameLength, NameRoom, TypeOK PROVE NameFits
  <1> SUFFICES ASSUME userNameSize # NoName, NEW k \in DOMAIN userName
               PROVE  k + 1 < userNameSize
    BY DEF NameFits
  <1>1. PICK f \in NameFrame : userNameSize = f.len + 1
    BY DEF NameRoom
  <1>2. PICK g \in NameFrame : k < g.len
    BY DEF NameRoom
  <1>3. f.len = g.len /\ f.len \in Nat /\ g.len \in Nat
    BY FrameType DEF OneNameLength, NameFrame
  <1>4. k \in Nat
    BY DEF TypeOK, Buffer
  <1> QED
    BY <1>1, <1>2, <1>3, <1>4

LEMMA NameRoomStep ==
    ASSUME ~SplitHeaders, TypeOK, Room, Framed, InStep, NameRoom, [Next]_vars
    PROVE  NameRoom'
  <1>1. CASE Arrive
    BY <1>1 DEF Arrive, NameRoom, header, payload, output, wire
  <1>2. CASE ReadHeader
    <2>1. PICK f \in Frame : TakeHeader(f.type, f.len) /\ frame' = f
      BY <1>2 DEF ReadHeader
    <2>2. remainBytes <= 0 /\ header_length' = f.len /\ userName' = userName /\ f.len \in Nat
      BY <1>2, <2>1, FrameType DEF ReadHeader, TakeHeader, output
    <2>3. \/ userNameSize' = userNameSize
          \/ userNameSize' = f.len + 1 /\ f \in NameFrame
      BY <2>1, <2>2
         DEF TakeHeader, RejectHeader, AcceptHeader, AllocateName, NameFrame
    <2> QED
      BY <2>1, <2>2, <2>3 DEF NameRoom
  <1>3. CASE ReadJunkHeader
    BY <1>3, StaysInStep DEF ReadJunkHeader, InStep
  <1>4. CASE ReadPart
    <2>1. /\ remainBytes > 0 /\ status = "open"
          /\ UNCHANGED <<userName, userNameSize, header_length, frame, status>>
      BY <1>4 DEF ReadPart, Consume, output, header, Left, TypeOK
    <2> QED
      BY <2>1 DEF NameRoom
  <1>5. CASE ReadRest
    <2>1. /\ status = "open" /\ remainBytes > 0 /\ remainBytes \in Nat
          /\ recvOffset' = recvOffset + remainBytes /\ recvOffset \in Nat
          /\ remainBytes' = 0 /\ userNameSize' = userNameSize
      BY <1>5 DEF ReadRest, Consume, TypeOK
    <2>2. CASE header_type = RECV_NAME
      <3>1. frame \in NameFrame /\ header_length = frame.len
        BY <2>1, <2>2, FrameInHand DEF NameFrame, NameRoom
      <3>2. recvOffset' <= header_length /\ header_length \in Int
        BY <2>1 DEF Room, TypeOK
      <3>3. DOMAIN userName' = 0..(recvOffset' - 1)
        BY <1>5, <2>2 DEF ReadRest, HandOn, Taken
      <3>4. \A k \in DOMAIN userName' : k < frame.len
        BY <2>1, <3>1, <3>2, <3>3
      <3> QED
        BY <2>1, <3>1, <3>4 DEF NameRoom
    <2>3. CASE header_type # RECV_NAME
      BY <1>5, <2>1, <2>3 DEF ReadRest, HandOn, NameRoom
    <2> QED
      BY <2>2, <2>3
  <1>6. CASE UNCHANGED vars
    BY <1>6 DEF vars, header, payload, output, wire, NameRoom
  <1> QED
    BY <1>1, <1>2, <1>3, <1>4, <1>5, <1>6 DEF Next, Loop

\* A client whose names all have one length never has a name written past the
\* array allocated for the first one.
THEOREM NamesFit ==
    ASSUME ~SplitHeaders, OneNameLength PROVE Spec => []NameFits
  <1> DEFINE Inv == TypeOK /\ Room /\ Framed /\ InStep /\ NameRoom
  <1>1. Init => Inv
    BY TypeInit DEF Init, Room, Framed, NoFrame, InStep, Left, NameRoom, NoBuffer
  <1>2. Inv /\ [Next]_vars => Inv'
    BY ~SplitHeaders, TypeStep, RoomStep, FramedStep, StaysInStep, NameRoomStep
  <1>3. Inv => NameFits
    BY OneNameLength, RoomForNames
  <1> QED
    BY <1>1, <1>2, <1>3, PTL DEF Spec
=============================================================================
