----------------------------- MODULE EchoProofs -----------------------------
(***************************************************************************)
(* Proofs about Echo for every number of clients, descriptors and sizes of *)
(* message, array and kernel buffer: the answer of select_server.c.        *)
(***************************************************************************)
EXTENDS Echo, SequenceTheorems, TLAPS

Byte == Int \X Int

TypesOK ==
    /\ program \in Programs
    /\ fd \in Fds \cup {0, ServerSocket}
    /\ tmp_fds \subseteq Fds \cup {ServerSocket}
    /\ conn \in [Fds -> Clients \cup {0}]
    /\ backlog \subseteq Clients
    /\ buf \in [0..(MaxBuf - 1) -> Byte]
    /\ pos \in Nat /\ len \in Nat
    /\ cpc \in [Clients -> {"new", "write", "read", "leave", "left"}]
    /\ rest \in [Clients -> Nat]
    /\ sent \in [Clients -> Nat]
    /\ taken \in [Clients -> Nat]
    /\ got \in [Clients -> Nat]
    /\ down \in [Clients -> Seq(Byte)]

\* The descriptor the server has in hand, and those it has still to visit,
\* have a client behind them; the one in hand is visited once.
HandOK ==
    /\ spc \in {"read", "write"} =>
          fd \in Fds /\ conn[fd] # 0 /\ fd \notin tmp_fds
    /\ \A f \in tmp_fds : f # ServerSocket => conn[f] # 0

\* An answer is a part of the array, and not written to its end.
AnswerOK == spc = "write" => pos < len /\ len <= MaxBuf

\* The server has read no byte that was not sent, the kernel keeps Cap bytes
\* of a stream, and nothing for a client that has left.
StreamsOK ==
    \A c \in Clients :
        /\ Up(c) \in 0..Cap
        /\ Len(down[c]) <= Cap
        /\ cpc[c] = "left" => down[c] = <<>>

IInv == TypesOK /\ HandOK /\ AnswerOK /\ StreamsOK /\ EchoExact

LEMMA Constants ==
    /\ Clients \subseteq Nat \ {0} /\ Message \in [Clients -> Nat \ {0}]
    /\ Cap \in Nat \ {0} /\ MaxBuf \in Nat \ {0}
    /\ Fds \subseteq Nat /\ ServerSocket \in Nat \ Fds
  BY EchoAssumption

\* What the types say of one client.
LEMMA ClientTypes ==
    ASSUME TypesOK, NEW c \in Clients
    PROVE  /\ rest[c] \in Nat /\ sent[c] \in Nat /\ taken[c] \in Nat /\ got[c] \in Nat
           /\ down[c] \in Seq(Byte) /\ Len(down[c]) \in Nat
           /\ Up(c) \in Int
  <1>1. rest[c] \in Nat /\ sent[c] \in Nat /\ taken[c] \in Nat /\ got[c] \in Nat
    BY DEF TypesOK
  <1>2. down[c] \in Seq(Byte)
    BY DEF TypesOK
  <1>3. Len(down[c]) \in Nat
    BY <1>2, LenProperties
  <1> QED
    BY <1>1, <1>2, <1>3 DEF Up

\* The actions of the system, one by one.
LEMMA Steps ==
    ASSUME Next
    PROVE  \/ \E c \in Clients : Connect(c) \/ Send(c) \/ Receive(c) \/ Leave(c)
           \/ Select \/ Dispatch \/ DispatchDone \/ Accept \/ Read \/ ReadEnd
           \/ ReadFails \/ Write \/ WriteLost \/ WriteBreaks
  BY DEF Next, Running, Server, Works

LEMMA InitInv == Init => IInv
  <1> SUFFICES ASSUME Init PROVE IInv
    OBVIOUS
  <1> USE DEF Init
  <1>1. TypesOK
    <2>1. <<>> \in Seq(Byte)
      BY EmptySeq
    <2>2. buf \in [0..(MaxBuf - 1) -> Byte]
      BY DEF Blank, Byte
    <2>3. rest \in [Clients -> Nat]
      BY Constants
    <2> QED
      BY <2>1, <2>2, <2>3 DEF TypesOK
  <1>2. HandOK /\ AnswerOK
    BY DEF HandOK, AnswerOK
  <1>3. StreamsOK
    BY Constants, EmptySeq DEF StreamsOK, Up
  <1>4. EchoExact
    BY EmptySeq DEF EchoExact, Pending
  <1> QED
    BY <1>1, <1>2, <1>3, <1>4 DEF IInv

----------------------------------------------------------------------------
\* What the clients do.

\* Connecting and leaving.
LEMMA ConnectLeaveInv ==
    ASSUME IInv, NEW c \in Clients, Connect(c) \/ Leave(c)
    PROVE  IInv'
  <1> USE DEF ClientStep, server_vars, loop, table, answer
  <1>1. <<>> \in Seq(Byte) /\ Len(<<>>) = 0
    BY EmptySeq
  <1>2. TypesOK'
    <2>1. CASE Connect(c)
      BY <2>1 DEF IInv, TypesOK, Connect
    <2>2. CASE Leave(c)
      <3>1. down' \in [Clients -> Seq(Byte)]
        BY <1>1, <2>2 DEF IInv, TypesOK, Leave
      <3> QED
        BY <2>2, <3>1 DEF IInv, TypesOK, Leave
    <2> QED
      BY <2>1, <2>2
  <1>3. HandOK' /\ AnswerOK'
    BY DEF IInv, HandOK, AnswerOK, Connect, Leave
  <1>4. StreamsOK'
    <2>1. ASSUME NEW d \in Clients
          PROVE  /\ Up(d)' \in 0..Cap
                 /\ Len(down'[d]) <= Cap
                 /\ cpc'[d] = "left" => down'[d] = <<>>
      <3>1. Up(d)' = Up(d)
        BY DEF Up, Connect, Leave
      <3>2. /\ Up(d) \in 0..Cap /\ Len(down[d]) <= Cap
            /\ cpc[d] = "left" => down[d] = <<>>
        BY DEF IInv, StreamsOK
      <3>3. CASE Connect(c)
        BY <3>1, <3>2, <3>3 DEF IInv, TypesOK, Connect
      <3>4. CASE Leave(c)
        <4>1. down'[d] = IF d = c THEN <<>> ELSE down[d]
          BY <3>4 DEF IInv, TypesOK, Leave
        <4> QED
          BY <1>1, <3>1, <3>2, <3>4, <4>1, Constants DEF IInv, TypesOK, Leave
      <3> QED
        BY <3>3, <3>4
    <2> QED
      BY <2>1 DEF StreamsOK
  <1>5. EchoExact'
    <2> SUFFICES ASSUME (program = "select_server")', NEW d \in Clients,
                        (cpc[d] # "left")'
                 PROVE  /\ cpc[d] # "left" /\ down'[d] = down[d] /\ got'[d] = got[d]
                        /\ taken'[d] = taken[d] /\ Pending(d)' = Pending(d)
                        /\ buf' = buf /\ pos' = pos
      BY DEF IInv, EchoExact, Connect, Leave
    <2> QED
      BY DEF IInv, TypesOK, Connect, Leave, Pending
  <1> QED
    BY <1>2, <1>3, <1>4, <1>5 DEF IInv

\* Writing a message.
LEMMA SendInv ==
    ASSUME IInv, NEW c \in Clients, Send(c)
    PROVE  IInv'
  <1> USE DEF ClientStep, server_vars, loop, table, answer
  <1> DEFINE n == Least(rest[c], Cap - Up(c))
  <1>1. n \in Nat /\ n <= rest[c] /\ n <= Cap - Up(c) /\ n > 0
    <2>1. Up(c) \in 0..Cap /\ rest[c] \in Nat
      BY ClientTypes DEF IInv, StreamsOK
    <2>2. n > 0
      BY DEF Send
    <2> HIDE DEF Send
    <2> QED
      BY <2>1, <2>2, Constants DEF Least
  <1>2. /\ sent' = [sent EXCEPT ![c] = @ + n]
        /\ rest' = [rest EXCEPT ![c] = @ - n]
        /\ UNCHANGED <<taken, got, down, conn, spc, fd, tmp_fds, buf, pos, len,
                       program, backlog>>
        /\ cpc' \in {[cpc EXCEPT ![c] = "read"], [cpc EXCEPT ![c] = "write"]}
        /\ cpc[c] = "write"
    BY DEF Send
  <1> HIDE DEF n
  <1>3. TypesOK'
    <2>1. rest' \in [Clients -> Nat]
      BY <1>1, <1>2 DEF IInv, TypesOK
    <2>2. sent' \in [Clients -> Nat]
      BY <1>1, <1>2 DEF IInv, TypesOK
    <2> QED
      BY <1>2, <2>1, <2>2 DEF IInv, TypesOK
  <1>4. HandOK' /\ AnswerOK'
    BY <1>2 DEF IInv, HandOK, AnswerOK
  <1>5. StreamsOK'
    <2> SUFFICES ASSUME NEW d \in Clients
                 PROVE  /\ Up(d)' \in 0..Cap
                        /\ down'[d] = down[d]
                        /\ cpc'[d] = "left" => cpc[d] = "left"
      BY DEF IInv, StreamsOK
    <2>1. /\ down'[d] = down[d] /\ taken'[d] = taken[d]
          /\ cpc'[d] = "left" => cpc[d] = "left"
      BY <1>2 DEF IInv, TypesOK
    <2>2. Up(d) \in 0..Cap /\ sent[d] \in Nat /\ taken[d] \in Nat
      BY ClientTypes DEF IInv, StreamsOK
    <2>3. sent'[d] = IF d = c THEN sent[d] + n ELSE sent[d]
      BY <1>2 DEF IInv, TypesOK
    <2> QED
      BY <1>1, <2>1, <2>2, <2>3, Constants DEF Up
  <1>6. EchoExact'
    BY <1>2 DEF IInv, TypesOK, EchoExact, Pending
  <1> QED
    BY <1>3, <1>4, <1>5, <1>6 DEF IInv

\* Reading an answer takes the first bytes of the stream.
LEMMA ReceiveInv ==
    ASSUME IInv, NEW c \in Clients, Receive(c)
    PROVE  IInv'
  <1> USE DEF ClientStep, server_vars, loop, table, answer
  <1>1. PICK n \in 1..Least(Message[c], Len(down[c])) :
            /\ got' = [got EXCEPT ![c] = @ + n]
            /\ down' = [down EXCEPT ![c] = SubSeq(@, n + 1, Len(@))]
    BY DEF Receive
  <1>2. /\ UNCHANGED <<sent, taken, conn, spc, fd, tmp_fds, buf, pos, len,
                       program, backlog>>
        /\ cpc' \in {[cpc EXCEPT ![c] = "write"], [cpc EXCEPT ![c] = "leave"]}
        /\ cpc[c] = "read"
        /\ rest' = [rest EXCEPT ![c] = Message[c]]
    BY DEF Receive
  <1> DEFINE left == SubSeq(down[c], n + 1, Len(down[c]))
  <1>3. down[c] \in Seq(Byte) /\ Len(down[c]) \in Nat
    BY LenProperties DEF IInv, TypesOK
  <1>4. n \in Nat /\ n <= Len(down[c])
    BY <1>3, Constants DEF Least
  <1>5. /\ left \in Seq(Byte)
        /\ Len(left) = Len(down[c]) - n
        /\ \A k \in 1..Len(left) : left[k] = down[c][k + n]
    <2>1. \A k \in (n + 1)..Len(down[c]) : down[c][k] \in Byte
      BY <1>3, <1>4, ElementOfSeq
    <2>2. /\ left \in Seq(Byte)
          /\ Len(left) = IF n + 1 <= Len(down[c]) THEN Len(down[c]) - (n + 1) + 1 ELSE 0
          /\ \A i \in 1..(Len(down[c]) - (n + 1) + 1) : left[i] = down[c][n + 1 + i - 1]
      BY <1>3, <1>4, <2>1, SubSeqProperties
    <2> QED
      BY <1>3, <1>4, <2>2
  <1> HIDE DEF left
  <1>6. down' = [down EXCEPT ![c] = left]
    BY <1>1 DEF left
  <1>7. TypesOK'
    <2>1. down' \in [Clients -> Seq(Byte)]
      BY <1>5, <1>6 DEF IInv, TypesOK
    <2>2. got' \in [Clients -> Nat]
      BY <1>1, <1>4 DEF IInv, TypesOK
    <2>3. rest' \in [Clients -> Nat]
      BY <1>2, Constants DEF IInv, TypesOK
    <2> QED
      BY <1>2, <2>1, <2>2, <2>3 DEF IInv, TypesOK
  <1>8. HandOK' /\ AnswerOK'
    BY <1>2 DEF IInv, HandOK, AnswerOK
  <1>9. StreamsOK'
    <2> SUFFICES ASSUME NEW d \in Clients
                 PROVE  /\ Up(d)' = Up(d)
                        /\ Len(down'[d]) <= Cap
                        /\ cpc'[d] = "left" => cpc[d] = "left" /\ d # c /\ down'[d] = down[d]
      BY DEF IInv, StreamsOK
    <2>1. down'[d] = IF d = c THEN left ELSE down[d]
      BY <1>6 DEF IInv, TypesOK
    <2>2. Len(down[d]) <= Cap /\ Len(down[d]) \in Nat /\ Cap \in Nat
      BY ClientTypes, Constants DEF IInv, StreamsOK
    <2>3. Len(down'[d]) <= Cap
      BY <1>4, <1>5, <2>1, <2>2
    <2> QED
      BY <1>2, <2>1, <2>3 DEF IInv, TypesOK, Up
  <1>10. EchoExact'
    <2> SUFFICES ASSUME program = "select_server", NEW d \in Clients, cpc'[d] # "left"
                 PROVE  /\ taken'[d] = got'[d] + Len(down'[d]) + Pending(d)'
                        /\ \A k \in 1..Len(down'[d]) : down'[d][k] = <<d, got'[d] + k>>
                        /\ \A k \in 1..Pending(d)' :
                              buf'[pos' + k - 1] = <<d, got'[d] + Len(down'[d]) + k>>
      BY <1>2 DEF EchoExact
    <2>1. Pending(d)' = Pending(d) /\ cpc[d] # "left" /\ Pending(d) \in Int
      BY <1>2 DEF Pending, IInv, TypesOK
    <2>2. /\ taken[d] = got[d] + Len(down[d]) + Pending(d)
          /\ \A k \in 1..Len(down[d]) : down[d][k] = <<d, got[d] + k>>
          /\ \A k \in 1..Pending(d) :
                buf[pos + k - 1] = <<d, got[d] + Len(down[d]) + k>>
      BY <2>1 DEF IInv, EchoExact
    <2>3. CASE d # c
      <3>1. down'[d] = down[d] /\ got'[d] = got[d]
        BY <1>1, <2>3 DEF IInv, TypesOK
      <3> QED
        BY <1>2, <2>1, <2>2, <3>1
    <2>4. CASE d = c
      <3>1. down'[d] = left /\ got'[d] = got[d] + n /\ got[d] \in Nat /\ taken[d] \in Nat
        BY <1>1, <1>6, <2>4 DEF IInv, TypesOK
      <3>2. taken'[d] = got'[d] + Len(down'[d]) + Pending(d)'
        BY <1>2, <1>3, <1>4, <1>5, <2>1, <2>2, <2>4, <3>1
      <3>3. ASSUME NEW k \in 1..Len(down'[d])
            PROVE  down'[d][k] = <<d, got'[d] + k>>
        <4>1. k + n \in 1..Len(down[c]) /\ left[k] = down[c][k + n]
          BY <1>3, <1>4, <1>5, <3>1
        <4>2. down[c][k + n] = <<d, got[d] + (k + n)>>
          BY <2>2, <2>4, <4>1
        <4>3. got[d] + (k + n) = (got[d] + n) + k
          BY <1>4, <3>1
        <4> QED
          BY <3>1, <4>1, <4>2, <4>3
      <3>4. got'[d] + Len(down'[d]) = got[d] + Len(down[d])
        BY <1>3, <1>4, <1>5, <2>4, <3>1
      <3> QED
        BY <1>2, <2>1, <2>2, <3>2, <3>3, <3>4
    <2> QED
      BY <2>3, <2>4
  <1> QED
    BY <1>7, <1>8, <1>9, <1>10 DEF IInv

----------------------------------------------------------------------------
\* What the server does.

\* select, the walk over the snapshot, accept and the end of a connection
\* touch neither a stream nor the answer.
LEMMA LoopInv ==
    ASSUME IInv, Select \/ Dispatch \/ DispatchDone \/ Accept \/ ReadEnd
    PROVE  IInv'
  <1> USE DEF ServerStep, client_vars, table, answer
  <1>1. UNCHANGED <<program, rest, cpc, sent, got, buf, pos, len, taken, down>>
    BY DEF Select, Dispatch, DispatchDone, Accept, ReadEnd
  <1>2. TypesOK'
    <2>1. CASE Select
      BY <2>1 DEF IInv, TypesOK, Select, Readable
    <2>2. CASE Dispatch \/ DispatchDone
      BY <2>2 DEF IInv, TypesOK, Dispatch, DispatchDone
    <2>3. CASE Accept
      BY <2>3 DEF IInv, TypesOK, Accept
    <2>4. CASE ReadEnd
      BY <2>4 DEF IInv, TypesOK, ReadEnd
    <2> QED
      BY <2>1, <2>2, <2>3, <2>4
  <1>3. HandOK'
    <2>1. CASE Select
      BY <2>1, Constants DEF IInv, HandOK, Select, Readable
    <2>2. CASE Dispatch
      <3>1. PICK f \in tmp_fds :
                /\ spc' = IF f = ServerSocket THEN "accept" ELSE "read"
                /\ fd' = f
                /\ tmp_fds' = tmp_fds \ {f}
                /\ conn' = conn
        BY <2>2 DEF Dispatch
      <3>2. f # ServerSocket => f \in Fds /\ conn[f] # 0
        BY DEF IInv, HandOK, TypesOK
      <3> QED
        BY <3>1, <3>2 DEF IInv, HandOK
    <2>3. CASE DispatchDone
      BY <2>3 DEF IInv, HandOK, DispatchDone
    <2>4. CASE Accept
      <3>1. PICK f \in Fds, c \in backlog : conn' = [conn EXCEPT ![f] = c]
        BY <2>4 DEF Accept
      <3>2. c # 0
        BY Constants DEF IInv, TypesOK
      <3>3. \A g \in tmp_fds : g # ServerSocket => g \in Fds
        BY DEF IInv, TypesOK
      <3>4. spc' = "dispatch" /\ tmp_fds' = tmp_fds
        BY <2>4 DEF Accept
      <3> QED
        BY <3>1, <3>2, <3>3, <3>4 DEF IInv, HandOK, TypesOK
    <2>5. CASE ReadEnd
      <3>1. fd \notin tmp_fds
        BY <2>5 DEF IInv, HandOK, ReadEnd
      <3>2. /\ conn' = [conn EXCEPT ![fd] = 0]
            /\ spc' = "dispatch" /\ tmp_fds' = tmp_fds
        BY <2>5 DEF ReadEnd
      <3>3. \A g \in tmp_fds : g # ServerSocket => g \in Fds /\ conn'[g] = conn[g]
        BY <3>1, <3>2 DEF IInv, TypesOK
      <3> QED
        BY <3>2, <3>3 DEF IInv, HandOK
    <2> QED
      BY <2>1, <2>2, <2>3, <2>4, <2>5
  <1>4. spc # "write" /\ spc' # "write"
    BY DEF Select, Dispatch, DispatchDone, Accept, ReadEnd
  <1>5. AnswerOK' /\ StreamsOK'
    BY <1>1, <1>4 DEF IInv, AnswerOK, StreamsOK, Up
  <1>6. EchoExact'
    <2>1. \A c \in Clients : Pending(c) = 0 /\ Pending(c)' = 0
      BY <1>4 DEF Pending
    <2> QED
      BY <1>1, <2>1 DEF IInv, EchoExact
  <1> QED
    BY <1>2, <1>3, <1>5, <1>6 DEF IInv

\* read: what was pending is nothing, and now is what was read.
LEMMA ReadInv ==
    ASSUME IInv, Read
    PROVE  IInv'
  <1> USE DEF ServerStep, client_vars, table, answer
  <1> DEFINE c == conn[fd]
  <1>1. PICK n \in 1..Least(MaxBuf, Up(c)) :
            /\ buf' = [k \in DOMAIN buf |->
                          IF k < n THEN <<c, taken[c] + k + 1>> ELSE buf[k]]
            /\ taken' = [taken EXCEPT ![c] = @ + n]
            /\ len' = AnswerLength(n)
    BY DEF Read
  <1>2. /\ spc = "read" /\ spc' = "write" /\ pos' = 0
        /\ UNCHANGED <<program, rest, cpc, sent, got, fd, tmp_fds, conn, backlog, down>>
    BY DEF Read
  <1>3. fd \in Fds /\ c \in Clients /\ fd \notin tmp_fds /\ c # 0
    BY <1>2, Constants DEF IInv, HandOK, TypesOK
  <1>4. Up(c) \in 0..Cap /\ taken[c] \in Nat /\ sent[c] \in Nat
    BY <1>3, ClientTypes DEF IInv, StreamsOK
  <1>5. n \in Nat \ {0} /\ n <= MaxBuf /\ n <= Up(c) /\ MaxBuf \in Nat
    BY <1>4, Constants DEF Least
  <1> HIDE DEF c
  <1>6. len' \in Nat /\ 0 < len' /\ len' <= MaxBuf
    BY <1>1, <1>5 DEF AnswerLength
  <1>7. TypesOK'
    <2>1. buf' \in [0..(MaxBuf - 1) -> Byte]
      <3>1. ASSUME NEW k \in 0..(MaxBuf - 1) PROVE <<c, taken[c] + k + 1>> \in Byte
        BY <1>3, <1>4, <1>5, Constants DEF Byte
      <3> QED
        BY <1>1, <3>1 DEF IInv, TypesOK
    <2>2. taken' \in [Clients -> Nat]
      BY <1>1, <1>3, <1>4, <1>5 DEF IInv, TypesOK
    <2> QED
      BY <1>2, <1>6, <2>1, <2>2 DEF IInv, TypesOK
  <1>8. HandOK'
    BY <1>2 DEF IInv, HandOK
  <1>9. AnswerOK'
    BY <1>2, <1>6 DEF AnswerOK
  <1>10. StreamsOK'
    <2>1. ASSUME NEW d \in Clients PROVE Up(d)' \in 0..Cap
      <3>1. Up(d) \in 0..Cap /\ sent[d] \in Nat /\ taken[d] \in Nat
        BY ClientTypes DEF IInv, StreamsOK
      <3>2. taken'[d] = IF d = c THEN taken[d] + n ELSE taken[d]
        BY <1>1 DEF IInv, TypesOK
      <3> QED
        BY <1>2, <1>5, <3>1, <3>2, Constants DEF Up
    <2> QED
      BY <1>2, <2>1 DEF IInv, StreamsOK
  <1>11. EchoExact'
    <2> SUFFICES ASSUME program = "select_server", NEW d \in Clients, cpc[d] # "left"
                 PROVE  /\ taken'[d] = got[d] + Len(down[d]) + Pending(d)'
                        /\ \A k \in 1..Len(down[d]) : down[d][k] = <<d, got[d] + k>>
                        /\ \A k \in 1..Pending(d)' :
                              buf'[pos' + k - 1] = <<d, got[d] + Len(down[d]) + k>>
      BY <1>2 DEF EchoExact
    <2>1. Pending(d) = 0
      BY <1>2 DEF Pending
    <2>2. /\ taken[d] = got[d] + Len(down[d])
          /\ \A k \in 1..Len(down[d]) : down[d][k] = <<d, got[d] + k>>
      <3>1. /\ taken[d] = got[d] + Len(down[d]) + Pending(d)
            /\ \A k \in 1..Len(down[d]) : down[d][k] = <<d, got[d] + k>>
        BY DEF IInv, EchoExact
      <3> QED
        BY <2>1, <3>1, ClientTypes DEF IInv
    <2>3. len' = n
      BY <1>1 DEF AnswerLength
    <2>4. Pending(d)' = IF d = c THEN n ELSE 0
      BY <1>2, <1>5, <2>3 DEF Pending, c
    <2>5. taken'[d] = IF d = c THEN taken[d] + n ELSE taken[d]
      BY <1>1 DEF IInv, TypesOK
    <2>6. taken'[d] = got[d] + Len(down[d]) + Pending(d)'
      BY <1>5, <2>2, <2>4, <2>5, ClientTypes DEF IInv
    <2>7. ASSUME NEW k \in 1..Pending(d)'
          PROVE  buf'[pos' + k - 1] = <<d, got[d] + Len(down[d]) + k>>
      <3>1. d = c /\ k \in 1..n
        BY <2>4, <1>5
      <3>2. pos' + k - 1 \in 0..(MaxBuf - 1) /\ pos' + k - 1 < n
        BY <1>2, <1>5, <3>1
      <3>3. DOMAIN buf = 0..(MaxBuf - 1)
        BY DEF IInv, TypesOK
      <3>4. buf'[pos' + k - 1] = <<c, taken[c] + (pos' + k - 1) + 1>>
        BY <1>1, <3>2, <3>3
      <3>5. taken[c] + (pos' + k - 1) + 1 = got[d] + Len(down[d]) + k
        BY <1>2, <1>4, <2>2, <3>1
      <3> QED
        BY <3>1, <3>4, <3>5
    <2> QED
      BY <2>2, <2>6, <2>7
  <1> QED
    BY <1>7, <1>8, <1>9, <1>10, <1>11 DEF IInv

\* The client has left: read or write fails, or what is written is lost.
LEMMA FailInv ==
    ASSUME IInv, ReadFails \/ WriteLost \/ WriteBreaks
    PROVE  IInv'
  <1> USE DEF ServerStep, client_vars, table, answer
  <1>1. /\ UNCHANGED <<program, rest, cpc, sent, got, fd, tmp_fds, conn, backlog,
                       buf, taken, down>>
        /\ spc \in {"read", "write"} /\ cpc[conn[fd]] = "left"
        /\ spc' \in {"dispatch", "read", "write"}
    BY DEF ReadFails, WriteLost, WriteBreaks
  <1>2. /\ pos' \in {0, pos} /\ len' \in {0, len, MaxBuf}
        /\ spc' = "write" =>
              \/ pos' = 0 /\ len' = MaxBuf
              \/ pos' = pos /\ len' = len /\ spc = "write"
    BY DEF ReadFails, WriteLost, WriteBreaks
  <1>3. TypesOK'
    BY <1>1, <1>2, Constants DEF IInv, TypesOK
  <1>4. HandOK'
    BY <1>1 DEF IInv, HandOK
  <1>5. AnswerOK'
    BY <1>2, Constants DEF IInv, AnswerOK
  <1>6. StreamsOK'
    BY <1>1 DEF IInv, StreamsOK, Up
  <1>7. EchoExact'
    <2>1. \A c \in Clients : cpc[c] # "left" => Pending(c) = 0 /\ Pending(c)' = 0
      BY <1>1 DEF Pending
    <2> QED
      BY <1>1, <2>1 DEF IInv, EchoExact
  <1> QED
    BY <1>3, <1>4, <1>5, <1>6, <1>7 DEF IInv

\* write: what is pending gets shorter by what the stream gets longer.
LEMMA WriteInv ==
    ASSUME IInv, Write
    PROVE  IInv'
  <1> USE DEF ServerStep, client_vars, table, answer
  <1> DEFINE c == conn[fd]
             n == Least(len - pos, Cap - Len(down[c]))
             part == [k \in 1..n |-> buf[pos + k - 1]]
  <1>1. /\ spc = "write" /\ n > 0 /\ cpc[c] # "left"
        /\ UNCHANGED <<program, rest, cpc, sent, got, fd, tmp_fds, conn, backlog,
                       buf, taken>>
        /\ down' = [down EXCEPT ![c] = @ \o part]
        /\ spc' = IF pos + n = len THEN "dispatch" ELSE "write"
        /\ IF pos + n = len THEN pos' = 0 /\ len' = 0
                            ELSE pos' = pos + n /\ len' = len
    BY DEF Write
  <1>2. fd \in Fds /\ c \in Clients /\ fd \notin tmp_fds
    BY <1>1, Constants DEF IInv, HandOK, TypesOK
  <1>3. /\ down[c] \in Seq(Byte) /\ Len(down[c]) \in Nat /\ Len(down[c]) <= Cap
        /\ pos \in Nat /\ len \in Nat /\ pos < len /\ len <= MaxBuf
    BY <1>1, <1>2, ClientTypes DEF IInv, StreamsOK, AnswerOK, TypesOK
  <1> HIDE DEF c
  <1>4. n \in Nat \ {0} /\ pos + n <= len /\ n + Len(down[c]) <= Cap
    <2>1. len - pos \in Nat \ {0} /\ Cap - Len(down[c]) \in Nat
      BY <1>3, Constants
    <2>2. n \in {len - pos, Cap - Len(down[c])} /\ n <= len - pos /\ n <= Cap - Len(down[c])
      BY <2>1 DEF Least
    <2>3. n > 0
      BY <1>1
    <2> HIDE DEF n
    <2> QED
      BY <1>3, <2>1, <2>2, <2>3, Constants
  <1>5. part \in Seq(Byte) /\ Len(part) = n
    <2> HIDE DEF n
    <2>1. \A k \in 1..n : pos + k - 1 \in 0..(MaxBuf - 1)
      BY <1>3, <1>4, Constants
    <2>2. \A k \in 1..n : buf[pos + k - 1] \in Byte
      BY <2>1 DEF IInv, TypesOK
    <2> QED
      BY <1>4, <2>2
  <1>6. \A k \in 1..n : part[k] = buf[pos + k - 1]
    OBVIOUS
  <1> HIDE DEF n, part
  <1>7. /\ down[c] \o part \in Seq(Byte)
        /\ Len(down[c] \o part) = Len(down[c]) + n
        /\ \A i \in 1..(Len(down[c]) + n) :
              (down[c] \o part)[i] = IF i <= Len(down[c]) THEN down[c][i]
                                     ELSE buf[pos + (i - Len(down[c])) - 1]
    <2>1. /\ down[c] \o part \in Seq(Byte)
          /\ Len(down[c] \o part) = Len(down[c]) + Len(part)
          /\ \A i \in 1..(Len(down[c]) + Len(part)) :
                (down[c] \o part)[i] = IF i <= Len(down[c]) THEN down[c][i]
                                       ELSE part[i - Len(down[c])]
      BY <1>3, <1>5, ConcatProperties
    <2>2. \A i \in 1..(Len(down[c]) + n) : i > Len(down[c]) => i - Len(down[c]) \in 1..n
      BY <1>3, <1>4
    <2>3. ASSUME NEW i \in 1..(Len(down[c]) + n)
          PROVE  (down[c] \o part)[i] = IF i <= Len(down[c]) THEN down[c][i]
                                        ELSE buf[pos + (i - Len(down[c])) - 1]
      <3>1. (down[c] \o part)[i] = IF i <= Len(down[c]) THEN down[c][i]
                                   ELSE part[i - Len(down[c])]
        BY <1>5, <2>1
      <3>2. i > Len(down[c]) => part[i - Len(down[c])] = buf[pos + (i - Len(down[c])) - 1]
        BY <1>6, <2>2
      <3>3. i <= Len(down[c]) \/ i > Len(down[c])
        BY <1>3, <1>4
      <3> HIDE DEF c
      <3>4. CASE i <= Len(down[c])
        BY <3>1, <3>4
      <3>5. CASE ~(i <= Len(down[c]))
        BY <3>1, <3>2, <3>3, <3>5
      <3> QED
        BY <3>4, <3>5
    <2> QED
      BY <1>5, <2>1, <2>3
  <1>8. \A d \in Clients : down'[d] = IF d = c THEN down[c] \o part ELSE down[d]
    BY <1>1 DEF IInv, TypesOK
  <1>9. TypesOK'
    <2>1. down' \in [Clients -> Seq(Byte)]
      BY <1>1, <1>7 DEF IInv, TypesOK
    <2> QED
      BY <1>1, <1>3, <1>4, <2>1 DEF IInv, TypesOK
  <1>10. HandOK'
    BY <1>1 DEF IInv, HandOK
  <1>11. AnswerOK'
    BY <1>1, <1>3, <1>4 DEF AnswerOK
  <1>12. StreamsOK'
    BY <1>1, <1>2, <1>3, <1>4, <1>7, <1>8, Constants DEF IInv, StreamsOK, Up
  <1>13. EchoExact'
    <2> SUFFICES ASSUME program = "select_server", NEW d \in Clients, cpc[d] # "left"
                 PROVE  /\ taken[d] = got[d] + Len(down'[d]) + Pending(d)'
                        /\ \A k \in 1..Len(down'[d]) : down'[d][k] = <<d, got[d] + k>>
                        /\ \A k \in 1..Pending(d)' :
                              buf[pos' + k - 1] = <<d, got[d] + Len(down'[d]) + k>>
      BY <1>1 DEF EchoExact
    <2>1. /\ taken[d] = got[d] + Len(down[d]) + Pending(d)
          /\ \A k \in 1..Len(down[d]) : down[d][k] = <<d, got[d] + k>>
          /\ \A k \in 1..Pending(d) :
                buf[pos + k - 1] = <<d, got[d] + Len(down[d]) + k>>
      BY DEF IInv, EchoExact
    <2>2. CASE d # c
      <3>1. Pending(d) = 0 /\ Pending(d)' = 0
        BY <1>1, <2>2 DEF Pending, c
      <3> QED
        BY <1>8, <2>1, <2>2, <3>1
    <2>3. CASE d = c
      <3>1. Pending(d) = len - pos
        BY <1>1, <2>3 DEF Pending, c
      <3>2. Pending(d)' = len - pos - n
        BY <1>1, <1>3, <1>4, <2>3 DEF Pending, c
      <3>3. Pending(d)' > 0 => pos' = pos + n
        BY <1>1, <1>3, <1>4, <3>2
      <3>4. got[d] \in Nat /\ taken[d] \in Nat
        BY ClientTypes DEF IInv
      <3>5. Len(down'[d]) = Len(down[d]) + n
        BY <1>7, <1>8, <2>3
      <3>6. taken[d] = got[d] + Len(down'[d]) + Pending(d)'
        BY <1>3, <1>4, <2>1, <2>3, <3>1, <3>2, <3>4, <3>5
      <3>7. ASSUME NEW k \in 1..Len(down'[d]) PROVE down'[d][k] = <<d, got[d] + k>>
        <4>1. k \in 1..(Len(down[c]) + n) /\ down'[d][k] = (down[c] \o part)[k]
          BY <1>8, <2>3, <3>5, <3>7
        <4>2. CASE k <= Len(down[c])
          <5>1. down'[d][k] = down[c][k] /\ k \in 1..Len(down[c])
            BY <1>3, <1>7, <4>1, <4>2
          <5> QED
            BY <2>1, <2>3, <5>1
        <4>3. CASE ~(k <= Len(down[c]))
          <5> DEFINE j == k - Len(down[c])
          <5>1. j \in 1..Pending(d)
            BY <1>3, <1>4, <2>3, <3>1, <4>1, <4>3
          <5>2. down'[d][k] = buf[pos + j - 1]
            BY <1>7, <4>1, <4>3
          <5>3. buf[pos + j - 1] = <<d, got[d] + Len(down[d]) + j>>
            BY <2>1, <5>1
          <5>4. got[d] + Len(down[d]) + j = got[d] + k
            BY <1>3, <2>3, <3>4
          <5> QED
            BY <5>2, <5>3, <5>4
        <4> QED
          BY <4>2, <4>3
      <3>8. ASSUME NEW k \in 1..Pending(d)'
            PROVE  buf[pos' + k - 1] = <<d, got[d] + Len(down'[d]) + k>>
        <4>1. n + k \in 1..Pending(d) /\ pos' = pos + n
          BY <1>3, <1>4, <3>1, <3>2, <3>3
        <4>2. buf[pos + (n + k) - 1] = <<d, got[d] + Len(down[d]) + (n + k)>>
          BY <2>1, <4>1
        <4>3. pos + (n + k) - 1 = pos' + k - 1
          BY <1>3, <1>4, <4>1
        <4>4. got[d] + Len(down[d]) + (n + k) = got[d] + Len(down'[d]) + k
          BY <1>3, <1>4, <2>3, <3>4, <3>5
        <4> QED
          BY <4>2, <4>3, <4>4
      <3> QED
        BY <3>6, <3>7, <3>8
    <2> QED
      BY <2>2, <2>3
  <1> QED
    BY <1>9, <1>10, <1>11, <1>12, <1>13 DEF IInv

----------------------------------------------------------------------------
\* The types, the hand of the server, its answer, the streams and the echo are
\* kept by every step.
THEOREM EchoInv == Spec => []IInv
  <1>1. IInv /\ [Next]_vars => IInv'
    <2> SUFFICES ASSUME IInv, [Next]_vars PROVE IInv'
      OBVIOUS
    <2>1. CASE UNCHANGED vars
      BY <2>1 DEF vars, server_vars, client_vars, loop, table, answer, IInv, TypesOK,
                  HandOK, AnswerOK, StreamsOK, EchoExact, Up, Pending
    <2>2. CASE Next
      BY <2>2, Steps, ConnectLeaveInv, SendInv, ReceiveInv, LoopInv, ReadInv,
         FailInv, WriteInv
    <2> QED
      BY <2>1, <2>2
  <1> QED
    BY <1>1, InitInv, PTL DEF Spec

\* select_server echoes exactly: every byte it has read from a client is one
\* the client has got, one on the way, or one still to be written, in order,
\* whoever was served in between (select_server.c 78-113).
THEOREM EchoIsExact == Spec => []EchoExact
  <1>1. IInv => EchoExact
    BY DEF IInv
  <1> QED
    BY <1>1, EchoInv, PTL

\* What a run finds violated by the projector, that what is on the way to a
\* client are bytes it sent, select_server keeps.
THEOREM SelectServerOwn == Spec => [](program = "select_server" => EchoOwn)
  <1>1. ASSUME IInv, program = "select_server" PROVE EchoOwn
    <2> SUFFICES ASSUME NEW c \in Clients, NEW k \in 1..Len(down[c])
                 PROVE  down[c][k][1] = c
      BY DEF EchoOwn
    <2>1. CASE cpc[c] = "left"
      BY <1>1, <2>1, EmptySeq DEF IInv, StreamsOK
    <2>2. CASE cpc[c] # "left"
      BY <1>1, <2>2 DEF IInv, EchoExact
    <2> QED
      BY <2>1, <2>2
  <1>2. IInv => (program = "select_server" => EchoOwn)
    BY <1>1
  <1> QED
    BY <1>2, EchoInv, PTL
=============================================================================
