-------------------------------- MODULE Echo --------------------------------
(***************************************************************************)
(* The echo servers: projector.cpp (the first prototype, 295-344),         *)
(* server/unit/select_server.c and select_server_udp.c, with the clients   *)
(* client.c and server/unit/client.c.  One thread reads from whoever       *)
(* select names and writes the answer back with a blocking write; a client *)
(* writes a message, waits for an answer, and starts again or leaves.      *)
(*                                                                         *)
(* A connection is two streams, each with room for Cap bytes in the        *)
(* kernel; a byte is <<c, k>>, the k-th one client c has sent.  TCP cuts   *)
(* the streams anywhere.  A step of the server is one system call.         *)
(***************************************************************************)
EXTENDS Integers, Sequences

CONSTANTS
    Programs,       \* the servers that are run
    Clients,        \* runs of a client
    Once,           \* those of server/unit/client.c, which send one message
    Message,        \* for each client the size of its messages, MAXBUF
    Bound,          \* bound of the model: messages a client.c sends
    ServerSocket, Fds,   \* descriptors
    MaxBuf,         \* MAX_BUF
    Cap             \* bytes the kernel keeps of a stream

ASSUME EchoAssumption ==
    /\ Programs \subseteq {"projector", "select_server", "select_server_udp"}
    /\ Clients \subseteq Nat \ {0} /\ Once \subseteq Clients
    /\ Message \in [Clients -> Nat \ {0}]
    /\ Fds \subseteq Nat /\ ServerSocket \in Nat \ Fds
    /\ Bound \in Nat \ {0} /\ MaxBuf \in Nat \ {0} /\ Cap \in Nat \ {0}

VARIABLES
    program,
    server,             \* running, exited, or killed by SIGPIPE
    spc, fd, tmp_fds,   \* the server: control, descriptor in hand, snapshot
    read_fds,
    conn,               \* the client behind a descriptor, 0 if it is closed
    backlog,            \* the kernel: clients that wait to be accepted,
    failed,             \* and those of whom an error was reported, once
    buf,                \* the array of MAX_BUF bytes
    pos, len,           \* the answer: what is written, data_len or MAX_BUF
    cpc, rest,          \* the clients: control, what is left of the message
    sent, taken, got,   \* bytes a client sent, the server read, the client read
    down                \* the stream to the client

loop == <<spc, fd, tmp_fds>>
table == <<read_fds, conn>>
answer == <<buf, pos, len>>
server_vars == <<program, server, loop, table, answer, taken>>
client_vars == <<cpc, rest, sent, got>>
vars == <<server_vars, client_vars, backlog, failed, down>>

Blank == <<0, 0>>
Up(c) == sent[c] - taken[c]
Least(a, b) == IF a < b THEN a ELSE b

Init ==
    /\ program \in Programs
    /\ server = "running"
    /\ spc = "select" /\ fd = 0 /\ tmp_fds = {}
    /\ read_fds = {ServerSocket}
    /\ conn = [f \in Fds |-> 0]
    /\ backlog = {} /\ failed = {}
    /\ buf = [k \in 0..(MaxBuf - 1) |-> Blank]
    /\ pos = 0 /\ len = 0
    /\ cpc = [c \in Clients |-> "new"]
    /\ rest = Message
    /\ sent = [c \in Clients |-> 0]
    /\ taken = [c \in Clients |-> 0]
    /\ got = [c \in Clients |-> 0]
    /\ down = [c \in Clients |-> <<>>]

----------------------------------------------------------------------------
\* The clients.

ClientStep(c, from, to) ==
    /\ cpc[c] = from
    /\ cpc' = [cpc EXCEPT ![c] = to]
    /\ UNCHANGED <<server_vars, failed>>

Connect(c) ==
    /\ ClientStep(c, "new", "write")
    /\ backlog' = backlog \cup {c}
    /\ UNCHANGED <<rest, sent, got, down>>

\* write returns when the kernel has taken the whole message.
Send(c) ==
    LET n == Least(rest[c], Cap - Up(c)) IN
    /\ n > 0
    /\ ClientStep(c, "write", IF n = rest[c] THEN "read" ELSE "write")
    /\ sent' = [sent EXCEPT ![c] = @ + n]
    /\ rest' = [rest EXCEPT ![c] = @ - n]
    /\ UNCHANGED <<got, backlog, failed, down>>

Again(c) == c \notin Once /\ sent[c] < Bound * Message[c]

\* read returns what has arrived, up to the size of a message.
Receive(c) ==
    /\ \E n \in 1..Least(Message[c], Len(down[c])) :
          /\ got' = [got EXCEPT ![c] = @ + n]
          /\ down' = [down EXCEPT ![c] = SubSeq(@, n + 1, Len(@))]
    /\ ClientStep(c, "read", IF Again(c) THEN "write" ELSE "leave")
    /\ rest' = [rest EXCEPT ![c] = Message[c]]
    /\ UNCHANGED <<sent, backlog>>

\* close, or the end of the program whatever it does.
Leave(c) ==
    /\ \E from \in {"write", "read", "leave"} : ClientStep(c, from, "left")
    /\ down' = [down EXCEPT ![c] = <<>>]
    /\ UNCHANGED <<rest, sent, got, backlog>>

----------------------------------------------------------------------------
\* The server.

ServerStep(from, to) ==
    /\ spc = from
    /\ spc' = to
    /\ UNCHANGED <<program, client_vars>>

\* Who waits to be accepted is served when a descriptor is free (bound of the
\* model: there are FD_SETSIZE of them).
Readable ==
    {f \in read_fds \cap Fds :
        conn[f] # 0 /\ (Up(conn[f]) > 0 \/ cpc[conn[f]] = "left")}
    \cup {s \in {ServerSocket} : backlog # {} /\ \E f \in Fds : conn[f] = 0}

\* select_server_udp.c calls exit(1) whatever select returns.
Select ==
    /\ Readable # {}
    /\ ServerStep("select", "dispatch")
    /\ tmp_fds' = Readable
    /\ server' = IF program = "select_server_udp" THEN "exited" ELSE server
    /\ UNCHANGED <<fd, table, answer, taken, backlog, failed, down>>

\* The for loop visits the descriptors of the snapshot in ascending order.
Dispatch ==
    /\ \E f \in tmp_fds :
          /\ \A g \in tmp_fds : f <= g
          /\ ServerStep("dispatch", IF f = ServerSocket THEN "accept" ELSE "read")
          /\ fd' = f
          /\ tmp_fds' = tmp_fds \ {f}
    /\ UNCHANGED <<server, table, answer, taken, backlog, failed, down>>

DispatchDone ==
    /\ tmp_fds = {}
    /\ ServerStep("dispatch", "select")
    /\ fd' = 0
    /\ UNCHANGED <<server, tmp_fds, table, answer, taken, backlog, failed, down>>

\* The kernel returns the lowest free descriptor; FD_SET follows at once.
Accept ==
    /\ ServerStep("accept", "dispatch")
    /\ \E f \in Fds, c \in backlog :
          /\ conn[f] = 0 /\ \A g \in Fds : conn[g] = 0 => f <= g
          /\ conn' = [conn EXCEPT ![f] = c]
          /\ read_fds' = read_fds \cup {f}
          /\ backlog' = backlog \ {c}
    /\ UNCHANGED <<server, fd, tmp_fds, answer, taken, failed, down>>

\* Faulty: the whole array is sent, as by the projector.
AnswerLength_Whole(n) == MaxBuf

\* What the projector writes back is the whole array.
AnswerLength(n) == IF program = "projector" THEN MaxBuf ELSE n

Read ==
    LET c == conn[fd] IN
    /\ ServerStep("read", "write")
    /\ \E n \in 1..Least(MaxBuf, Up(c)) :
          /\ buf' = [k \in DOMAIN buf |->
                        IF k < n THEN <<c, taken[c] + k + 1>> ELSE buf[k]]
          /\ taken' = [taken EXCEPT ![c] = @ + n]
          /\ len' = AnswerLength(n)
    /\ pos' = 0
    /\ UNCHANGED <<server, fd, tmp_fds, table, backlog, failed, down>>

\* Faulty: close is missing.
ReadEnd_Leaks ==
    /\ ServerStep("read", "dispatch")
    /\ cpc[conn[fd]] = "left" /\ Up(conn[fd]) = 0
    /\ read_fds' = read_fds \ {fd}
    /\ UNCHANGED <<server, fd, tmp_fds, conn, answer, taken, backlog, failed, down>>

\* read returns 0: close and FD_CLR.
ReadEnd ==
    /\ ServerStep("read", "dispatch")
    /\ cpc[conn[fd]] = "left" /\ Up(conn[fd]) = 0
    /\ conn' = [conn EXCEPT ![fd] = 0]
    /\ read_fds' = read_fds \ {fd}
    /\ UNCHANGED <<server, fd, tmp_fds, answer, taken, backlog, failed, down>>

\* read returns -1: the projector keeps it in an unsigned int, where it is
\* more than 0.
ReadFails ==
    /\ spc = "read" /\ cpc[conn[fd]] = "left" /\ conn[fd] \notin failed
    /\ IF program = "projector"
       THEN ServerStep("read", "write") /\ len' = MaxBuf /\ UNCHANGED server
       ELSE ServerStep("read", "read") /\ server' = "exited" /\ UNCHANGED len
    /\ pos' = 0
    /\ failed' = failed \cup {conn[fd]}
    /\ UNCHANGED <<fd, tmp_fds, table, buf, taken, backlog, down>>

\* The kernel takes what there is room for; write returns at the end.
Write ==
    LET c == conn[fd]
        n == Least(len - pos, Cap - Len(down[c]))
    IN
    /\ spc = "write" /\ n > 0 /\ cpc[c] # "left"
    /\ ServerStep("write", IF pos + n = len THEN "dispatch" ELSE "write")
    /\ down' = [down EXCEPT ![c] = @ \o [k \in 1..n |-> buf[pos + k - 1]]]
    /\ IF pos + n = len THEN pos' = 0 /\ len' = 0 ELSE pos' = pos + n /\ UNCHANGED len
    /\ UNCHANGED <<server, fd, tmp_fds, table, buf, taken, backlog, failed>>

\* The client has left.  At first what is written is lost or write fails, and
\* what it returns is not looked at; later SIGPIPE ends the process.
WriteLost ==
    /\ ServerStep("write", "dispatch")
    /\ cpc[conn[fd]] = "left" /\ conn[fd] \notin failed
    /\ pos' = 0 /\ len' = 0
    /\ UNCHANGED <<server, fd, tmp_fds, table, buf, taken, backlog, failed, down>>
WriteBreaks ==
    /\ ServerStep("write", "write")
    /\ cpc[conn[fd]] = "left"
    /\ server' = "killed"
    /\ UNCHANGED <<fd, tmp_fds, table, answer, taken, backlog, failed, down>>

Server ==
    \/ Select \/ Dispatch \/ DispatchDone \/ Accept
    \/ Read \/ ReadEnd \/ ReadFails
    \/ Write \/ WriteLost \/ WriteBreaks

----------------------------------------------------------------------------
\* Once the server has ended the clients end too.
Running(A) == server = "running" /\ A
Works(c) == Send(c) \/ Receive(c) \/ (cpc[c] = "leave" /\ Leave(c))

Next == Running(Server \/ \E c \in Clients : Connect(c) \/ Works(c) \/ Leave(c))

Spec == Init /\ [][Next]_vars

\* The programs run, and system calls that can return do.
FairSpec ==
    /\ Spec
    /\ WF_vars(Running(Server))
    /\ \A c \in Clients : WF_vars(Running(Works(c)))

----------------------------------------------------------------------------
\* The answer the server is writing to client c.
Pending(c) == IF spc = "write" /\ conn[fd] = c THEN len - pos ELSE 0

\* select_server echoes: what a client has got, what is on the way to it and
\* what the server still has to write is what the server has read from it,
\* byte for byte, whoever was served in between, came on the same descriptor
\* before or left (78-113).
EchoExact ==
    program = "select_server" =>
        \A c \in Clients : cpc[c] # "left" =>
            /\ taken[c] = got[c] + Len(down[c]) + Pending(c)
            /\ \A k \in 1..Len(down[c]) : down[c][k] = <<c, got[c] + k>>
            /\ \A k \in 1..Pending(c) :
                  buf[pos + k - 1] = <<c, got[c] + Len(down[c]) + k>>

\* The server and a client are both in write, and no stream has room left.
Standoff ==
    \E c \in Clients :
        /\ spc = "write" /\ conn[fd] = c /\ cpc[c] = "write"
        /\ Len(down[c]) = Cap /\ Up(c) = Cap

\* A client that waits for its answer, or for room for its message, does not
\* wait for ever while the server runs, unless someone stands off: neither the
\* other clients, nor those that leave in the middle of an answer, nor the
\* order of the snapshot keep the server from it (projector.cpp 300-344,
\* select_server.c 56-123, client.c 69-86).
ClientsGoOn ==
    \A c \in Clients : \A here \in {"write", "read"} :
        cpc[c] = here ~> cpc[c] # here \/ server # "running" \/ Standoff

----------------------------------------------------------------------------
\* What a comment of the source says.

\* "ECHO" (projector.cpp 327): what is on the way to a client are bytes it sent.
EchoOwn ==
    \A c \in Clients : \A k \in 1..Len(down[c]) : down[c][k][1] = c
=============================================================================
