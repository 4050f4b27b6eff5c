---------------------------- MODULE FocusControl ----------------------------
(***************************************************************************)
(* server/Server.cpp: the thread of main, which accepts clients, reads     *)
(* from them and tears their connections down, and the thread of           *)
(* focusObserver, which passes the focus from client to client.  They      *)
(* share read_fds, client[], userCount, focus_fd, ready_fd and the sockets *)
(* with no lock, so a step here is one access to what is shared; what a    *)
(* thread computes between two accesses is part of the step.  Accesses     *)
(* happen in program order, as in the Debug build (-O0).                   *)
(*                                                                         *)
(* What receive does with a chunk is in module Receive; of its outcomes    *)
(* only those that touch the shared state appear here: a focus request, a  *)
(* complete picture, an invalid header.                                    *)
(***************************************************************************)
EXTENDS Integers, FiniteSets

CONSTANTS
    ServerSocket,   \* the listening descriptor
    FirstFd,        \* the first descriptor accept can return
    MaxClientNum,   \* MAX_CLIENT_NUM
    Unknown,        \* numbers of no client that a request may carry
    Departures      \* do clients leave, or get dropped for a bad header?

Fds == FirstFd..(MaxClientNum - 1)

Terminal == 0    \* descriptor 0
Nobody == -1     \* focus_fd when there is no user
Wild == -2       \* a number read from memory that was freed
Blank == 0       \* screen: no client's picture

ASSUME FocusAssumption ==
    /\ ServerSocket \in Nat \ {Terminal}
    /\ FirstFd \in Nat
    /\ MaxClientNum \in Nat
    /\ ServerSocket < FirstFd
    /\ FirstFd < MaxClientNum
    /\ Unknown \subseteq Nat \ {Terminal}
    /\ Unknown \cap Fds = {}
    /\ Departures \in BOOLEAN

VARIABLES
    sock,        \* the kernel's view of a descriptor: closed, open, gone (the
                 \* peer has left), shut (after shutdown, before close)
    told,        \* history: who was sent a well-formed focus status
    read_fds,    \* the descriptors select watches
    client,      \* client[fd]: null, live, or dangling after delete
    userCount,
    focus_fd,    \* who has the focus
    ready_fd,    \* who shall get it
    screen,      \* whose picture is in the frame buffer
    mpc, fd, tmp_fds,          \* main: control, descriptor in hand, snapshot
    opc, oval, slot, skewed,   \* focusObserver: control, value loaded (0 once
                               \* used), index i, is writeRemain too large?
    alive        \* the process has not been ended by a signal

kernel == <<sock, told>>
table == <<read_fds, client, userCount>>
focus == <<focus_fd, ready_fd>>
main == <<mpc, fd, tmp_fds>>
observer == <<opc, oval, slot, skewed>>
vars == <<kernel, table, focus, screen, main, observer, alive>>

Init ==
    /\ sock = [f \in Fds |-> "closed"]
    /\ told = {}
    /\ read_fds = {ServerSocket}
    /\ client = [f \in Fds |-> "null"]
    /\ userCount = 0
    /\ focus_fd = 0 /\ ready_fd = 0
    /\ screen = Blank
    /\ mpc = "select" /\ fd = 0 /\ tmp_fds = {}
    /\ opc = "look" /\ oval = 0 /\ slot = FirstFd /\ skewed = FALSE
    /\ alive = TRUE

----------------------------------------------------------------------------
\* The peers: a client closes its connection or loses it.
Depart(f) ==
    /\ Departures
    /\ sock[f] = "open"
    /\ sock' = [sock EXCEPT ![f] = "gone"]
    /\ UNCHANGED <<told, table, focus, screen, main, observer, alive>>

----------------------------------------------------------------------------
\* main: the select loop.

MainStep(from, to) ==
    /\ mpc = from
    /\ mpc' = to
    /\ UNCHANGED <<observer, alive>>

\* A test, or work on what is not shared.
MainGoto(from, to) ==
    /\ MainStep(from, to)
    /\ UNCHANGED <<fd, tmp_fds, kernel, table, focus, screen>>

\* Stores to focus_fd or ready_fd.
MainStore(from, to, f, r) ==
    /\ MainStep(from, to)
    /\ focus_fd' = f
    /\ ready_fd' = r
    /\ UNCHANGED <<fd, tmp_fds, kernel, table, screen>>

\* Stores to read_fds, to client[fd], or to userCount.
MainTable(from, to, fds, entry, users) ==
    /\ MainStep(from, to)
    /\ read_fds' = fds
    /\ client' = [client EXCEPT ![fd] = entry]
    /\ userCount' = users
    /\ UNCHANGED <<fd, tmp_fds, kernel, focus, screen>>

\* A system call on the descriptor in hand.
MainSock(from, to, s) ==
    /\ MainStep(from, to)
    /\ sock' = [sock EXCEPT ![fd] = s]
    /\ told' = IF s = "closed" THEN told \ {fd} ELSE told
    /\ UNCHANGED <<fd, tmp_fds, table, focus, screen>>

\* The loop stops accepting when every descriptor below MAX_CLIENT_NUM is
\* taken: what accept returns then does not fit client[] (bound of the model).
Waiting == {s \in {ServerSocket} : \E f \in Fds : sock[f] = "closed"}
WithData == {f \in read_fds \cap Fds : sock[f] = "open"}
AtEnd == {f \in read_fds \cap Fds : sock[f] = "gone"}

Select ==
    /\ MainStep("select", "dispatch")
    /\ \E s \in SUBSET (Waiting \cup WithData) :
          /\ s \cup AtEnd # {}
          /\ tmp_fds' = s \cup AtEnd
    /\ UNCHANGED <<fd, kernel, table, focus, screen>>

\* The for loop visits the descriptors of the snapshot in ascending order.
Dispatch ==
    /\ \E f \in tmp_fds :
          /\ \A g \in tmp_fds : f <= g
          /\ MainStep("dispatch", IF f = ServerSocket THEN "accept" ELSE "read")
          /\ fd' = f
          /\ tmp_fds' = tmp_fds \ {f}
    /\ UNCHANGED <<kernel, table, focus, screen>>

DispatchDone == tmp_fds = {} /\ MainGoto("dispatch", "select")

\* The kernel returns the lowest free descriptor.
Accept ==
    /\ MainStep("accept", "fdset")
    /\ \E c \in Fds :
          /\ sock[c] = "closed"
          /\ \A d \in Fds : sock[d] = "closed" => c <= d
          /\ sock' = [sock EXCEPT ![c] = "open"]
          /\ fd' = c
    /\ UNCHANGED <<told, tmp_fds, table, focus, screen>>

AddDescriptor ==
    MainTable("fdset", "construct", read_fds \cup {fd}, client[fd], userCount)

\* Client::init: only main writes userCount, so its test and what follows it
\* are one step.
ConstructFirst ==
    userCount = 0 /\ MainStore("construct", "setready", Nobody, ready_fd)
ConstructNext == userCount # 0 /\ MainGoto("construct", "count")

\* Faulty: the first client makes both ends of the handover nobody.
SetReady_Nobody == MainStore("setready", "count", focus_fd, Nobody)

SetReady == MainStore("setready", "count", focus_fd, fd)
Count == MainTable("count", "publish", read_fds, client[fd], userCount + 1)
Publish == MainTable("publish", "dispatch", read_fds, "live", userCount)

----------------------------------------------------------------------------
\* main: read and Client::receive.

Read == MainGoto("read", "receive")
ReadNothing == MainGoto("read", "shutdown") /\ sock[fd] = "gone"

\* A focus frame is complete.
Request ==
    \E v \in (read_fds \cap Fds) \cup Unknown :
        MainStore("receive", "receive", focus_fd, v)

\* An image frame is complete: first the test, then the picture, which is not
\* drawn when it has another size than the screen.
ImageOfFocus == focus_fd = fd /\ MainGoto("receive", "draw")
Draw ==
    /\ MainStep("draw", "receive")
    /\ screen' \in {fd, screen}
    /\ UNCHANGED <<fd, tmp_fds, kernel, table, focus>>

ChunkEnd == MainGoto("receive", "dispatch")
InvalidHeader == Departures /\ MainGoto("receive", "shutdown")

----------------------------------------------------------------------------
\* main: the end of a connection.

Shutdown == MainSock("shutdown", "close", "shut")
Close == MainSock("close", "fdclr", "closed")

\* Faulty: FD_CLR is missing.
ClearDescriptor_Missing == MainGoto("fdclr", "uncount")

ClearDescriptor ==
    MainTable("fdclr", "uncount", read_fds \ {fd}, client[fd], userCount)

\* Faulty: the last user is not taken off.
Uncount_KeepsOne ==
    MainTable("uncount", "hosttest", read_fds, client[fd],
              IF userCount > 1 THEN userCount - 1 ELSE userCount)

\* Client::~Client.
Uncount == MainTable("uncount", "hosttest", read_fds, client[fd], userCount - 1)
HostTest ==
    MainGoto("hosttest", IF focus_fd # fd THEN "free"
                         ELSE IF userCount = 0 THEN "focusoff" ELSE "handover")

\* The last user leaves with the focus, or the host leaves others behind.
FocusOff == MainStore("focusoff", "readyoff", Nobody, ready_fd)
ReadyOff == MainStore("readyoff", "free", focus_fd, Nobody)
Handover == MainStore("handover", "free", focus_fd, 0)

\* Faulty: client[fd] = NULL is missing after delete.
Unpublish_Missing == MainGoto("unpublish", "dispatch")

Free == MainTable("free", "unpublish", read_fds, "dangling", userCount)
Unpublish == MainTable("unpublish", "dispatch", read_fds, "null", userCount)

----------------------------------------------------------------------------
\* focusObserver: what its steps have in common.

ObserverStep(from, to) ==
    /\ opc = from
    /\ opc' = to
    /\ UNCHANGED <<main, read_fds, client, userCount, screen, sock>>

\* A load of the shared variable v.
Load(from, to, v) ==
    /\ ObserverStep(from, to)
    /\ oval' = v
    /\ UNCHANGED <<told, focus, slot, skewed, alive>>

\* A test of what was loaded; the index goes on at i.
Turn(from, to, i) ==
    /\ ObserverStep(from, to)
    /\ oval' = 0
    /\ slot' = i
    /\ UNCHANGED <<told, focus, skewed, alive>>

\* A store of what was loaded.
Store(from, to, f, r) ==
    /\ ObserverStep(from, to)
    /\ focus_fd' = f
    /\ ready_fd' = r
    /\ oval' = 0
    /\ UNCHANGED <<told, slot, skewed, alive>>

\* The process dies of a signal.
Die(from) ==
    /\ ObserverStep(from, from)
    /\ alive' = FALSE
    /\ UNCHANGED <<told, focus, oval, slot, skewed>>

\* A load of client[slot]->fd, which the code tested earlier, if at all.
LoadFd(from, to) ==
    /\ opc = from
    /\ \/ client[slot] \in {"live", "dangling"} /\ Load(from, to, slot)
       \/ client[slot] = "dangling" /\ Load(from, to, Wild)
       \/ client[slot] = "null" /\ Die(from)

\* What FD_ISSET(v, &read_fds) can be: for a negative or a wild number it
\* looks at memory that is not the set's.
Isset(v) == IF v < 0 THEN BOOLEAN ELSE {v \in read_fds}

\* FD_ISSET(oval, &read_fds) decides where to go on.
TestBit(from, yes, no) ==
    \E b \in Isset(oval) : Turn(from, IF b THEN yes ELSE no, slot)

----------------------------------------------------------------------------
\* focusObserver: the write loops (723-727, 764-768).

Written(from, to, readers, skew) ==
    /\ ObserverStep(from, to)
    /\ told' = told \cup readers
    /\ skewed' = skew
    /\ oval' = 0
    /\ UNCHANGED <<focus, slot, alive>>

IsA(states) == oval \in Fds /\ sock[oval] \in states

\* The status arrives; when an earlier write failed, the range written starts
\* before the message.
WriteArrives(from, done) ==
    IsA({"open"}) /\ Written(from, done, IF skewed THEN {} ELSE {oval}, FALSE)

\* write succeeds and no client reads it.
WriteLost(from, done) ==
    /\ oval \in {Terminal, Wild} \/ IsA({"gone"})
    /\ Written(from, done, {}, FALSE)

\* write returns -1, and writeRemain -= -1: the loop goes round again.
WriteFails(from, again) ==
    /\ oval \notin Fds \cup {ServerSocket} \/ IsA({"gone", "closed"})
    /\ Written(from, again, {}, TRUE)

\* The connection can no longer be written to: SIGPIPE, which nobody handles.
WriteBreaks(from) ==
    (oval = ServerSocket \/ IsA({"gone", "shut"})) /\ Die(from)

Write(from, again, done) ==
    \/ WriteArrives(from, done)
    \/ WriteLost(from, done)
    \/ WriteFails(from, again)
    \/ WriteBreaks(from)

----------------------------------------------------------------------------
\* focusObserver: its loop.

\* Faulty: only a higher descriptor takes over.
Compare_Greater ==
    Turn("compare", IF oval > ready_fd THEN "isset" ELSE "look", slot)

LoadFocus == Load("look", "compare", focus_fd)
Compare == Turn("compare", IF oval # ready_fd THEN "isset" ELSE "look", slot)
LoadReady == Load("isset", "isready", ready_fd)
IsReady == TestBit("isready", "target", "empty")

\* The one who shall get the focus is connected; the loop reads ready_fd anew
\* for every write and once more for the assignment.
LoadTarget == Load("target", "send", ready_fd)
Send == Write("send", "target", "assign")
LoadAssign == Load("assign", "grant", ready_fd)
Grant == Store("grant", "look", oval, ready_fd)

\* It is not: with no user there is nothing to do.
TestEmpty == Turn("empty", IF userCount = 0 THEN "look" ELSE "scan", FirstFd)

\* Faulty: the index goes on from the descriptor, not from itself.
NextSlot_FromFd(from) == Turn(from, "scan", oval + 1)

\* Faulty: client[i] is not compared with NULL.
ScanClient_NoTest == slot # MaxClientNum /\ Turn("scan", "member", slot)

\* for (i = 0; i < MAX_CLIENT_NUM; i++): the entries below FirstFd are NULL.
NextSlot(from) == Turn(from, "scan", slot + 1)
ScanDone == slot = MaxClientNum /\ Turn("scan", "look", slot)
ScanEmpty == slot # MaxClientNum /\ client[slot] = "null" /\ NextSlot("scan")
ScanClient ==
    slot # MaxClientNum /\ client[slot] # "null" /\ Turn("scan", "member", slot)

\* continue when the entry is not connected, or has the focus already.
LoadMember == LoadFd("member", "ismember")
IsMember ==
    \/ TestBit("ismember", "self", "skip")
    \/ oval = Wild /\ Die("ismember")
    \/ NextSlot("skip")
LoadSelf == LoadFd("self", "isself")
IsSelf ==
    \/ oval = focus_fd /\ NextSlot("isself")
    \/ oval # focus_fd /\ Turn("isself", "other", slot)

LoadOther == LoadFd("other", "sendother")
SendOther == Write("sendother", "other", "take")
LoadTake == LoadFd("take", "takefocus")
TakeFocus == Store("takefocus", "echo", oval, ready_fd)
LoadEcho == Load("echo", "takeready", focus_fd)
TakeReady == Store("takeready", "look", focus_fd, oval)

----------------------------------------------------------------------------
Main ==
    \/ Select \/ Dispatch \/ DispatchDone
    \/ Accept \/ AddDescriptor \/ ConstructFirst \/ ConstructNext
    \/ SetReady \/ Count \/ Publish
    \/ Read \/ ReadNothing \/ Request \/ ImageOfFocus \/ Draw
    \/ ChunkEnd \/ InvalidHeader
    \/ Shutdown \/ Close \/ ClearDescriptor \/ Uncount \/ HostTest
    \/ FocusOff \/ ReadyOff \/ Handover \/ Free \/ Unpublish

Observer ==
    \/ LoadFocus \/ Compare \/ LoadReady \/ IsReady
    \/ LoadTarget \/ Send \/ LoadAssign \/ Grant
    \/ TestEmpty \/ ScanDone \/ ScanEmpty \/ ScanClient
    \/ LoadMember \/ IsMember \/ LoadSelf \/ IsSelf
    \/ LoadOther \/ SendOther \/ LoadTake \/ TakeFocus
    \/ LoadEcho \/ TakeReady

\* A dead process takes no step.
MainNext == alive /\ Main
ObserverNext == alive /\ Observer
PeersNext == alive /\ \E f \in Fds : Depart(f)

Next == MainNext \/ ObserverNext \/ PeersNext

Spec == Init /\ [][Next]_vars

\* The observer's loop is never descheduled for ever, and a write to a client
\* that reads returns.  Nothing is assumed of the clients, and so of main.
FairSpec == Spec /\ WF_vars(ObserverNext)

----------------------------------------------------------------------------
FlagsOK == skewed \in BOOLEAN /\ alive \in BOOLEAN

\* Every variable has its type.
TypeOK ==
    /\ sock \in [Fds -> {"closed", "open", "gone", "shut"}]
    /\ told \subseteq Fds
    /\ read_fds \subseteq Fds \cup {ServerSocket}
    /\ client \in [Fds -> {"null", "live", "dangling"}]
    /\ userCount \in Int
    /\ focus_fd \in Int /\ ready_fd \in Int
    /\ screen \in Fds \cup {Blank}
    /\ mpc \in {"select", "dispatch", "accept", "fdset", "construct",
                "setready", "count", "publish", "read", "receive", "draw",
                "shutdown", "close", "fdclr", "uncount", "hosttest",
                "focusoff", "readyoff", "handover", "free", "unpublish"}
    /\ fd \in Int
    /\ mpc \notin {"select", "dispatch", "accept"} => fd \in Fds
    /\ tmp_fds \subseteq Fds \cup {ServerSocket}
    /\ opc \in {"look", "compare", "isset", "isready", "target", "send",
                "assign", "grant", "empty", "scan", "member", "ismember",
                "skip", "self", "isself", "other", "sendother", "take",
                "takefocus", "echo", "takeready"}
    /\ oval \in Int
    /\ slot \in FirstFd..MaxClientNum
    /\ opc \in {"member", "ismember", "skip", "self", "isself", "other",
                "sendother", "take"} => slot \in Fds
    /\ FlagsOK

\* main is at one of the steps pcs, with f in hand.
At(f, pcs) == mpc \in pcs /\ fd = f

Constructing == {"construct", "setready", "count", "publish"}
Destroying == {"uncount", "hosttest", "focusoff", "readyoff", "handover",
               "free", "unpublish"}

\* select never watches a descriptor that has no connection, and never
\* forgets one that has: read_fds and the kernel agree except while main is
\* between accept and FD_SET, or between shutdown and FD_CLR (948-950,
\* 966-968).  No interleaving with the observer or the clients widens these
\* windows, whatever their number.
SelectServes ==
    \A f \in Fds :
        /\ f \in read_fds =>
               sock[f] \in {"open", "gone"} \/ At(f, {"close", "fdclr"})
        /\ sock[f] \in {"open", "gone"} =>
               f \in read_fds \/ At(f, {"fdset"})

\* A connection has its Client object and main never uses one that is gone: a
\* descriptor of the snapshot tmp_fds that an earlier iteration of the for
\* loop could have closed still names the client it named at the select, and
\* accept never returns the index of an entry in use (942-986).
TableServes ==
    /\ \A f \in Fds :
          /\ f \in read_fds => client[f] = "live" \/ At(f, Constructing)
          /\ client[f] # "null" => f \in read_fds \/ At(f, Destroying)
          /\ client[f] = "dangling" => At(f, {"unpublish"})
    /\ tmp_fds \cap Fds \subseteq read_fds
    /\ mpc \in {"read", "receive", "draw", "shutdown"} =>
          client[fd] = "live" /\ fd \notin tmp_fds
    /\ mpc \in {"fdset"} \cup Constructing => client[fd] = "null"

Counted == {f \in Fds : client[f] # "null"}

\* userCount, on which the first client becomes host and the last one resets
\* the focus, counts the entries of client[], but for the one whose
\* constructor or destructor is running (205-236, 176-203).
CountMatches ==
    Cardinality(Counted) =
        userCount - (IF mpc = "publish" THEN 1 ELSE 0)
                  + (IF mpc \in Destroying \ {"uncount"} THEN 1 ELSE 0)

----------------------------------------------------------------------------
\* What a thread that looks on can rely on.

Phase ==
    CASE mpc \in {"construct", "setready", "count"} -> "watched"
      [] mpc = "publish" -> "counted"
      [] mpc = "uncount" -> "unwatched"
      [] mpc \in Destroying \ {"uncount", "unpublish"} -> "uncounted"
      [] mpc = "unpublish" -> "freed"
      [] OTHER -> "idle"

InHandFd == IF Phase = "idle" THEN 0 ELSE fd

Promised == INSTANCE Roster WITH
    Strays <- Int, phase <- Phase, inHand <- InHandFd

\* A client is watched, counted and published in this order, and unwatched,
\* uncounted, freed and cleared in this one; main does it for one client at a
\* time and the observer changes focus_fd alone (948-986, 176-236).
KeepsRoster == Promised!Spec

----------------------------------------------------------------------------
\* While nobody leaves.

\* Neither a write to a client nor a look at client[i] ends the process.
NeverKilled == ~Departures => alive

\* The observer has nothing to do and there are users.
Settled == opc = "look" /\ focus_fd = ready_fd /\ userCount > 0

\* A client that exists has the focus, when all requests name clients.
FocusConnected == Settled => focus_fd \in read_fds \cap Fds

\* A client that shall get the focus gets it, or someone else is to have it:
\* no handover is forgotten (707-729).
FocusGranted ==
    \A f \in Fds :
        (ready_fd = f /\ f \in read_fds) ~> (focus_fd = f \/ ready_fd # f)

\* Once there is a user some client gets the focus (228-233, 743-777).
SomeoneHosts == (userCount > 0) ~> (focus_fd \in read_fds \cap Fds)

----------------------------------------------------------------------------
\* What comments of the source say.

\* "If the current focus fd is greater than 0 it exists" (80).
FocusExists == Settled /\ mpc = "select" /\ focus_fd > 0 => focus_fd \in read_fds

\* "It tries to hand the focus over by communication with that user" (692):
\* who has got the focus has been told.
HostWasTold == Settled /\ focus_fd \in read_fds => focus_fd \in told

\* "If the user is not found, it hands over to the user with the fastest
\* socket" (693): a handover comes to an end.
HandoverEnds == (opc = "send") ~> (opc = "look")
=============================================================================
