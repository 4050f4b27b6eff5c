------------------------------ MODULE UserList ------------------------------
(***************************************************************************)
(* server/Server.cpp, userListThread: every 5 seconds it sends the host    *)
(* the list of the other users with their names and pictures.  It measures *)
(* the list in one pass over client[] and fills it in a second one, while  *)
(* main changes client[] and the clients' buffers and the observer moves   *)
(* the focus.  Nothing is locked.                                          *)
(*                                                                         *)
(* What main and the observer do to the table is module Roster.  A step of *)
(* the thread is one statement.                                            *)
(***************************************************************************)
EXTENDS Roster, FiniteSets

CONSTANTS
    NameLengths,     \* lengths of names
    PictureLengths,  \* lengths of pictures
    Departures       \* do clients leave?

IntSize == 4
HeaderSize == 2 * IntSize
NoPicture == -1      \* jpegBuffer = NULL

ASSUME ListAssumption ==
    /\ NameLengths \subseteq Nat
    /\ PictureLengths \subseteq Nat
    /\ Departures \in BOOLEAN

VARIABLES
    userNameLength, jpegOffset,   \* of each client
    jpegBuffer,      \* the length of the array, or NoPicture
    drawn,           \* the client whose picture main is replacing, 0 if none
    lpc, i,          \* userListThread: control, index
    dataLength, userListCount, sendOffset,
    listed,          \* the clients in sendBuf
    quiet,           \* history: the list has not changed under the thread
    alive            \* the process has not been ended by a signal

buffers == <<userNameLength, jpegOffset, jpegBuffer, drawn>>
thread == <<lpc, i, dataLength, userListCount, sendOffset, listed>>
listVars == <<roster, buffers, thread, quiet, alive>>

ListInit ==
    /\ Init
    /\ userNameLength = [f \in Fds |-> 0]
    /\ jpegOffset = [f \in Fds |-> 0]
    /\ jpegBuffer = [f \in Fds |-> NoPicture]
    /\ drawn = 0
    /\ lpc = "asleep" /\ i = FirstFd
    /\ dataLength = 0 /\ userListCount = 0 /\ sendOffset = 0 /\ listed = {}
    /\ quiet = TRUE
    /\ alive = TRUE

----------------------------------------------------------------------------
\* main and the observer.

\* A step of main that is not part of the replacement of a picture; a client
\* that comes finds empty buffers, and ~Client frees the picture first.
Change ==
    /\ drawn = 0
    /\ \/ \E f \in Fds : Watch(f)
       \/ Count \/ Publish \/ Free
       \/ Departures /\ \E f \in Fds : Unwatch(f)
       \/ Uncount /\ jpegBuffer[inHand] = NoPicture
    /\ quiet' = FALSE
    /\ UNCHANGED <<buffers, thread, alive>>

Forget ==
    /\ drawn = 0
    /\ Clear
    /\ userNameLength' = [userNameLength EXCEPT ![inHand] = 0]
    /\ jpegOffset' = [jpegOffset EXCEPT ![inHand] = 0]
    /\ quiet' = FALSE
    /\ UNCHANGED <<jpegBuffer, drawn, thread, alive>>

FocusMoves ==
    /\ Refocus
    /\ quiet' = FALSE
    /\ UNCHANGED <<buffers, thread, alive>>

\* receive changes the buffers of f; those of the host are not in the list.
Receives(f) ==
    /\ phase = "idle"
    /\ client[f] = "live"
    /\ quiet' = (quiet /\ f = focus_fd)
    /\ UNCHANGED <<roster, thread, alive>>

Rename(f) ==
    /\ Receives(f)
    /\ drawn = 0
    /\ \E n \in NameLengths :
          userNameLength' = [userNameLength EXCEPT ![f] = n]
    /\ UNCHANGED <<jpegOffset, jpegBuffer, drawn>>

\* delete jpegBuffer, then a new array, then jpegOffset.
DropPicture(f) ==
    /\ Receives(f)
    /\ drawn = 0
    /\ jpegBuffer' = [jpegBuffer EXCEPT ![f] = NoPicture]
    /\ drawn' = f
    /\ UNCHANGED <<userNameLength, jpegOffset>>

NewPicture(f) ==
    /\ Receives(f)
    /\ drawn = f /\ jpegBuffer[f] = NoPicture
    /\ \E n \in PictureLengths : jpegBuffer' = [jpegBuffer EXCEPT ![f] = n]
    /\ UNCHANGED <<userNameLength, jpegOffset, drawn>>

SetOffset(f) ==
    /\ Receives(f)
    /\ drawn = f /\ jpegBuffer[f] # NoPicture
    /\ jpegOffset' = [jpegOffset EXCEPT ![f] = jpegBuffer[f]]
    /\ drawn' = 0
    /\ UNCHANGED <<userNameLength, jpegBuffer>>

\* ~Client.
FreePicture ==
    /\ phase = "unwatched"
    /\ jpegBuffer[inHand] # NoPicture
    /\ jpegBuffer' = [jpegBuffer EXCEPT ![inHand] = NoPicture]
    /\ quiet' = FALSE
    /\ UNCHANGED <<roster, userNameLength, jpegOffset, drawn, thread, alive>>

Others ==
    \/ Change \/ Forget \/ FocusMoves \/ FreePicture
    \/ \E f \in Fds : Rename(f) \/ DropPicture(f) \/ NewPicture(f) \/ SetOffset(f)

----------------------------------------------------------------------------
\* userListThread.

Goto(from, to) ==
    /\ lpc = from
    /\ lpc' = to
    /\ UNCHANGED <<roster, buffers>>

\* Statements that change neither the sums nor the index.
Turn(from, to, next) ==
    /\ Goto(from, to)
    /\ i' = next
    /\ UNCHANGED <<dataLength, userListCount, sendOffset, listed, quiet, alive>>

\* The process dies: a NULL pointer is used, or SIGPIPE.
Die(from) ==
    /\ Goto(from, from)
    /\ alive' = FALSE
    /\ UNCHANGED <<i, dataLength, userListCount, sendOffset, listed, quiet>>

\* What a load of a field through client[i] can yield: memory that was freed
\* holds anything.
Loaded(v, any) ==
    CASE client[i] = "live" -> {v}
      [] client[i] = "dangling" -> {v} \cup any
      [] OTHER -> {}

UsesNull(from) == client[i] = "null" /\ Die(from)

\* A number or a pointer read from freed memory leads out of the program's.
UsesFreed(from) == client[i] = "dangling" /\ Die(from)

\* After 5 seconds: is there a host and someone else?
Wake ==
    /\ focus_fd > 0 /\ userCount > 1
    /\ Goto("asleep", "announce")
    /\ quiet' = (phase = "idle" /\ drawn = 0)
    /\ UNCHANGED <<i, dataLength, userListCount, sendOffset, listed, alive>>

\* Faulty: the host is counted.
Announce_KeepsHost ==
    /\ Goto("announce", "measure")
    /\ userListCount' = userCount
    /\ dataLength' = IntSize
    /\ i' = FirstFd
    /\ UNCHANGED <<sendOffset, listed, quiet, alive>>

Announce ==
    /\ Goto("announce", "measure")
    /\ userListCount' = userCount - 1
    /\ dataLength' = IntSize
    /\ i' = FirstFd
    /\ UNCHANGED <<sendOffset, listed, quiet, alive>>

\* client[i] != NULL && FD_ISSET(client[i]->fd, &read_fds), in both passes.
Connected(pass, member) ==
    /\ lpc = pass /\ i # MaxClientNum
    /\ \/ client[i] = "null" /\ Turn(pass, pass, i + 1)
       \/ \E b \in Loaded(i \in read_fds, BOOLEAN) :
             IF b THEN Turn(pass, member, i) ELSE Turn(pass, pass, i + 1)
       \/ UsesFreed(pass)

\* Faulty: the host is left out without going on to the next entry.
SkipHost_Stays(pass, member, entry) ==
    /\ lpc = member
    /\ \/ \E b \in Loaded(i = focus_fd, BOOLEAN) :
             Turn(member, IF b THEN pass ELSE entry, i)
       \/ UsesNull(member)

\* The host's own screen is left out, in both passes.
SkipHost(pass, member, entry) ==
    /\ lpc = member
    /\ \/ \E b \in Loaded(i = focus_fd, BOOLEAN) :
             IF b THEN Turn(member, pass, i + 1) ELSE Turn(member, entry, i)
       \/ UsesNull(member)

\* The first pass.
Measure(from, to, length, any, next) ==
    /\ lpc = from
    /\ \/ \E n \in Loaded(length, any) :
             /\ Goto(from, to)
             /\ dataLength' = dataLength + n
             /\ i' = next
             /\ UNCHANGED <<userListCount, sendOffset, listed, quiet, alive>>
       \/ UsesNull(from)

MeasureConnected == Connected("measure", "measurehost")
MeasureSkip == SkipHost("measure", "measurehost", "measurename")
MeasureName ==
    Measure("measurename", "measureimage",
            2 * IntSize + userNameLength[i], {2 * IntSize + n : n \in NameLengths}, i)
MeasureImage ==
    Measure("measureimage", "measure",
            IntSize + jpegOffset[i], {IntSize + n : n \in PictureLengths}, i + 1)

\* new char[HEADER_SIZE + dataLength], the header and the number of users.
Allocate ==
    /\ i = MaxClientNum
    /\ Goto("measure", "fill")
    /\ sendOffset' = HeaderSize + IntSize
    /\ listed' = {}
    /\ i' = FirstFd
    /\ UNCHANGED <<dataLength, userListCount, quiet, alive>>

\* The second pass.
Fill(from, to, length, any, next) ==
    /\ lpc = from
    /\ \/ \E n \in Loaded(length, any) :
             /\ Goto(from, to)
             /\ sendOffset' = sendOffset + n
             /\ listed' = listed \cup {i}
             /\ i' = next
             /\ UNCHANGED <<dataLength, userListCount, quiet, alive>>
       \/ UsesNull(from)

\* Faulty: the second pass does not leave out the host.
FillSkip_Missing == Turn("fillhost", "fillid", i)

FillConnected == Connected("fill", "fillhost")
FillSkip == SkipHost("fill", "fillhost", "fillid")
FillId == Fill("fillid", "fillname", 2 * IntSize, {}, i)
FillName ==
    \/ Fill("fillname", "fillsize", userNameLength[i], NameLengths, i)
    \/ lpc = "fillname" /\ UsesFreed("fillname")
FillSize == Fill("fillsize", "fillimage", IntSize, {}, i)

\* memcpy of jpegOffset cells from jpegBuffer, which may be NULL.
FillImage ==
    /\ lpc = "fillimage"
    /\ \/ IF client[i] = "live" /\ jpegBuffer[i] = NoPicture /\ jpegOffset[i] > 0
          THEN Die("fillimage")
          ELSE Fill("fillimage", "filloffset", 0, {}, i)
       \/ UsesFreed("fillimage")
FillOffset == Fill("filloffset", "fill", jpegOffset[i], PictureLengths, i + 1)

Filled == i = MaxClientNum /\ Turn("fill", "write", i)

\* sndBufRemain -= sndBufRemain: one write, whatever it returns.
Write ==
    /\ Goto("write", "asleep")
    /\ i' = FirstFd
    /\ dataLength' = 0 /\ userListCount' = 0 /\ sendOffset' = 0 /\ listed' = {}
    /\ UNCHANGED <<quiet, alive>>
WriteBreaks == Departures /\ Die("write")

UserListThread ==
    \/ Wake \/ Announce
    \/ MeasureConnected \/ MeasureSkip \/ MeasureName \/ MeasureImage
    \/ Allocate
    \/ FillConnected \/ FillSkip \/ FillId \/ FillName \/ FillSize
    \/ FillImage \/ FillOffset \/ Filled
    \/ Write \/ WriteBreaks

\* A dead process takes no step.
OthersNext == alive /\ Others
ListNext == alive /\ UserListThread

NextList == OthersNext \/ ListNext

ListSpec == ListInit /\ [][NextList]_listVars

\* The thread is never descheduled for ever, and a write returns.
FairListSpec == ListSpec /\ WF_listVars(ListNext)

----------------------------------------------------------------------------
\* Every variable has its type.
ListTypeOK ==
    /\ read_fds \subseteq Fds \cup {ServerSocket}
    /\ client \in [Fds -> {"null", "live", "dangling"}]
    /\ userCount \in 0..Cardinality(Fds) /\ focus_fd \in Int
    /\ phase \in {"idle", "watched", "counted", "unwatched", "uncounted", "freed"}
    /\ inHand \in IF phase = "idle" THEN {0} ELSE Fds
    /\ userNameLength \in [Fds -> {0} \cup NameLengths]
    /\ jpegOffset \in [Fds -> {0} \cup PictureLengths]
    /\ jpegBuffer \in [Fds -> {NoPicture} \cup PictureLengths]
    /\ drawn \in Fds \cup {0}
    /\ lpc \in {"asleep", "announce", "measure", "measurehost", "measurename",
                "measureimage", "fill", "fillhost", "fillid", "fillname",
                "fillsize", "fillimage", "filloffset", "write"}
    /\ i \in IF lpc \in {"asleep", "announce", "measure", "fill", "write"}
             THEN FirstFd..MaxClientNum ELSE Fds
    /\ dataLength \in Nat /\ sendOffset \in Nat
    /\ userListCount \in -1..(Cardinality(Fds) - 1)
    /\ listed \subseteq Fds
    /\ quiet \in BOOLEAN /\ alive \in BOOLEAN

Users == {f \in Fds : client[f] = "live"}

\* When nothing in the list changed since the thread woke up, whatever the
\* host did meanwhile and whatever main left half done before, the list is
\* exact: it holds the users other than the host, as many as it announces, and
\* has the length its header says (598-670).
ListExact ==
    quiet /\ lpc = "write" =>
        /\ sendOffset = HeaderSize + dataLength
        /\ listed = Users \ {focus_fd}
        /\ focus_fd \in Users => Cardinality(listed) = userListCount

\* While there is a host and someone else and the process lives, the list
\* comes again and again: neither clients that come, send and move the focus
\* all the time nor a failing write keep the thread in a loop (592, 672-677).
ListComes ==
    <>[](focus_fd > 0 /\ userCount > 1 /\ alive) => []<>(lpc = "announce")

----------------------------------------------------------------------------
\* What comments of the source say.

\* "Except the focused own screen" (610, 649).
HostNotListed == lpc = "write" => focus_fd \notin listed

\* "It continuously hands the current user list to the focused user" (589).
ListKeepsComing ==
    <>[](focus_fd > 0 /\ userCount > 1) => []<>(lpc = "announce")
=============================================================================
