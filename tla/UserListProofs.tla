--------------------------- MODULE UserListProofs ---------------------------
(***************************************************************************)
(* Proofs about Roster and UserList for any number of clients, names and   *)
(* pictures of any length: the table of the clients and their number stay  *)
(* together, types, and that a list that is made undisturbed is exact.     *)
(***************************************************************************)
EXTENDS UserList, FiniteSetTheorems, WellFoundedInduction, TLAPS

\* Descriptors are numbers from FirstFd to MaxClientNum - 1, and not 0.
LEMMA FdsBounds ==
    /\ Fds \subseteq Int /\ 0 \notin Fds /\ ServerSocket \notin Fds
    /\ \A f \in Int : f \in Fds <=> FirstFd <= f /\ f < MaxClientNum
  BY RosterAssumption DEF Fds

----------------------------------------------------------------------------
\* The table of clients.

RosterTypes ==
    /\ read_fds \subseteq Fds \cup {ServerSocket}
    /\ client \in [Fds -> {"null", "live", "dangling"}]
    /\ userCount \in Int /\ focus_fd \in Int
    /\ phase \in {"idle", "watched", "counted", "unwatched", "uncounted", "freed"}
    /\ inHand \in IF phase = "idle" THEN {0} ELSE Fds

\* The entry of f agrees with read_fds, but for the client in hand.
EntryOK(f) ==
    CASE f # inHand ->
            \/ f \in read_fds /\ client[f] = "live"
            \/ f \notin read_fds /\ client[f] = "null"
      [] f = inHand /\ phase \in {"watched", "counted"} ->
            f \in read_fds /\ client[f] = "null"
      [] f = inHand /\ phase \in {"unwatched", "uncounted"} ->
            f \notin read_fds /\ client[f] = "live"
      [] OTHER -> f \notin read_fds /\ client[f] = "dangling"

Entries == \A f \in Fds : EntryOK(f)

Taken == {f \in Fds : client[f] # "null"}

\* userCount counts the entries, but for the one in hand.
Counting ==
    userCount = Cardinality(Taken) + (IF phase = "counted" THEN 1 ELSE 0)
                                   - (IF phase \in {"uncounted", "freed"} THEN 1 ELSE 0)

Table == RosterTypes /\ Entries /\ Counting

\* There are finitely many clients.
LEMMA TakenFinite ==
    /\ IsFiniteSet(Fds) /\ Cardinality(Fds) \in Nat
    /\ IsFiniteSet(Taken) /\ Cardinality(Taken) \in 0..Cardinality(Fds)
  <1>1. IsFiniteSet(Fds)
    BY FS_Interval, RosterAssumption DEF Fds
  <1>2. Taken \in SUBSET Fds
    BY DEF Taken
  <1>3. /\ Cardinality(Fds) \in Nat /\ IsFiniteSet(Taken)
        /\ Cardinality(Taken) \in Nat /\ Cardinality(Taken) <= Cardinality(Fds)
    BY <1>1, <1>2, FS_Subset, FS_CardinalityType
  <1> QED
    BY <1>1, <1>3

\* Nobody is connected at the start.
LEMMA TableInit == Init => Table
  <1> SUFFICES ASSUME Init PROVE Table
    OBVIOUS
  <1>1. Taken = {}
    BY DEF Init, Taken
  <1>2. RosterTypes /\ Entries
    BY FdsBounds DEF Init, RosterTypes, Entries, EntryOK
  <1>3. Counting
    BY <1>1, FS_EmptySet DEF Init, Counting
  <1> QED
    BY <1>2, <1>3 DEF Table

\* The stores that come before and after the change of an entry.
LEMMA TableStep == Table /\ [Next]_roster => Table'
  <1> SUFFICES ASSUME Table, [Next]_roster PROVE Table'
    OBVIOUS
  <1> USE FdsBounds DEF Table, RosterTypes, Entries, EntryOK, Phase, Entry
  <1>1. ASSUME client' = client PROVE Cardinality(Taken') = Cardinality(Taken)
    BY <1>1 DEF Taken
  <1>2. CASE \E f \in Fds : Watch(f)
    <2>1. (RosterTypes /\ Entries)'
      BY <1>2 DEF Watch
    <2>2. Counting'
      BY <1>1, <1>2 DEF Watch, Counting
    <2> QED
      BY <2>1, <2>2
  <1>3. CASE \E f \in Fds : Unwatch(f)
    <2>1. (RosterTypes /\ Entries)'
      BY <1>3 DEF Unwatch
    <2>2. Counting'
      BY <1>1, <1>3 DEF Unwatch, Counting
    <2> QED
      BY <2>1, <2>2
  <1>4. CASE Count \/ Uncount
    <2>1. (RosterTypes /\ Entries)'
      BY <1>4 DEF Count, Uncount
    <2>2. Counting'
      BY <1>1, <1>4, TakenFinite DEF Count, Uncount, Counting
    <2> QED
      BY <2>1, <2>2
  <1>5. CASE Publish
    <2>1. (RosterTypes /\ Entries)'
      BY <1>5 DEF Publish
    <2>2. Taken' = Taken \cup {inHand} /\ inHand \notin Taken
      BY <1>5 DEF Publish, Taken
    <2>3. Cardinality(Taken') = Cardinality(Taken) + 1
      BY <2>2, TakenFinite, FS_AddElement
    <2>4. Counting'
      BY <1>5, <2>3, TakenFinite DEF Publish, Counting
    <2> QED
      BY <2>1, <2>4
  <1>6. CASE Free
    <2>1. (RosterTypes /\ Entries)'
      BY <1>6 DEF Free
    <2>2. Taken' = Taken
      BY <1>6 DEF Free, Taken
    <2>3. Counting'
      BY <1>6, <2>2 DEF Free, Counting
    <2> QED
      BY <2>1, <2>3
  <1>7. CASE Clear
    <2>1. (RosterTypes /\ Entries)'
      BY <1>7 DEF Clear
    <2>2. Taken' = Taken \ {inHand} /\ inHand \in Taken
      BY <1>7 DEF Clear, Taken
    <2>3. Cardinality(Taken') = Cardinality(Taken) - 1
      BY <2>2, TakenFinite, FS_RemoveElement
    <2>4. Counting'
      BY <1>7, <2>3, TakenFinite DEF Clear, Counting
    <2> QED
      BY <2>1, <2>4
  <1>8. CASE Refocus
    <2>1. (RosterTypes /\ Entries)'
      BY <1>8, RosterAssumption DEF Refocus
    <2>2. Counting'
      BY <1>1, <1>8 DEF Refocus, Counting
    <2> QED
      BY <2>1, <2>2
  <1>9. CASE UNCHANGED roster
    BY <1>9 DEF roster, Counting, Taken
  <1> QED
    BY <1>2, <1>3, <1>4, <1>5, <1>6, <1>7, <1>8, <1>9 DEF Next

\* The number of clients never leaves 0..Cardinality(Fds).
LEMMA CountInRange == Table => userCount \in 0..Cardinality(Fds)
  <1> SUFFICES ASSUME Table PROVE userCount \in 0..Cardinality(Fds)
    OBVIOUS
  <1> USE FdsBounds, TakenFinite DEF Table, RosterTypes, Counting
  <1>1. CASE phase = "counted"
    <2>1. inHand \in Fds /\ inHand \notin Taken
      BY <1>1 DEF Entries, EntryOK, Taken
    <2>2. Taken \in SUBSET Fds /\ Taken # Fds
      BY <2>1 DEF Taken
    <2>3. Cardinality(Taken) # Cardinality(Fds)
      BY <2>2, FS_Subset
    <2> QED
      BY <1>1, <2>3
  <1>2. CASE phase \in {"uncounted", "freed"}
    <2>1. inHand \in Taken
      BY <1>2 DEF Entries, EntryOK, Taken
    <2>2. Cardinality(Taken) # 0
      BY <2>1, FS_EmptySet
    <2> QED
      BY <1>2, <2>2
  <1>3. CASE phase \notin {"counted", "uncounted", "freed"}
    BY <1>3
  <1> QED
    BY <1>1, <1>2, <1>3

----------------------------------------------------------------------------
\* UserList builds on the roster: its steps are steps of the roster.
LEMMA ThreadFrame ==
    ASSUME UserListThread PROVE UNCHANGED <<roster, buffers>>
  BY DEF UserListThread, Wake, Announce, MeasureConnected, MeasureSkip,
         MeasureName, MeasureImage, Allocate, FillConnected, FillSkip, FillId,
         FillName, FillSize, FillImage, FillOffset, Filled, Write, WriteBreaks,
         Connected, SkipHost, Measure, Fill, Turn, Die, UsesNull, UsesFreed, Goto

LEMMA OthersFrame ==
    ASSUME Others PROVE [Next]_roster /\ UNCHANGED <<thread, alive>>
  BY DEF Others, Change, Forget, FocusMoves, FreePicture, Rename, DropPicture,
         NewPicture, SetOffset, Receives, Next

LEMMA KeepsTable == Table /\ [NextList]_listVars => Table'
  <1>1. [NextList]_listVars => [Next]_roster
    BY ThreadFrame, OthersFrame DEF NextList, OthersNext, ListNext, listVars, roster
  <1> QED
    BY <1>1, TableStep

----------------------------------------------------------------------------
\* Types of the buffers and of the thread.

BufferTypes ==
    /\ userNameLength \in [Fds -> {0} \cup NameLengths]
    /\ jpegOffset \in [Fds -> {0} \cup PictureLengths]
    /\ jpegBuffer \in [Fds -> {NoPicture} \cup PictureLengths]
    /\ drawn \in Fds \cup {0}

Between == {"asleep", "announce", "measure", "fill", "write"}
Inside == {"measurehost", "measurename", "measureimage", "fillhost", "fillid",
           "fillname", "fillsize", "fillimage", "filloffset"}

ThreadTypes ==
    /\ lpc \in Between \cup Inside
    /\ i \in FirstFd..MaxClientNum
    /\ lpc \in Inside => i \in Fds
    /\ dataLength \in Nat /\ sendOffset \in Nat
    /\ userListCount \in -1..(Cardinality(Fds) - 1)
    /\ listed \subseteq Fds

Flags == quiet \in BOOLEAN /\ alive \in BOOLEAN

Types == BufferTypes /\ ThreadTypes /\ Flags

\* Together they are ListTypeOK.
LEMMA TypesSuffice == Table /\ Types => ListTypeOK
  BY CountInRange, FdsBounds
     DEF Table, RosterTypes, Types, BufferTypes, ThreadTypes, Flags, ListTypeOK,
         Between, Inside

\* The other threads keep the types of the buffers.
LEMMA BufferStep ==
    ASSUME Table, BufferTypes, Others PROVE BufferTypes'
  <1> USE FdsBounds DEF BufferTypes, Table, RosterTypes, buffers, roster
  <1>1. CASE Change \/ FocusMoves
    BY <1>1 DEF Change, FocusMoves
  <1>2. CASE Forget
    BY <1>2 DEF Forget
  <1>3. CASE FreePicture
    BY <1>3 DEF FreePicture
  <1>4. CASE \E f \in Fds : Rename(f)
    BY <1>4 DEF Rename
  <1>5. CASE \E f \in Fds : DropPicture(f)
    BY <1>5 DEF DropPicture
  <1>6. CASE \E f \in Fds : NewPicture(f)
    BY <1>6 DEF NewPicture
  <1>7. CASE \E f \in Fds : SetOffset(f)
    BY <1>7 DEF SetOffset, NoPicture
  <1> QED
    BY <1>1, <1>2, <1>3, <1>4, <1>5, <1>6, <1>7 DEF Others

\* What a load yields is a number when the field is one.
LEMMA LoadedNat ==
    ASSUME NEW v \in Nat, NEW any \in SUBSET Nat, NEW n \in Loaded(v, any)
    PROVE  n \in Nat
  BY DEF Loaded

\* Lengths are natural numbers.
LEMMA LengthNat ==
    /\ \A n \in {0} \cup NameLengths : n \in Nat
    /\ \A n \in {0} \cup PictureLengths : n \in Nat
  BY ListAssumption

\* The index goes on inside the table.
LEMMA NextIndex ==
    ASSUME i \in Fds PROVE i + 1 \in FirstFd..MaxClientNum
  BY FdsBounds, RosterAssumption

\* A step of the thread keeps its own types.
LEMMA ThreadStep ==
    ASSUME Table, Types, UserListThread PROVE ThreadTypes'
  <1> USE FdsBounds DEF Types, ThreadTypes, Between, Inside, Goto
  <1>0. i # MaxClientNum => i \in Fds
    BY RosterAssumption
  <1>1. ASSUME NEW from, NEW to, NEW next, Turn(from, to, next),
               to \in Between \cup Inside, next \in FirstFd..MaxClientNum,
               to \in Inside => next \in Fds
        PROVE  ThreadTypes'
    BY <1>1 DEF Turn
  <1>2. ASSUME NEW from, Die(from) PROVE ThreadTypes'
    BY <1>2 DEF Die
  <1>3. ASSUME NEW pass \in Between, NEW member \in Inside, Connected(pass, member)
        PROVE  ThreadTypes'
    <2>1. i \in Fds /\ i + 1 \in FirstFd..MaxClientNum
      BY <1>0, <1>3, NextIndex DEF Connected
    <2>2. CASE Turn(pass, pass, i + 1)
      BY <1>1, <2>1, <2>2
    <2>3. CASE Turn(pass, member, i)
      BY <1>1, <2>1, <2>3
    <2>4. CASE UsesFreed(pass)
      BY <1>2, <2>4 DEF UsesFreed
    <2> QED
      BY <1>3, <2>2, <2>3, <2>4 DEF Connected
  <1>4. ASSUME NEW pass \in Between, NEW member \in Inside, NEW entry \in Inside,
               SkipHost(pass, member, entry)
        PROVE  ThreadTypes'
    <2>1. i \in Fds /\ i + 1 \in FirstFd..MaxClientNum
      BY <1>4, NextIndex DEF SkipHost
    <2>2. CASE Turn(member, pass, i + 1)
      BY <1>1, <2>1, <2>2
    <2>3. CASE Turn(member, entry, i)
      BY <1>1, <2>1, <2>3
    <2>4. CASE UsesNull(member)
      BY <1>2, <2>4 DEF UsesNull
    <2> QED
      BY <1>4, <2>2, <2>3, <2>4 DEF SkipHost
  <1>5. ASSUME NEW from, NEW to, NEW length \in Nat, NEW any \in SUBSET Nat, NEW next,
               Measure(from, to, length, any, next) \/ Fill(from, to, length, any, next),
               i \in Fds,
               to \in Between \cup Inside, next \in FirstFd..MaxClientNum,
               to \in Inside => next \in Fds
        PROVE  ThreadTypes'
    <2>1. CASE UsesNull(from)
      BY <1>2, <2>1 DEF UsesNull
    <2>2. CASE ~UsesNull(from)
      <3>1. PICK n \in Loaded(length, any) :
               /\ lpc' = to /\ i' = next
               /\ userListCount' = userListCount
               /\ \/ dataLength' = dataLength + n /\ UNCHANGED <<sendOffset, listed>>
                  \/ /\ sendOffset' = sendOffset + n
                     /\ listed' = listed \cup {i} /\ UNCHANGED dataLength
        BY <1>5, <2>2 DEF Measure, Fill
      <3>2. n \in Nat
        BY LoadedNat
      <3>3. dataLength' \in Nat /\ sendOffset' \in Nat /\ listed' \subseteq Fds
        <4>1. CASE dataLength' = dataLength + n /\ UNCHANGED <<sendOffset, listed>>
          BY <3>2, <4>1
        <4>2. CASE /\ sendOffset' = sendOffset + n
                   /\ listed' = listed \cup {i} /\ UNCHANGED dataLength
          BY <1>5, <3>2, <4>2
        <4> QED
          BY <3>1, <4>1, <4>2
      <3> QED
        BY <1>5, <3>1, <3>3
    <2> QED
      BY <2>1, <2>2
  <1>6. lpc \in Inside =>
           /\ userNameLength[i] \in Nat /\ jpegOffset[i] \in Nat
           /\ i + 1 \in FirstFd..MaxClientNum
    <2> SUFFICES ASSUME lpc \in Inside
                 PROVE  /\ userNameLength[i] \in Nat /\ jpegOffset[i] \in Nat
                        /\ i + 1 \in FirstFd..MaxClientNum
      OBVIOUS
    <2>1. i \in Fds
      OBVIOUS
    <2>2. userNameLength[i] \in {0} \cup NameLengths /\ jpegOffset[i] \in {0} \cup PictureLengths
      BY <2>1 DEF BufferTypes
    <2>3. i + 1 \in FirstFd..MaxClientNum
      BY <2>1, NextIndex
    <2>4. userNameLength[i] \in Nat
      BY <2>2, LengthNat
    <2>5. jpegOffset[i] \in Nat
      BY <2>2, LengthNat
    <2> QED
      BY <2>3, <2>4, <2>5
  <1>7. CASE Wake
    BY <1>7 DEF Wake
  <1>8. CASE Announce
    <2>1. userCount - 1 \in -1..(Cardinality(Fds) - 1)
      BY CountInRange, TakenFinite
    <2> QED
      BY <1>8, <2>1, RosterAssumption DEF Announce, IntSize
  <1>9. CASE MeasureConnected \/ FillConnected
    BY <1>3, <1>9 DEF MeasureConnected, FillConnected
  <1>10. CASE MeasureSkip \/ FillSkip
    BY <1>4, <1>10 DEF MeasureSkip, FillSkip
  <1>11. CASE MeasureName
    <2>1. lpc = "measurename"
      BY <1>11 DEF MeasureName, Measure, UsesNull, Die
    <2>2. 2 * IntSize + userNameLength[i] \in Nat
      BY <1>6, <2>1 DEF IntSize
    <2>3. {2 * IntSize + n : n \in NameLengths} \in SUBSET Nat
      BY ListAssumption DEF IntSize
    <2> QED
      BY <1>5, <1>11, <2>1, <2>2, <2>3 DEF MeasureName
  <1>12. CASE MeasureImage
    <2>1. lpc = "measureimage"
      BY <1>12 DEF MeasureImage, Measure, UsesNull, Die
    <2>2. IntSize + jpegOffset[i] \in Nat
      BY <1>6, <2>1 DEF IntSize
    <2>3. {IntSize + n : n \in PictureLengths} \in SUBSET Nat
      BY ListAssumption DEF IntSize
    <2> QED
      BY <1>5, <1>6, <1>12, <2>1, <2>2, <2>3 DEF MeasureImage
  <1>13. CASE Allocate
    BY <1>13, RosterAssumption DEF Allocate, HeaderSize, IntSize
  <1>14. CASE FillId
    <2>1. lpc = "fillid"
      BY <1>14 DEF FillId, Fill, UsesNull, Die
    <2>2. 2 * IntSize \in Nat /\ {} \in SUBSET Nat
      BY DEF IntSize
    <2> QED
      BY <1>5, <1>14, <2>1, <2>2 DEF FillId
  <1>15. CASE FillName
    <2>1. lpc = "fillname"
      BY <1>15 DEF FillName, Fill, UsesNull, Die
    <2>2. userNameLength[i] \in Nat
      BY <1>6, <2>1
    <2>3. NameLengths \in SUBSET Nat
      BY ListAssumption
    <2>4. CASE Fill("fillname", "fillsize", userNameLength[i], NameLengths, i)
      BY <1>5, <2>1, <2>2, <2>3, <2>4
    <2>5. CASE UsesFreed("fillname")
      BY <1>2, <2>5 DEF UsesFreed
    <2> QED
      BY <1>15, <2>4, <2>5 DEF FillName
  <1>16. CASE FillSize
    <2>1. lpc = "fillsize"
      BY <1>16 DEF FillSize, Fill, UsesNull, Die
    <2>2. IntSize \in Nat /\ {} \in SUBSET Nat
      BY DEF IntSize
    <2> QED
      BY <1>5, <1>16, <2>1, <2>2 DEF FillSize
  <1>17. CASE FillImage
    <2>1. lpc = "fillimage"
      BY <1>17 DEF FillImage
    <2>2. CASE Fill("fillimage", "filloffset", 0, {}, i)
      <3>1. 0 \in Nat /\ {} \in SUBSET Nat
        OBVIOUS
      <3> QED
        BY <1>5, <2>1, <2>2, <3>1
    <2>3. CASE Die("fillimage")
      BY <1>2, <2>3
    <2> QED
      BY <1>17, <2>2, <2>3 DEF FillImage, UsesFreed
  <1>18. CASE FillOffset
    <2>1. lpc = "filloffset"
      BY <1>18 DEF FillOffset, Fill, UsesNull, Die
    <2>2. jpegOffset[i] \in Nat
      BY <1>6, <2>1
    <2>3. PictureLengths \in SUBSET Nat
      BY ListAssumption
    <2> QED
      BY <1>5, <1>6, <1>18, <2>1, <2>2, <2>3 DEF FillOffset
  <1>19. CASE Filled
    BY <1>1, <1>19 DEF Filled
  <1>20. CASE Write
    <2>1. 0 \in -1..(Cardinality(Fds) - 1)
      <3>1. FirstFd \in Fds
        BY RosterAssumption
      <3>2. Cardinality(Fds) # 0
        BY <3>1, TakenFinite, FS_EmptySet
      <3> QED
        BY <3>2, TakenFinite
    <2> QED
      BY <1>20, <2>1, RosterAssumption DEF Write
  <1>21. CASE WriteBreaks
    BY <1>2, <1>21 DEF WriteBreaks
  <1> QED
    BY <1>7, <1>8, <1>9, <1>10, <1>11, <1>12, <1>13, <1>14, <1>15, <1>16,
       <1>17, <1>18, <1>19, <1>20, <1>21 DEF UserListThread

\* The flags stay Boolean.
LEMMA FlagsStep == Flags /\ [NextList]_listVars => Flags'
  <1> SUFFICES ASSUME Flags, [NextList]_listVars PROVE Flags'
    OBVIOUS
  <1>1. CASE UserListThread
    <2>1. alive' \in {FALSE, alive}
      BY <1>1 DEF UserListThread, Wake, Announce, MeasureConnected, MeasureSkip,
             MeasureName, MeasureImage, Allocate, FillConnected, FillSkip, FillId,
             FillName, FillSize, FillImage, FillOffset, Filled, Write, WriteBreaks,
             Connected, SkipHost, Measure, Fill, Turn, Die, UsesNull, UsesFreed
    <2>2. quiet' = quiet \/ quiet' = (phase = "idle" /\ drawn = 0)
      BY <1>1 DEF UserListThread, Wake, Announce, MeasureConnected, MeasureSkip,
             MeasureName, MeasureImage, Allocate, FillConnected, FillSkip, FillId,
             FillName, FillSize, FillImage, FillOffset, Filled, Write, WriteBreaks,
             Connected, SkipHost, Measure, Fill, Turn, Die, UsesNull, UsesFreed
    <2> QED
      BY <2>1, <2>2 DEF Flags
  <1>2. CASE Others
    <2>1. alive' = alive
      BY <1>2, OthersFrame
    <2>2. quiet' = FALSE \/ \E f \in Fds : quiet' = (quiet /\ f = focus_fd)
      BY <1>2 DEF Others, Change, Forget, FocusMoves, FreePicture, Rename,
                  DropPicture, NewPicture, SetOffset, Receives
    <2> QED
      BY <2>1, <2>2 DEF Flags
  <1>3. CASE UNCHANGED listVars
    BY <1>3 DEF listVars, Flags
  <1> QED
    BY <1>1, <1>2, <1>3 DEF NextList, OthersNext, ListNext

\* Types hold initially, and every step keeps them.
LEMMA TypesInit == ListInit => Types
  <1> SUFFICES ASSUME ListInit PROVE Types
    OBVIOUS
  <1>1. FirstFd \in Fds /\ FirstFd \in FirstFd..MaxClientNum
    BY RosterAssumption DEF Fds
  <1>2. 0 \in -1..(Cardinality(Fds) - 1)
    <2>1. Cardinality(Fds) # 0
      BY <1>1, TakenFinite, FS_EmptySet
    <2> QED
      BY <2>1, TakenFinite
  <1>3. Flags
    BY DEF ListInit, Flags
  <1> QED
    BY <1>1, <1>2, <1>3 DEF ListInit, Types, BufferTypes, ThreadTypes, Between, Inside

LEMMA TypesStep == Table /\ Types /\ [NextList]_listVars => Types'
  <1> SUFFICES ASSUME Table, Types, [NextList]_listVars PROVE Types'
    OBVIOUS
  <1>1. Flags'
    BY FlagsStep DEF Types
  <1>2. CASE UserListThread
    <2>1. BufferTypes'
      BY <1>2, ThreadFrame DEF BufferTypes, Types, buffers
    <2> QED
      BY <1>1, <1>2, <2>1, ThreadStep DEF Types
  <1>3. CASE Others
    <2>1. BufferTypes'
      BY <1>3, BufferStep DEF Types
    <2>2. ThreadTypes'
      BY <1>3, OthersFrame DEF ThreadTypes, Types, thread
    <2> QED
      BY <1>1, <2>1, <2>2 DEF Types
  <1>4. CASE UNCHANGED listVars
    <2>1. BufferTypes' /\ ThreadTypes'
      BY <1>4 DEF listVars, buffers, thread, BufferTypes, ThreadTypes, Types
    <2> QED
      BY <1>1, <2>1 DEF Types
  <1> QED
    BY <1>2, <1>3, <1>4 DEF NextList, OthersNext, ListNext

\* The list thread and what it reads keep their types, and userCount stays in
\* 0..Cardinality(Fds), for any number of clients.
THEOREM ListTypeCorrect == ListSpec => []ListTypeOK
  <1>1. ListInit => Table
    BY TableInit DEF ListInit
  <1> QED
    BY <1>1, KeepsTable, TypesInit, TypesStep, TypesSuffice, PTL DEF ListSpec

----------------------------------------------------------------------------
\* The length of a list is a sum over the clients in it.

\* P is the running sum of w: P[k] is the sum of w over the descriptors below k.
IsRunning(P, w) ==
    /\ P \in [FirstFd..MaxClientNum -> Nat]
    /\ P[FirstFd] = 0
    /\ \A k \in Fds : P[k + 1] = P[k] + w[k]

Running(w) == CHOOSE P : IsRunning(P, w)

\* Every table of natural numbers has a running sum.
LEMMA RunningExists ==
    ASSUME NEW w \in [Fds -> Nat] PROVE IsRunning(Running(w), w)
  <1> DEFINE Upto(n) == \E P \in [FirstFd..MaxClientNum -> Nat] :
                           /\ P[FirstFd] = 0
                           /\ \A k \in Fds : k < n => P[k + 1] = P[k] + w[k]
  <1> DEFINE Bad == {n \in Nat : ~Upto(n)}
  <1>1. Upto(0)
    <2> DEFINE P == [k \in FirstFd..MaxClientNum |-> 0]
    <2>1. P \in [FirstFd..MaxClientNum -> Nat] /\ P[FirstFd] = 0
      BY RosterAssumption
    <2>2. \A k \in Fds : ~(k < 0)
      BY FdsBounds, RosterAssumption DEF Fds
    <2> QED
      BY <2>1, <2>2
  <1>2. ASSUME NEW n \in Nat, Upto(n) PROVE Upto(n + 1)
    <2>1. PICK P \in [FirstFd..MaxClientNum -> Nat] :
              /\ P[FirstFd] = 0
              /\ \A k \in Fds : k < n => P[k + 1] = P[k] + w[k]
      BY <1>2
    <2>2. CASE n \in Fds
      <3> DEFINE Q == [P EXCEPT ![n + 1] = P[n] + w[n]]
      <3>1. n \in FirstFd..MaxClientNum /\ n + 1 \in FirstFd..MaxClientNum /\ n + 1 # FirstFd
        BY <2>2, FdsBounds, RosterAssumption
      <3>2. P[n] + w[n] \in Nat
        BY <2>2, <3>1
      <3>3. Q \in [FirstFd..MaxClientNum -> Nat] /\ Q[FirstFd] = 0
        BY <2>1, <3>1, <3>2, RosterAssumption
      <3>4. ASSUME NEW k \in Fds, k < n + 1 PROVE Q[k + 1] = Q[k] + w[k]
        <4>1. k \in Int /\ k \in FirstFd..MaxClientNum /\ k + 1 \in FirstFd..MaxClientNum
          BY FdsBounds, RosterAssumption DEF Fds
        <4>2. CASE k = n
          BY <3>1, <4>1, <4>2
        <4>3. CASE k < n
          <5>1. Q[k + 1] = P[k + 1] /\ Q[k] = P[k]
            BY <3>1, <4>1, <4>3
          <5> QED
            BY <2>1, <4>3, <5>1
        <4> QED
          BY <3>4, <4>1, <4>2, <4>3
      <3> QED
        BY <3>3, <3>4
    <2>3. CASE n \notin Fds
      <3>1. \A k \in Fds : k < n + 1 => k < n
        BY <2>3, FdsBounds, RosterAssumption DEF Fds
      <3> QED
        BY <2>1, <3>1
    <2> QED
      BY <2>2, <2>3
  <1>3. Bad = {}
    <2> SUFFICES ASSUME Bad # {} PROVE FALSE
      OBVIOUS
    <2> HIDE DEF Upto
    <2>1. PICK n \in Bad : \A m \in Bad : ~(m < n)
      <3>1. PICK n \in Bad : \A m \in Bad : ~(<<m, n>> \in OpToRel(<, Nat))
        BY WFMin, NatLessThanWellFounded
      <3> QED
        BY <3>1 DEF OpToRel
    <2>2. n \in Nat /\ n # 0 /\ ~Upto(n)
      BY <1>1
    <2>3. n - 1 \in Nat /\ (n - 1) + 1 = n /\ n - 1 < n
      BY <2>2
    <2>4. Upto(n - 1)
      BY <2>1, <2>3
    <2>5. Upto((n - 1) + 1)
      BY <1>2, <2>3, <2>4
    <2> QED
      BY <2>2, <2>3, <2>5
  <1>4. Upto(MaxClientNum)
    BY <1>3, RosterAssumption
  <1>5. \E P : IsRunning(P, w)
    <2>1. PICK P \in [FirstFd..MaxClientNum -> Nat] :
              /\ P[FirstFd] = 0
              /\ \A k \in Fds : k < MaxClientNum => P[k + 1] = P[k] + w[k]
      BY <1>4
    <2>2. \A k \in Fds : k < MaxClientNum
      BY RosterAssumption DEF Fds
    <2>3. IsRunning(P, w)
      BY <2>1, <2>2 DEF IsRunning
    <2> QED
      BY <2>3
  <1> QED
    BY <1>5 DEF Running

----------------------------------------------------------------------------
\* An undisturbed list.

Listable == Users \ {focus_fd}

\* What a client takes in the list.
Weight == [f \in Fds |-> IF f \in Listable
                         THEN 3 * IntSize + userNameLength[f] + jpegOffset[f] ELSE 0]
Total == Running(Weight)

\* What the thread has measured or filled of client i.
Part ==
    CASE lpc = "measureimage" -> 2 * IntSize + userNameLength[i]
      [] lpc = "fillname" -> 2 * IntSize
      [] lpc = "fillsize" -> 2 * IntSize + userNameLength[i]
      [] lpc \in {"fillimage", "filloffset"} -> 3 * IntSize + userNameLength[i]
      [] OTHER -> 0

AtUser == {"measurehost", "fillhost"}
AtOther == {"measurename", "measureimage", "fillid", "fillname", "fillsize",
            "fillimage", "filloffset"}
Measuring == {"measure", "measurehost", "measurename", "measureimage"}
Filling == {"fill", "fillhost", "fillid", "fillname", "fillsize", "fillimage",
            "filloffset", "write"}
Entered == {"fillname", "fillsize", "fillimage", "filloffset"}

\* The thread is where the clients below i bring it.
InStep ==
    /\ lpc \in AtUser => i \in Users
    /\ lpc \in AtOther => i \in Listable
    /\ lpc \in Measuring => dataLength = IntSize + Total[i] + Part
    /\ lpc \in Filling =>
          /\ dataLength = IntSize + Total[MaxClientNum]
          /\ sendOffset = HeaderSize + IntSize + Total[i] + Part
          /\ listed = {f \in Listable : f < i} \cup (IF lpc \in Entered THEN {i} ELSE {})
    /\ lpc = "write" => i = MaxClientNum
    /\ lpc \in Measuring \cup Filling => userListCount = userCount - 1

Undisturbed ==
    quiet => /\ phase = "idle" /\ drawn \in {0, focus_fd}
             /\ InStep

\* The weights are numbers, and Total is their running sum.
LEMMA TotalRuns ==
    ASSUME Types PROVE Weight \in [Fds -> Nat] /\ IsRunning(Total, Weight)
  <1>1. ASSUME NEW f \in Fds PROVE Weight[f] \in Nat
    <2>1. userNameLength[f] \in Nat /\ jpegOffset[f] \in Nat
      BY LengthNat DEF Types, BufferTypes
    <2> QED
      BY <2>1 DEF Weight, IntSize
  <1>2. Weight \in [Fds -> Nat]
    BY <1>1 DEF Weight
  <1> QED
    BY <1>2, RunningExists DEF Total

\* When nobody is in hand, an entry is live exactly when it is watched.
LEMMA IdleEntries ==
    ASSUME Table, phase = "idle", NEW f \in Fds
    PROVE  /\ f \in read_fds <=> f \in Users
           /\ client[f] = IF f \in Users THEN "live" ELSE "null"
  BY FdsBounds DEF Table, RosterTypes, Entries, EntryOK, Users

\* A list that is written undisturbed is exact.
LEMMA StepExact == Table /\ Types /\ Undisturbed => ListExact
  <1> SUFFICES ASSUME Table, Types, Undisturbed, quiet, lpc = "write"
               PROVE  /\ sendOffset = HeaderSize + dataLength
                      /\ listed = Users \ {focus_fd}
                      /\ focus_fd \in Users => Cardinality(listed) = userListCount
    BY DEF ListExact
  <1>1. InStep /\ i = MaxClientNum /\ phase = "idle"
    BY DEF Undisturbed, InStep
  <1>2. sendOffset = HeaderSize + dataLength
    <2>1. Total[MaxClientNum] \in Nat
      BY TotalRuns, RosterAssumption DEF IsRunning
    <2> QED
      BY <1>1, <2>1 DEF InStep, Filling, Part, HeaderSize, IntSize
  <1>3. listed = Listable
    <2>1. \A f \in Listable : f < MaxClientNum
      BY FdsBounds DEF Listable, Users
    <2> QED
      BY <1>1, <2>1 DEF InStep, Filling, Entered
  <1>4. ASSUME focus_fd \in Users PROVE Cardinality(listed) = userListCount
    <2>1. Taken = Users
      BY <1>1, IdleEntries DEF Taken, Users
    <2>2. Cardinality(Listable) = Cardinality(Users) - 1
      BY <1>4, <2>1, TakenFinite, FS_RemoveElement DEF Listable
    <2>3. userCount = Cardinality(Users)
      BY <1>1, <2>1, TakenFinite DEF Table, Counting
    <2> QED
      BY <1>1, <1>3, <2>2, <2>3 DEF InStep, Filling
  <1> QED
    BY <1>2, <1>3, <1>4 DEF Listable

\* What stays the same while no entry of the list changes.
LEMMA SameList ==
    ASSUME UNCHANGED <<client, focus_fd, userNameLength, jpegOffset>>
    PROVE  UNCHANGED <<Users, Listable, Total>>
  BY DEF Users, Listable, Total, Weight

\* The other threads leave a quiet list alone: they change the host's buffers.
LEMMA OthersUndisturbed ==
    ASSUME Table, Types, Undisturbed, Others PROVE Undisturbed'
  <1> SUFFICES ASSUME quiet' PROVE (phase = "idle" /\ drawn \in {0, focus_fd} /\ InStep)'
    BY DEF Undisturbed
  <1>1. ~Change /\ ~Forget /\ ~FocusMoves /\ ~FreePicture
    BY DEF Change, Forget, FocusMoves, FreePicture
  <1>2. PICK f \in Fds : Rename(f) \/ DropPicture(f) \/ NewPicture(f) \/ SetOffset(f)
    BY <1>1 DEF Others
  <1>3. /\ quiet /\ f = focus_fd /\ UNCHANGED <<roster, thread>>
        /\ drawn' \in {drawn, 0, f}
        /\ \A g \in Fds \ {f} : /\ userNameLength'[g] = userNameLength[g]
                               /\ jpegOffset'[g] = jpegOffset[g]
    BY <1>2 DEF Rename, DropPicture, NewPicture, SetOffset, Receives, Types, BufferTypes
  <1>4. UNCHANGED <<Users, Listable>>
    BY <1>3 DEF roster, Users, Listable
  <1>5. Weight' = Weight
    <2>1. ASSUME NEW g \in Fds PROVE Weight'[g] = Weight[g]
      BY <1>3, <1>4 DEF Weight, Listable
    <2> QED
      BY <2>1 DEF Weight
  <1>6. Total' = Total
    BY <1>5 DEF Total
  <1>7. lpc \in AtOther => Part' = Part
    BY <1>3 DEF Undisturbed, InStep, Part, thread, Listable, Users
  <1>8. lpc \notin AtOther => Part' = Part
    BY <1>3 DEF Part, thread, AtOther
  <1> QED
    BY <1>3, <1>4, <1>6, <1>7, <1>8
       DEF Undisturbed, InStep, roster, thread

\* What a load of client[i] yields when nobody is in hand.
LEMMA LoadsEntry ==
    ASSUME Table, phase = "idle", i \in Fds, NEW v, NEW any
    PROVE  /\ i \in Users => Loaded(v, any) = {v} /\ client[i] = "live"
           /\ i \notin Users => client[i] = "null" /\ Loaded(v, any) = {}
  BY IdleEntries DEF Loaded

\* The running sum goes on by the weight of client i.
LEMMA TotalNext ==
    ASSUME Types, i \in Fds
    PROVE  /\ Total[i] \in Nat /\ Total[i + 1] \in Nat
           /\ i \notin Listable => Total[i + 1] = Total[i]
           /\ i \in Listable =>
                 Total[i + 1] = Total[i] + (3 * IntSize + userNameLength[i] + jpegOffset[i])
  <1>1. i \in FirstFd..MaxClientNum /\ i + 1 \in FirstFd..MaxClientNum
    BY NextIndex, FdsBounds, RosterAssumption
  <1>2. /\ Total \in [FirstFd..MaxClientNum -> Nat]
        /\ Total[i + 1] = Total[i] + Weight[i]
    BY TotalRuns DEF IsRunning
  <1>3. Weight[i] = IF i \in Listable
                    THEN 3 * IntSize + userNameLength[i] + jpegOffset[i] ELSE 0
    BY DEF Weight
  <1>4. Total[i] \in Nat /\ Total[i + 1] \in Nat
    BY <1>1, <1>2
  <1> QED
    BY <1>2, <1>3, <1>4

\* The clients in the list below the next index.
LEMMA BelowNext ==
    ASSUME i \in Fds
    PROVE  /\ i \notin Listable =>
                 {f \in Listable : f < i + 1} = {f \in Listable : f < i}
           /\ i \in Listable =>
                 {f \in Listable : f < i + 1} = {f \in Listable : f < i} \cup {i}
  <1>1. i \in Int /\ \A f \in Listable : f \in Int
    BY FdsBounds DEF Listable, Users
  <1>2. \A f \in Listable : f < i + 1 <=> f < i \/ f = i
    BY <1>1
  <1> QED
    BY <1>1, <1>2

\* A step of the thread keeps in step with the undisturbed table.
LEMMA ThreadInStep ==
    ASSUME Table, Types, Undisturbed, quiet, UserListThread, ~Wake PROVE InStep'
  <1>1. phase = "idle" /\ InStep
    BY DEF Undisturbed
  <1>2. UNCHANGED <<roster, buffers>> /\ UNCHANGED <<Users, Listable, Total>>
    BY ThreadFrame, SameList DEF roster, buffers
  <1>3. /\ i \in Int /\ dataLength \in Nat /\ sendOffset \in Nat
        /\ lpc \in Inside => i \in Fds
        /\ i # MaxClientNum => i \in Fds
        /\ \A f \in Fds : userNameLength[f] \in Nat /\ jpegOffset[f] \in Nat
    <2>1. /\ dataLength \in Nat /\ sendOffset \in Nat
          /\ lpc \in Inside => i \in Fds
      BY DEF Types, ThreadTypes
    <2>2. i \in FirstFd..MaxClientNum
      BY RosterAssumption DEF Types, ThreadTypes, Fds
    <2>3. i \in Int /\ (i # MaxClientNum => i \in Fds)
      BY <2>2, RosterAssumption DEF Fds
    <2>4. \A f \in Fds : userNameLength[f] \in Nat /\ jpegOffset[f] \in Nat
      BY LengthNat DEF Types, BufferTypes
    <2> QED
      BY <2>1, <2>3, <2>4
  <1>4. ASSUME NEW from, Die(from) PROVE InStep'
    <2>1. UNCHANGED <<lpc, i, dataLength, userListCount, sendOffset, listed>>
      BY <1>4 DEF Die, Goto
    <2>2. UNCHANGED <<Part, userCount>>
      BY <1>2, <2>1 DEF Part, roster, buffers
    <2> QED
      BY <1>1, <1>2, <2>1, <2>2 DEF InStep
  <1>5. ASSUME NEW pass, NEW member, NEW next,
               <<pass, member>> \in {<<"measure", "measurehost">>, <<"fill", "fillhost">>},
               lpc \in {pass, member}, lpc' \in {pass, member}, i \in Fds, i' = next,
               UNCHANGED <<dataLength, userListCount, sendOffset, listed>>,
               lpc' = member => next \in Users,
               \/ next = i
               \/ next = i + 1 /\ i \notin Listable
        PROVE  InStep'
    <2>1. Part = 0 /\ Part' = 0
      BY <1>5 DEF Part
    <2>2. Total[next] = Total[i] /\ {f \in Listable : f < next} = {f \in Listable : f < i}
      BY <1>5, TotalNext, BelowNext
    <2>3. CASE pass = "measure"
      <3>1. lpc \in {"measure", "measurehost"} /\ lpc' \in {"measure", "measurehost"}
        BY <1>5, <2>3
      <3>2. lpc' = "measurehost" => i' \in Users
        BY <1>5, <2>3
      <3>3. dataLength = IntSize + Total[i] + 0 /\ userListCount = userCount - 1
        BY <1>1, <2>1, <3>1 DEF InStep, Measuring
      <3> QED
        BY <1>2, <1>5, <2>1, <2>2, <3>1, <3>2, <3>3
           DEF InStep, AtUser, AtOther, Measuring, Filling, roster
    <2>4. CASE pass = "fill"
      <3>1. lpc \in {"fill", "fillhost"} /\ lpc' \in {"fill", "fillhost"}
        BY <1>5, <2>4
      <3>2. lpc' = "fillhost" => i' \in Users
        BY <1>5, <2>4
      <3>3. /\ dataLength = IntSize + Total[MaxClientNum]
            /\ sendOffset = HeaderSize + IntSize + Total[i] + 0
            /\ listed = {f \in Listable : f < i} \cup {}
            /\ userListCount = userCount - 1
        BY <1>1, <2>1, <3>1 DEF InStep, Filling, Entered
      <3> QED
        BY <1>2, <1>5, <2>1, <2>2, <3>1, <3>2, <3>3
           DEF InStep, AtUser, AtOther, Measuring, Filling, Entered, roster
    <2> QED
      BY <1>5, <2>3, <2>4
  <1>6. ASSUME NEW pass, NEW member,
               <<pass, member>> \in {<<"measure", "measurehost">>, <<"fill", "fillhost">>},
               Connected(pass, member)
        PROVE  InStep'
    <2>1. i \in Fds /\ lpc = pass
      BY <1>3, <1>6 DEF Connected
    <2>2. CASE i \in Users
      <3>1. client[i] = "live" /\ i \in read_fds
        BY <1>1, <2>1, <2>2, IdleEntries
      <3>2. Turn(pass, member, i)
        BY <1>6, <3>1 DEF Connected, UsesFreed, Loaded
      <3>3. /\ lpc' = member /\ i' = i
            /\ UNCHANGED <<dataLength, userListCount, sendOffset, listed>>
        BY <3>2 DEF Turn, Goto
      <3> QED
        BY <1>5, <1>6, <2>1, <2>2, <3>3
    <2>3. CASE i \notin Users
      <3>1. client[i] = "null" /\ i \notin Listable
        BY <1>1, <2>1, <2>3, IdleEntries DEF Listable
      <3>2. Turn(pass, pass, i + 1)
        BY <1>6, <3>1 DEF Connected, UsesFreed, Loaded
      <3>3. /\ lpc' = pass /\ i' = i + 1 /\ pass # member
            /\ UNCHANGED <<dataLength, userListCount, sendOffset, listed>>
        BY <1>6, <3>2 DEF Turn, Goto
      <3> QED
        BY <1>5, <1>6, <2>1, <3>1, <3>3
    <2> QED
      BY <2>2, <2>3
  <1>6a. ASSUME NEW pass, NEW member, NEW entry,
                \/ pass = "measure" /\ member = "measurehost" /\ entry = "measurename"
                \/ pass = "fill" /\ member = "fillhost" /\ entry = "fillid",
                SkipHost(pass, member, entry)
         PROVE  InStep'
    <2>1. lpc = member /\ i \in Fds
      BY <1>3, <1>6a DEF SkipHost, Inside
    <2>2. i \in Users /\ client[i] = "live"
      BY <1>1, <1>6a, <2>1, IdleEntries DEF InStep, AtUser
    <2>3. IF i = focus_fd THEN Turn(member, pass, i + 1) ELSE Turn(member, entry, i)
      BY <1>6a, <2>2 DEF SkipHost, UsesNull, Loaded
    <2>4. CASE i = focus_fd
      <3>1. i \notin Listable
        BY <2>4 DEF Listable
      <3>2. /\ lpc' = pass /\ i' = i + 1 /\ pass # member
            /\ UNCHANGED <<dataLength, userListCount, sendOffset, listed>>
        BY <1>6a, <2>3, <2>4 DEF Turn, Goto
      <3> QED
        BY <1>5, <1>6a, <2>1, <3>1, <3>2
    <2>5. CASE i # focus_fd
      <3>1. i \in Listable
        BY <2>2, <2>5 DEF Listable
      <3>2. /\ lpc' = entry /\ i' = i
            /\ UNCHANGED <<dataLength, userListCount, sendOffset, listed>>
        BY <2>3, <2>5 DEF Turn, Goto
      <3>3. Part = 0 /\ Part' = 0
        BY <1>6a, <2>1, <3>2 DEF Part
      <3>4. CASE pass = "measure"
        <4>1. lpc = "measurehost" /\ lpc' = "measurename"
          BY <1>6a, <2>1, <3>2, <3>4
        <4>2. dataLength = IntSize + Total[i] + 0 /\ userListCount = userCount - 1
          BY <1>1, <3>3, <4>1 DEF InStep, Measuring
        <4> QED
          BY <1>2, <3>1, <3>2, <3>3, <4>1, <4>2
             DEF InStep, AtUser, AtOther, Measuring, Filling, roster
      <3>5. CASE pass = "fill"
        <4>1. lpc = "fillhost" /\ lpc' = "fillid"
          BY <1>6a, <2>1, <3>2, <3>5
        <4>2. /\ dataLength = IntSize + Total[MaxClientNum]
              /\ sendOffset = HeaderSize + IntSize + Total[i] + 0
              /\ listed = {f \in Listable : f < i} \cup {}
              /\ userListCount = userCount - 1
          BY <1>1, <3>3, <4>1 DEF InStep, Filling, Entered
        <4> QED
          BY <1>2, <3>1, <3>2, <3>3, <4>1, <4>2
             DEF InStep, AtUser, AtOther, Measuring, Filling, Entered, roster
      <3> QED
        BY <1>6a, <3>4, <3>5
    <2> QED
      BY <2>4, <2>5
  <1>7. ASSUME NEW from \in AtOther, NEW to, NEW length, NEW any, NEW next,
               Measure(from, to, length, any, next)
        PROVE  /\ lpc = from /\ lpc' = to /\ dataLength' = dataLength + length
               /\ i' = next /\ UNCHANGED <<userListCount, sendOffset, listed>>
               /\ i \in Listable /\ i \in Fds
    <2>1. i \in Listable /\ i \in Fds /\ i \in Users
      BY <1>1, <1>7 DEF Measure, UsesNull, Die, Goto, InStep, Listable, Users
    <2>2. ~UsesNull(from) /\ Loaded(length, any) = {length}
      BY <1>1, <2>1, LoadsEntry DEF UsesNull
    <2> QED
      BY <1>7, <2>1, <2>2 DEF Measure, Goto
  <1>8. ASSUME NEW from \in AtOther, NEW to, NEW length, NEW any, NEW next,
               Fill(from, to, length, any, next)
        PROVE  /\ lpc = from /\ lpc' = to /\ sendOffset' = sendOffset + length
               /\ listed' = listed \cup {i}
               /\ i' = next /\ UNCHANGED <<userListCount, dataLength>>
               /\ i \in Listable /\ i \in Fds
    <2>1. i \in Listable /\ i \in Fds /\ i \in Users
      BY <1>1, <1>8 DEF Fill, UsesNull, Die, Goto, InStep, Listable, Users
    <2>2. ~UsesNull(from) /\ Loaded(length, any) = {length}
      BY <1>1, <2>1, LoadsEntry DEF UsesNull
    <2> QED
      BY <1>8, <2>1, <2>2 DEF Fill, Goto
  <1> USE DEF AtUser, AtOther, Measuring, Filling, Entered
  <1>9. CASE Announce
    <2>1. Total[FirstFd] = 0
      BY TotalRuns DEF IsRunning
    <2> QED
      BY <1>2, <1>9, <2>1 DEF Announce, Goto, InStep, Part, roster, IntSize
  <1>10. CASE MeasureConnected \/ FillConnected
    BY <1>6, <1>10 DEF MeasureConnected, FillConnected
  <1>11. CASE MeasureSkip \/ FillSkip
    BY <1>6a, <1>11 DEF MeasureSkip, FillSkip
  <1>12. CASE MeasureName
    <2>1. /\ lpc = "measurename" /\ lpc' = "measureimage"
          /\ dataLength' = dataLength + (2 * IntSize + userNameLength[i])
          /\ i' = i /\ UNCHANGED <<userListCount, sendOffset, listed>>
          /\ i \in Listable /\ i \in Fds
      BY <1>7, <1>12 DEF MeasureName
    <2> QED
      BY <1>1, <1>2, <1>3, <2>1, TotalNext DEF InStep, Part, IntSize, roster, buffers
  <1>13. CASE MeasureImage
    <2>1. /\ lpc = "measureimage" /\ lpc' = "measure"
          /\ dataLength' = dataLength + (IntSize + jpegOffset[i])
          /\ i' = i + 1 /\ UNCHANGED <<userListCount, sendOffset, listed>>
          /\ i \in Listable /\ i \in Fds
      BY <1>7, <1>13 DEF MeasureImage
    <2> QED
      BY <1>1, <1>2, <1>3, <2>1, TotalNext DEF InStep, Part, IntSize, roster, buffers
  <1>14. CASE Allocate
    <2>1. Total[FirstFd] = 0
      BY TotalRuns DEF IsRunning
    <2>1a. \A f \in Listable : ~(f < FirstFd)
      BY FdsBounds, RosterAssumption DEF Listable, Users
    <2>2. Total[MaxClientNum] \in Nat
      BY TotalRuns, RosterAssumption DEF IsRunning
    <2>3. {f \in Listable : f < FirstFd} = {}
      BY <2>1a
    <2> QED
      BY <1>1, <1>2, <1>14, <2>1, <2>2, <2>3
         DEF Allocate, Goto, InStep, Part, HeaderSize, IntSize, roster
  <1>15. CASE FillId
    <2>1. /\ lpc = "fillid" /\ lpc' = "fillname"
          /\ sendOffset' = sendOffset + 2 * IntSize /\ listed' = listed \cup {i}
          /\ i' = i /\ UNCHANGED <<userListCount, dataLength>>
          /\ i \in Listable /\ i \in Fds
      BY <1>8, <1>15 DEF FillId
    <2> QED
      BY <1>1, <1>2, <1>3, <2>1, TotalNext
         DEF InStep, Part, IntSize, HeaderSize, roster, buffers
  <1>16. CASE FillName
    <2>1. ~UsesFreed("fillname")
      BY <1>1, <1>3, LoadsEntry DEF UsesFreed, Die, Goto, Inside
    <2>2. /\ lpc = "fillname" /\ lpc' = "fillsize"
          /\ sendOffset' = sendOffset + userNameLength[i] /\ listed' = listed \cup {i}
          /\ i' = i /\ UNCHANGED <<userListCount, dataLength>>
          /\ i \in Listable /\ i \in Fds
      BY <1>8, <1>16, <2>1 DEF FillName
    <2> QED
      BY <1>1, <1>2, <1>3, <2>2, TotalNext
         DEF InStep, Part, IntSize, HeaderSize, roster, buffers
  <1>17. CASE FillSize
    <2>1. /\ lpc = "fillsize" /\ lpc' = "fillimage"
          /\ sendOffset' = sendOffset + IntSize /\ listed' = listed \cup {i}
          /\ i' = i /\ UNCHANGED <<userListCount, dataLength>>
          /\ i \in Listable /\ i \in Fds
      BY <1>8, <1>17 DEF FillSize
    <2> QED
      BY <1>1, <1>2, <1>3, <2>1, TotalNext
         DEF InStep, Part, IntSize, HeaderSize, roster, buffers
  <1>18. CASE FillImage
    <2>1. CASE Fill("fillimage", "filloffset", 0, {}, i)
      <3>1. /\ lpc = "fillimage" /\ lpc' = "filloffset"
            /\ sendOffset' = sendOffset + 0 /\ listed' = listed \cup {i}
            /\ i' = i /\ UNCHANGED <<userListCount, dataLength>>
            /\ i \in Listable /\ i \in Fds
        BY <1>8, <2>1
      <3> QED
        BY <1>1, <1>2, <1>3, <3>1, TotalNext
           DEF InStep, Part, IntSize, HeaderSize, roster, buffers
    <2>2. CASE Die("fillimage")
      BY <1>4, <2>2
    <2> QED
      BY <1>18, <2>1, <2>2 DEF FillImage, UsesFreed
  <1>19. CASE FillOffset
    <2>1. /\ lpc = "filloffset" /\ lpc' = "fill"
          /\ sendOffset' = sendOffset + jpegOffset[i] /\ listed' = listed \cup {i}
          /\ i' = i + 1 /\ UNCHANGED <<userListCount, dataLength>>
          /\ i \in Listable /\ i \in Fds
      BY <1>8, <1>19 DEF FillOffset
    <2>2. listed' = {f \in Listable : f < i + 1}
      BY <1>1, <2>1, BelowNext DEF InStep
    <2> QED
      BY <1>1, <1>2, <1>3, <2>1, <2>2, TotalNext
         DEF InStep, Part, IntSize, HeaderSize, roster, buffers
  <1>20. CASE Filled
    BY <1>1, <1>2, <1>20 DEF Filled, Turn, Goto, InStep, Part, roster
  <1>21. CASE Write
    BY <1>21 DEF Write, Goto, InStep
  <1>22. CASE WriteBreaks
    BY <1>4, <1>22 DEF WriteBreaks
  <1> QED
    BY <1>9, <1>10, <1>11, <1>12, <1>13, <1>14, <1>15, <1>16, <1>17, <1>18,
       <1>19, <1>20, <1>21, <1>22 DEF UserListThread

\* Waking up starts a new list, and no other step of the thread says whether
\* it is undisturbed.
LEMMA ThreadUndisturbed ==
    ASSUME Table, Types, Undisturbed, UserListThread PROVE Undisturbed'
  <1>1. UNCHANGED <<roster, buffers>>
    BY ThreadFrame
  <1>2. CASE Wake
    <2>1. lpc' = "announce" /\ quiet' = (phase = "idle" /\ drawn = 0)
      BY <1>2 DEF Wake, Goto
    <2>2. InStep'
      BY <2>1 DEF InStep, AtUser, AtOther, Measuring, Filling
    <2> QED
      BY <1>1, <2>1, <2>2 DEF Undisturbed, roster, buffers
  <1>3. CASE ~Wake
    <2>1. quiet' = quiet
      BY <1>3 DEF UserListThread, Wake, Announce, MeasureConnected, MeasureSkip,
         MeasureName, MeasureImage, Allocate, FillConnected, FillSkip, FillId,
         FillName, FillSize, FillImage, FillOffset, Filled, Write, WriteBreaks,
         Connected, SkipHost, Measure, Fill, Turn, Die, UsesNull, UsesFreed
    <2>2. quiet => InStep'
      BY <1>3, ThreadInStep
    <2> QED
      BY <1>1, <2>1, <2>2 DEF Undisturbed, roster, buffers
  <1> QED
    BY <1>2, <1>3

LEMMA StepUndisturbed ==
    Table /\ Types /\ Undisturbed /\ [NextList]_listVars => Undisturbed'
  <1> SUFFICES ASSUME Table, Types, Undisturbed, UNCHANGED listVars
               PROVE  Undisturbed'
    BY OthersUndisturbed, ThreadUndisturbed DEF NextList, OthersNext, ListNext
  <1>1. UNCHANGED <<roster, buffers, thread, quiet>>
    BY DEF listVars
  <1>2. UNCHANGED <<Users, Listable, Total>>
    BY <1>1, SameList DEF roster, buffers
  <1>3. UNCHANGED Part
    BY <1>1 DEF Part, buffers, thread
  <1>4. UNCHANGED <<phase, drawn, focus_fd, userCount, lpc, i, dataLength,
                    userListCount, sendOffset, listed>>
    BY <1>1 DEF roster, buffers, thread
  <1> QED
    BY <1>1, <1>2, <1>3, <1>4 DEF Undisturbed, InStep

\* A list that is made while nothing in it changes is exact, whatever main
\* does to the host's own buffers meanwhile: it holds the users other than the
\* host, as many as it announces, and is as long as its header says.
THEOREM ListIsExact == ListSpec => []ListExact
  <1>1. ListInit => Table
    BY TableInit DEF ListInit
  <1>2. ListInit => Undisturbed
    BY DEF ListInit, Init, Undisturbed, InStep, AtUser, AtOther, Measuring, Filling
  <1> QED
    BY <1>1, <1>2, KeepsTable, TypesInit, TypesStep, StepUndisturbed, StepExact,
       PTL DEF ListSpec
=============================================================================
