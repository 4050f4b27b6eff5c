------------------------- MODULE FocusControlProofs -------------------------
(***************************************************************************)
(* Proofs about FocusControl for every number of descriptors and every     *)
(* interleaving of main, the observer and the clients: types, and that     *)
(* read_fds, client[] and the kernel's descriptors stay together.          *)
(***************************************************************************)
EXTENDS FocusControl, FiniteSetTheorems, TLAPS

\* Descriptors are numbers, and the listening socket is none of the clients'.
LEMMA FdsType == Fds \subseteq Int /\ ServerSocket \notin Fds /\ ServerSocket \in Int
  BY FocusAssumption DEF Fds

\* Types hold initially.
LEMMA TypeInit == Init => TypeOK
  <1>1. FirstFd \in FirstFd..MaxClientNum
    BY FocusAssumption
  <1>2. Init => /\ sock \in [Fds -> {"closed", "open", "gone", "shut"}]
                /\ client \in [Fds -> {"null", "live", "dangling"}]
    BY DEF Init
  <1>3. Init => mpc = "select" /\ opc = "look"
    BY DEF Init
  <1>4. Init => FlagsOK
    BY DEF Init, FlagsOK
  <1> QED
    BY <1>1, <1>2, <1>3, <1>4 DEF Init, TypeOK, Blank

\* What a step of main must assign for the types to hold.
LEMMA MainType ==
    ASSUME TypeOK, alive, Main PROVE TypeOK'
  <1> USE DEF MainStep, MainGoto, MainStore, MainTable, MainSock,
              kernel, table, focus, observer
  <1>a. FlagsOK'
    <2>1. skewed' = skewed /\ alive' = alive
      BY DEF Main, Select, Dispatch, DispatchDone, Accept, AddDescriptor,
             ConstructFirst, ConstructNext, SetReady, Count, Publish, Read,
             ReadNothing, Request, ImageOfFocus, Draw, ChunkEnd, InvalidHeader,
             Shutdown, Close, ClearDescriptor, Uncount, HostTest, FocusOff,
             ReadyOff, Handover, Free, Unpublish
    <2> QED
      BY <2>1 DEF FlagsOK, TypeOK
  <1>1. CASE Select
    BY <1>a, <1>1 DEF Select, TypeOK, Waiting, WithData, AtEnd
  <1>2. CASE Dispatch
    BY <1>a, <1>2, FdsType DEF Dispatch, TypeOK
  <1>3. CASE DispatchDone
    BY <1>a, <1>3 DEF DispatchDone, TypeOK
  <1>4. CASE Accept
    BY <1>a, <1>4, FdsType DEF Accept, TypeOK
  <1>5. CASE AddDescriptor
    BY <1>a, <1>5 DEF AddDescriptor, TypeOK
  <1>6. CASE ConstructFirst
    BY <1>a, <1>6 DEF ConstructFirst, TypeOK, Nobody
  <1>7. CASE ConstructNext
    BY <1>a, <1>7 DEF ConstructNext, TypeOK
  <1>8. CASE SetReady
    BY <1>a, <1>8 DEF SetReady, TypeOK
  <1>9. CASE Count
    BY <1>a, <1>9 DEF Count, TypeOK
  <1>10. CASE Publish
    BY <1>a, <1>10 DEF Publish, TypeOK
  <1>11. CASE Read \/ ReadNothing \/ ImageOfFocus \/ ChunkEnd \/ InvalidHeader
    BY <1>a, <1>11 DEF Read, ReadNothing, ImageOfFocus, ChunkEnd, InvalidHeader, TypeOK
  <1>12. CASE Request
    BY <1>a, <1>12, FdsType, FocusAssumption DEF Request, TypeOK
  <1>13. CASE Draw
    BY <1>a, <1>13 DEF Draw, TypeOK
  <1>14. CASE Shutdown
    BY <1>a, <1>14 DEF Shutdown, TypeOK
  <1>15. CASE Close
    BY <1>a, <1>15 DEF Close, TypeOK
  <1>16. CASE ClearDescriptor
    BY <1>a, <1>16 DEF ClearDescriptor, TypeOK
  <1>17. CASE Uncount
    BY <1>a, <1>17 DEF Uncount, TypeOK
  <1>18. CASE HostTest
    BY <1>a, <1>18 DEF HostTest, TypeOK
  <1>19. CASE FocusOff
    BY <1>a, <1>19 DEF FocusOff, TypeOK, Nobody
  <1>20. CASE ReadyOff
    BY <1>a, <1>20 DEF ReadyOff, TypeOK, Nobody
  <1>21. CASE Handover
    BY <1>a, <1>21 DEF Handover, TypeOK
  <1>22. CASE Free
    BY <1>a, <1>22 DEF Free, TypeOK
  <1>23. CASE Unpublish
    BY <1>a, <1>23 DEF Unpublish, TypeOK
  <1> QED
    BY <1>1, <1>2, <1>3, <1>4, <1>5, <1>6, <1>7, <1>8, <1>9, <1>10, <1>11,
       <1>12, <1>13, <1>14, <1>15, <1>16, <1>17, <1>18, <1>19, <1>20, <1>21,
       <1>22, <1>23 DEF Main

\* What a step of the observer must assign for the types to hold.
LEMMA ObserverType ==
    ASSUME TypeOK, alive, Observer PROVE TypeOK'
  <1> USE DEF ObserverStep, Load, Turn, Store, Written, Die, IsA,
              kernel, table, focus, main
  <1>a. FlagsOK'
    <2>1. skewed' \in {TRUE, FALSE, skewed} /\ alive' \in {FALSE, alive}
      BY DEF Observer, LoadFocus, Compare, LoadReady, IsReady, LoadTarget,
             Send, LoadAssign, Grant, TestEmpty, ScanDone, ScanEmpty,
             ScanClient, LoadMember, IsMember, LoadSelf, IsSelf, LoadOther,
             SendOther, LoadTake, TakeFocus, LoadEcho, TakeReady, LoadFd,
              TestBit, Write, WriteArrives, WriteLost, WriteFails,
             WriteBreaks, NextSlot
    <2> QED
      BY <2>1 DEF FlagsOK, TypeOK
  <1>1. ASSUME NEW from, NEW to, NEW v \in Int, Load(from, to, v),
               \/ to \in {"compare", "isready", "send", "grant", "takeready"}
               \/ /\ to \in {"ismember", "isself", "sendother", "takefocus"}
                  /\ slot \in Fds
        PROVE  TypeOK'
    BY <1>a, <1>1 DEF Load, TypeOK
  <1>2. ASSUME NEW from, Die(from)
        PROVE  TypeOK'
    BY <1>a, <1>2 DEF Die, TypeOK
  <1>3. ASSUME NEW from, NEW to, LoadFd(from, to), slot \in Fds,
               to \in {"ismember", "isself", "sendother", "takefocus"}
        PROVE  TypeOK'
    <2>1. CASE Load(from, to, slot)
      BY <1>1, <1>3, <2>1, FdsType
    <2>2. CASE Load(from, to, Wild)
      BY <1>1, <1>3, <2>2 DEF Wild
    <2>3. CASE Die(from)
      BY <1>2, <2>3
    <2> QED
      BY <1>3, <2>1, <2>2, <2>3 DEF LoadFd
  <1>4. ASSUME NEW from, NEW yes, NEW no, TestBit(from, yes, no),
               \/ {yes, no} \subseteq {"target", "empty"}
               \/ slot \in Fds /\ {yes, no} \subseteq {"self", "skip"}
        PROVE  TypeOK'
    <2>1. opc' \in {yes, no} /\ slot' = slot /\ oval' = 0
      BY <1>4 DEF TestBit
    <2> QED
      BY <1>a, <1>4, <2>1 DEF TestBit, TypeOK
  <1>5. ASSUME NEW from, NEW again, NEW done, Write(from, again, done),
               \/ {again, done} \subseteq {"target", "assign"}
               \/ slot \in Fds /\ {again, done} \subseteq {"other", "take"}
        PROVE  TypeOK'
    <2>1. CASE WriteArrives(from, done)
      BY <1>a, <1>5, <2>1 DEF WriteArrives, TypeOK
    <2>2. CASE WriteLost(from, done)
      BY <1>a, <1>5, <2>2 DEF WriteLost, TypeOK
    <2>3. CASE WriteFails(from, again)
      BY <1>a, <1>5, <2>3 DEF WriteFails, TypeOK
    <2>4. CASE WriteBreaks(from)
      BY <1>2, <2>4 DEF WriteBreaks
    <2> QED
      BY <1>5, <2>1, <2>2, <2>3, <2>4 DEF Write
  <1>6. ASSUME NEW from, NextSlot(from), slot \in Fds
        PROVE  TypeOK'
    <2>1. slot + 1 \in FirstFd..MaxClientNum
      <3>1. slot \in Int /\ FirstFd <= slot /\ slot <= MaxClientNum - 1
        BY <1>6, FocusAssumption DEF Fds
      <3> QED
        BY <3>1, FocusAssumption
    <2> QED
      BY <1>a, <1>6, <2>1 DEF NextSlot, TypeOK
  <1>7. slot # MaxClientNum => slot \in Fds
    BY <1>a, FocusAssumption DEF Fds, TypeOK
  <1>8. CASE LoadFocus \/ LoadReady \/ LoadTarget \/ LoadAssign \/ LoadEcho
    BY <1>a, <1>1, <1>8 DEF LoadFocus, LoadReady, LoadTarget, LoadAssign, LoadEcho, TypeOK
  <1>9. CASE Compare
    BY <1>a, <1>9 DEF Compare, TypeOK
  <1>10. CASE IsReady
    BY <1>4, <1>10 DEF IsReady
  <1>11. CASE Send
    BY <1>5, <1>11 DEF Send
  <1>12. CASE Grant
    BY <1>a, <1>12 DEF Grant, TypeOK
  <1>13. CASE TestEmpty
    <2>1. FirstFd \in FirstFd..MaxClientNum
      BY FocusAssumption
    <2> QED
      BY <1>a, <1>13, <2>1 DEF TestEmpty, TypeOK
  <1>14. CASE ScanDone
    BY <1>a, <1>14 DEF ScanDone, TypeOK
  <1>15. CASE ScanEmpty
    BY <1>6, <1>7, <1>15 DEF ScanEmpty
  <1>16. CASE ScanClient
    BY <1>a, <1>7, <1>16 DEF ScanClient, TypeOK
  <1>17. CASE LoadMember \/ LoadSelf \/ LoadOther \/ LoadTake
    <2>1. opc \in {"member", "self", "other", "take"}
      BY <1>17 DEF LoadMember, LoadSelf, LoadOther, LoadTake, LoadFd
    <2>2. slot \in Fds
      BY <2>1 DEF TypeOK
    <2> QED
      BY <1>3, <1>17, <2>2 DEF LoadMember, LoadSelf, LoadOther, LoadTake
  <1>18. CASE IsMember
    <2>1. opc \in {"ismember", "skip"}
      BY <1>18 DEF IsMember, TestBit, Die, NextSlot
    <2>2. slot \in Fds
      BY <2>1 DEF TypeOK
    <2> QED
      BY <1>2, <1>4, <1>6, <1>18, <2>2 DEF IsMember
  <1>19. CASE IsSelf
    <2>1. opc = "isself"
      BY <1>19 DEF IsSelf, NextSlot
    <2>2. slot \in Fds
      BY <2>1 DEF TypeOK
    <2>3. CASE NextSlot("isself")
      BY <1>6, <2>2, <2>3
    <2>4. CASE Turn("isself", "other", slot)
      BY <1>a, <2>2, <2>4 DEF TypeOK
    <2> QED
      BY <1>19, <2>3, <2>4 DEF IsSelf
  <1>20. CASE SendOther
    <2>1. opc = "sendother"
      BY <1>20 DEF SendOther, Write, WriteArrives, WriteLost, WriteFails,
                   WriteBreaks, Die
    <2>2. slot \in Fds
      BY <2>1 DEF TypeOK
    <2> QED
      BY <1>5, <1>20, <2>2 DEF SendOther
  <1>21. CASE TakeFocus
    BY <1>a, <1>21 DEF TakeFocus, TypeOK
  <1>22. CASE TakeReady
    BY <1>a, <1>22 DEF TakeReady, TypeOK
  <1> QED
    BY <1>8, <1>9, <1>10, <1>11, <1>12, <1>13, <1>14, <1>15, <1>16, <1>17,
       <1>18, <1>19, <1>20, <1>21, <1>22 DEF Observer

\* Every step preserves the types.
LEMMA TypeStep == TypeOK /\ [Next]_vars => TypeOK'
  <1> SUFFICES ASSUME TypeOK, [Next]_vars PROVE TypeOK'
    OBVIOUS
  <1>1. ASSUME NEW f \in Fds, Depart(f) PROVE TypeOK'
    <2>1. FlagsOK'
      BY <1>1 DEF Depart, observer, FlagsOK, TypeOK
    <2> QED
      BY <1>1, <2>1 DEF Depart, TypeOK, table, focus, main, observer
  <1>2. CASE UNCHANGED vars
    <2>1. FlagsOK'
      BY <1>2 DEF vars, observer, FlagsOK, TypeOK
    <2> QED
      BY <1>2, <2>1 DEF vars, kernel, table, focus, main, observer, TypeOK
  <1> QED
    BY <1>1, <1>2, MainType, ObserverType
       DEF Next, MainNext, ObserverNext, PeersNext

\* main and focusObserver keep what they share in its types.
THEOREM TypeCorrect == Spec => []TypeOK
  BY TypeInit, TypeStep, PTL DEF Spec

----------------------------------------------------------------------------
\* The descriptor main has in hand: what SelectServes and TableServes need to
\* be inductive.
InHand ==
    /\ mpc \in {"read", "receive", "draw", "shutdown", "close", "fdclr"} =>
          fd \in read_fds /\ fd \notin tmp_fds /\ client[fd] = "live"
    /\ mpc = "fdset" => sock[fd] \in {"open", "gone"} /\ fd \notin read_fds
    /\ mpc \in Constructing => fd \in read_fds
    /\ mpc \in {"close"} => sock[fd] = "shut"
    /\ mpc \in {"fdclr"} \cup Destroying => sock[fd] = "closed"
    /\ mpc \in Destroying => fd \notin read_fds
    /\ mpc \in Destroying \ {"unpublish"} => client[fd] = "live"
    /\ mpc = "unpublish" => client[fd] = "dangling"

Tables == SelectServes /\ TableServes /\ InHand

\* Nothing is connected at the start.
LEMMA TablesInit == Init => Tables
  BY FdsType DEF Init, Tables, SelectServes, TableServes, InHand, At,
                 Constructing, Destroying

\* The observer only looks at the tables.
LEMMA ObserverFrame ==
    ASSUME Observer
    PROVE  UNCHANGED <<sock, read_fds, client, userCount, mpc, fd, tmp_fds>>
  BY DEF Observer, LoadFocus, Compare, LoadReady, IsReady, LoadTarget,
         Send, LoadAssign, Grant, TestEmpty, ScanDone, ScanEmpty,
         ScanClient, LoadMember, IsMember, LoadSelf, IsSelf, LoadOther,
         SendOther, LoadTake, TakeFocus, LoadEcho, TakeReady, Load,
         LoadFd, TestBit, Write, WriteArrives, WriteLost, WriteFails,
         WriteBreaks, Die, NextSlot, ObserverStep, Turn, Store, Written,
         kernel, main

\* A step of main keeps the tables together.
LEMMA TablesMain ==
    ASSUME TypeOK, Tables, Main PROVE Tables'
  <1> USE DEF MainStep, MainGoto, MainStore, MainTable, MainSock,
              kernel, table, Tables, SelectServes, TableServes,
              InHand, At, Constructing, Destroying
  <1>1. CASE Select
    BY <1>1, FdsType DEF Select, TypeOK, Waiting, WithData, AtEnd
  <1>2. CASE Dispatch
    BY <1>2, FdsType DEF Dispatch, TypeOK
  <1>3. CASE DispatchDone
    BY <1>3 DEF DispatchDone
  <1>4. CASE Accept
    BY <1>4 DEF Accept, TypeOK
  <1>5. CASE AddDescriptor
    BY <1>5 DEF AddDescriptor, TypeOK
  <1>6. CASE ConstructFirst \/ ConstructNext \/ SetReady \/ Count
    BY <1>6 DEF ConstructFirst, ConstructNext, SetReady, Count, TypeOK
  <1>7. CASE Publish
    BY <1>7 DEF Publish, TypeOK
  <1>8. CASE Read \/ ReadNothing
    BY <1>8 DEF Read, ReadNothing
  <1>9. CASE Request \/ ImageOfFocus \/ Draw \/ ChunkEnd \/ InvalidHeader
    BY <1>9 DEF Request, ImageOfFocus, Draw, ChunkEnd, InvalidHeader
  <1>10. CASE Shutdown
    BY <1>10 DEF Shutdown, TypeOK
  <1>11. CASE Close
    BY <1>11 DEF Close, TypeOK
  <1>12. CASE ClearDescriptor
    BY <1>12 DEF ClearDescriptor, TypeOK
  <1>13. CASE Uncount \/ HostTest \/ FocusOff \/ ReadyOff \/ Handover
    BY <1>13 DEF Uncount, HostTest, FocusOff, ReadyOff, Handover, TypeOK
  <1>14. CASE Free
    BY <1>14 DEF Free, TypeOK
  <1>15. CASE Unpublish
    BY <1>15 DEF Unpublish, TypeOK
  <1> QED
    BY <1>1, <1>2, <1>3, <1>4, <1>5, <1>6, <1>7, <1>8, <1>9, <1>10, <1>11,
       <1>12, <1>13, <1>14, <1>15 DEF Main

\* So does every step of the system.
LEMMA TablesStep == TypeOK /\ Tables /\ [Next]_vars => Tables'
  <1> SUFFICES ASSUME TypeOK, Tables, [Next]_vars PROVE Tables'
    OBVIOUS
  <1> USE DEF Tables, SelectServes, TableServes, InHand, At
  <1>1. ASSUME NEW f \in Fds, Depart(f) PROVE Tables'
    BY <1>1 DEF Depart, TypeOK, table, main, Destroying
  <1>2. CASE Observer
    BY <1>2, ObserverFrame
  <1>3. CASE UNCHANGED vars
    BY <1>3 DEF vars, kernel, table, main
  <1> QED
    BY <1>1, <1>2, <1>3, TablesMain DEF Next, MainNext, ObserverNext, PeersNext

\* read_fds and the kernel's descriptors agree outside accept..FD_SET and
\* shutdown..FD_CLR, for any number of clients and every interleaving.
THEOREM SelectIsServed == Spec => []SelectServes
  <1>1. Tables => SelectServes
    BY DEF Tables
  <1> QED
    BY <1>1, TypeInit, TypeStep, TablesInit, TablesStep, PTL DEF Spec

\* client[] has an entry for every connection, and main uses no other.
THEOREM TableIsServed == Spec => []TableServes
  <1>1. Tables => TableServes
    BY DEF Tables
  <1> QED
    BY <1>1, TypeInit, TypeStep, TablesInit, TablesStep, PTL DEF Spec

----------------------------------------------------------------------------
\* There are finitely many clients.
LEMMA CountedFinite == IsFiniteSet(Counted) /\ Cardinality(Counted) \in Nat
  <1>1. IsFiniteSet(Fds)
    BY FS_Interval, FocusAssumption DEF Fds
  <1> QED
    BY <1>1, FS_Subset, FS_CardinalityType DEF Counted

\* The user count changes with the entries.
LEMMA CountMain ==
    ASSUME TypeOK, Tables, CountMatches, Main PROVE CountMatches'
  <1> USE DEF MainStep, MainGoto, MainStore, MainTable, MainSock, kernel, table
  <1>1. CASE Publish
    <2>1. Counted' = Counted \cup {fd} /\ fd \notin Counted
      BY <1>1 DEF Publish, Counted, TypeOK, Tables, TableServes, Constructing
    <2>2. Cardinality(Counted') = Cardinality(Counted) + 1
      BY <2>1, CountedFinite, FS_AddElement
    <2> QED
      BY <1>1, <2>2, CountedFinite DEF Publish, CountMatches, TypeOK, Destroying
  <1>2. CASE Unpublish
    <2>1. Counted' = Counted \ {fd} /\ fd \in Counted
      BY <1>2 DEF Unpublish, Counted, TypeOK, Tables, InHand
    <2>2. Cardinality(Counted') = Cardinality(Counted) - 1
      BY <2>1, CountedFinite, FS_RemoveElement
    <2> QED
      BY <1>2, <2>2, CountedFinite DEF Unpublish, CountMatches, TypeOK, Destroying
  <1>3. CASE Free
    <2>1. Counted' = Counted
      BY <1>3 DEF Free, Counted, TypeOK, Tables, InHand, Destroying
    <2> QED
      BY <1>3, <2>1 DEF Free, CountMatches, Destroying
  <1>4. ASSUME client' = client PROVE Counted' = Counted
    BY <1>4 DEF Counted
  <1>5. CASE Count \/ Uncount
    <2>1. client' = client
      BY <1>5 DEF Count, Uncount, TypeOK
    <2>2. Cardinality(Counted') = Cardinality(Counted)
      BY <1>4, <2>1
    <2> QED
      BY <1>5, <2>2, CountedFinite DEF Count, Uncount, CountMatches, TypeOK, Destroying
  <1>6. CASE Select \/ Dispatch \/ DispatchDone \/ Accept \/ AddDescriptor
             \/ ConstructFirst \/ ConstructNext \/ SetReady
    <2>1. client' = client
      BY <1>6 DEF Select, Dispatch, DispatchDone, Accept, AddDescriptor,
                  ConstructFirst, ConstructNext, SetReady, TypeOK
    <2> QED
      BY <1>4, <1>6, <2>1
         DEF Select, Dispatch, DispatchDone, Accept, AddDescriptor,
             ConstructFirst, ConstructNext, SetReady, CountMatches, Destroying
  <1>7. CASE Read \/ ReadNothing \/ Request \/ ImageOfFocus \/ Draw
             \/ ChunkEnd \/ InvalidHeader
    BY <1>7 DEF Read, ReadNothing, Request, ImageOfFocus, Draw, ChunkEnd,
                InvalidHeader, CountMatches, Counted, Destroying
  <1>8. CASE Shutdown \/ Close \/ ClearDescriptor \/ HostTest
             \/ FocusOff \/ ReadyOff \/ Handover
    <2>1. client' = client
      BY <1>8 DEF Shutdown, Close, ClearDescriptor, HostTest, FocusOff,
                  ReadyOff, Handover, TypeOK
    <2> QED
      BY <1>4, <1>8, <2>1
         DEF Shutdown, Close, ClearDescriptor, HostTest, FocusOff,
             ReadyOff, Handover, CountMatches, Destroying
  <1> QED
    BY <1>1, <1>2, <1>3, <1>5, <1>6, <1>7, <1>8 DEF Main

\* No other step touches it.
LEMMA CountStep == TypeOK /\ Tables /\ CountMatches /\ [Next]_vars => CountMatches'
  <1> SUFFICES ASSUME TypeOK, Tables, CountMatches, [Next]_vars
               PROVE  CountMatches'
    OBVIOUS
  <1>1. ASSUME NEW f \in Fds, Depart(f) PROVE CountMatches'
    BY <1>1 DEF Depart, CountMatches, Counted, table, main
  <1>2. CASE Observer
    BY <1>2, ObserverFrame DEF CountMatches, Counted
  <1>3. CASE UNCHANGED vars
    BY <1>3 DEF vars, CountMatches, Counted, table, main
  <1> QED
    BY <1>1, <1>2, <1>3, CountMain DEF Next, MainNext, ObserverNext, PeersNext

\* userCount is the number of clients, up to the one that main is making or
\* unmaking: the first client of all, and the first after all have left, finds
\* 0 and becomes host.
THEOREM CountIsRight == Spec => []CountMatches
  <1>1. Init => CountMatches
    <2>1. Init => Counted = {}
      BY DEF Init, Counted
    <2> QED
      BY <2>1, FS_EmptySet DEF Init, CountMatches, Destroying
  <1> QED
    BY <1>1, TypeInit, TypeStep, TablesInit, TablesStep, CountStep, PTL DEF Spec

----------------------------------------------------------------------------
\* Nothing is connected at the start for an onlooker either.
LEMMA RosterInit == Init => Promised!Init
  <1>1. Fds = Promised!Fds
    BY DEF Fds, Promised!Fds
  <1> QED
    BY <1>1 DEF Init, Promised!Init, Phase, InHandFd, Destroying

\* A step of main is a step of the roster, or leaves it as it is.
LEMMA RosterMain ==
    ASSUME TypeOK, Tables, Main
    PROVE  Promised!Next \/ UNCHANGED Promised!roster
  <1> USE DEF MainStep, MainGoto, MainStore, MainTable, MainSock, kernel, table,
              Phase, InHandFd, Destroying, Promised!Phase, Promised!Entry
  <1>1. CASE AddDescriptor
    <2>1. fd \in Promised!Fds
      BY <1>1 DEF AddDescriptor, TypeOK, Fds, Promised!Fds
    <2>2. Promised!Watch(fd)
      BY <1>1 DEF AddDescriptor, TypeOK, Tables, InHand, TableServes,
                  focus, Promised!Watch
    <2> QED
      BY <2>1, <2>2 DEF Promised!Next
  <1>2. CASE Count
    <2>1. Promised!Count
      BY <1>2 DEF Count, TypeOK, focus, Promised!Count
    <2> QED
      BY <2>1 DEF Promised!Next
  <1>3. CASE Publish
    <2>1. Promised!Publish
      BY <1>3 DEF Publish, TypeOK, focus, Promised!Publish
    <2> QED
      BY <2>1 DEF Promised!Next
  <1>4. CASE ClearDescriptor
    <2>1. fd \in Promised!Fds
      BY <1>4 DEF ClearDescriptor, TypeOK, Fds, Promised!Fds
    <2>2. Promised!Unwatch(fd)
      BY <1>4 DEF ClearDescriptor, TypeOK, Tables, InHand, focus, Promised!Unwatch
    <2> QED
      BY <2>1, <2>2 DEF Promised!Next
  <1>5. CASE Uncount
    <2>1. Promised!Uncount
      BY <1>5 DEF Uncount, TypeOK, focus, Promised!Uncount
    <2> QED
      BY <2>1 DEF Promised!Next
  <1>6. CASE Free
    <2>1. Promised!Free
      BY <1>6 DEF Free, TypeOK, focus, Promised!Free
    <2> QED
      BY <2>1 DEF Promised!Next
  <1>7. CASE Unpublish
    <2>1. Promised!Clear
      BY <1>7 DEF Unpublish, TypeOK, focus, Promised!Clear
    <2> QED
      BY <2>1 DEF Promised!Next
  <1>8. CASE ConstructFirst \/ FocusOff \/ ReadyOff \/ Handover
    BY <1>8 DEF ConstructFirst, FocusOff, ReadyOff, Handover, Nobody, TypeOK,
                Promised!Refocus, Promised!Next, Promised!roster
  <1>9. CASE ConstructNext \/ SetReady \/ HostTest \/ Draw
    BY <1>9 DEF ConstructNext, SetReady, HostTest, Draw, focus, Promised!roster
  <1>10. CASE Select \/ Dispatch \/ DispatchDone \/ Accept
    BY <1>10 DEF Select, Dispatch, DispatchDone, Accept, focus, Promised!roster
  <1>11. CASE Read \/ ReadNothing \/ Request \/ ImageOfFocus \/ ChunkEnd
              \/ InvalidHeader
    BY <1>11 DEF Read, ReadNothing, Request, ImageOfFocus, ChunkEnd,
                 InvalidHeader, focus, Promised!roster
  <1>12. CASE Shutdown \/ Close
    BY <1>12 DEF Shutdown, Close, focus, Promised!roster
  <1> QED
    BY <1>1, <1>2, <1>3, <1>4, <1>5, <1>6, <1>7, <1>8, <1>9, <1>10, <1>11,
       <1>12 DEF Main

\* Every other step may change focus_fd alone.
LEMMA RosterStep ==
    TypeOK /\ TypeOK' /\ Tables /\ [Next]_vars => [Promised!Next]_(Promised!roster)
  <1> SUFFICES ASSUME TypeOK, TypeOK', Tables, [Next]_vars
               PROVE  Promised!Next \/ UNCHANGED Promised!roster
    OBVIOUS
  <1>1. ASSUME UNCHANGED <<read_fds, client, userCount, mpc, fd>>
        PROVE  Promised!Next \/ UNCHANGED Promised!roster
    <2>1. UNCHANGED <<Phase, InHandFd>>
      BY <1>1 DEF Phase, InHandFd, Destroying
    <2>2. focus_fd' \in Int
      BY DEF TypeOK
    <2> QED
      BY <1>1, <2>1, <2>2 DEF Promised!Next, Promised!Refocus, Promised!roster
  <1>2. ASSUME NEW f \in Fds, Depart(f)
        PROVE  UNCHANGED <<read_fds, client, userCount, mpc, fd>>
    BY <1>2 DEF Depart, table, main
  <1>3. CASE UNCHANGED vars
    BY <1>1, <1>3 DEF vars, table, main
  <1> QED
    BY <1>1, <1>2, <1>3, ObserverFrame, RosterMain
       DEF Next, MainNext, ObserverNext, PeersNext

\* For any number of descriptors and every interleaving, main and the observer
\* keep what Roster promises to the threads that look on.
THEOREM ImplementsRoster == Spec => KeepsRoster
  BY TypeInit, TypeStep, TablesInit, TablesStep, RosterInit, RosterStep, PTL
     DEF Spec, KeepsRoster, Promised!Spec

----------------------------------------------------------------------------
\* While nobody leaves and requests name clients only, what is connected stays
\* connected, and the numbers the observer carries name connected clients.
Staying == ~Departures /\ Unknown = {}
Members == read_fds \cap Fds

Leaving == {"shutdown", "close", "fdclr"} \cup Destroying
Granting == {"target", "send", "assign", "grant"}
AtSlot == {"member", "ismember", "skip", "self", "isself", "other", "sendother", "take"}
Scanning == {"scan", "takefocus", "echo", "takeready"} \cup AtSlot

NobodyLeaves ==
    /\ \A f \in Fds : sock[f] \in {"closed", "open"} /\ client[f] \in {"null", "live"}
    /\ mpc \notin Leaving
    /\ userCount >= 0
    /\ mpc = "setready" => userCount = 0
    /\ ready_fd \in {0} \cup Members
    /\ focus_fd \in {0, Nobody} \cup Members
    /\ userCount > 0 \/ mpc = "count" => ready_fd \in Members

ObserverKnows ==
    /\ opc \in Granting => ready_fd \in Members
    /\ opc \in {"send", "grant", "takefocus", "takeready"} => oval \in Members
    /\ opc = "isready" => oval = 0 \/ {oval, ready_fd} \subseteq Members
    /\ opc \in Scanning => userCount > 0
    /\ opc \in AtSlot => client[slot] = "live"
    /\ opc \in {"ismember", "isself", "sendother"} => oval = slot
    /\ opc = "echo" => focus_fd \in Members

\* A member is connected and its connection takes what is written.
LEMMA MemberOpen ==
    ASSUME TypeOK, Tables, NobodyLeaves
    PROVE  /\ \A f \in Members : f \in Fds /\ sock[f] = "open"
           /\ \A f \in Fds : client[f] = "live" => f \in Members
           /\ Members \subseteq Int /\ 0 \notin Members /\ Nobody \notin Members
           /\ 0 \notin read_fds
  <1>1. \A f \in Members : f \in Fds /\ sock[f] = "open"
    BY DEF Members, Tables, SelectServes, At, NobodyLeaves, Leaving
  <1>2. \A f \in Fds : client[f] = "live" => f \in Members
    BY DEF Members, Tables, TableServes, At, NobodyLeaves, Leaving
  <1>3. Fds \subseteq Nat \ {0} /\ ServerSocket # 0
    BY FocusAssumption DEF Fds, Terminal
  <1> QED
    BY <1>1, <1>2, <1>3 DEF Members, Nobody, TypeOK

\* main: nobody leaves, and the observer's numbers stay members.
LEMMA MainStays ==
    ASSUME Staying, TypeOK, Tables, NobodyLeaves, ObserverKnows, Main
    PROVE  NobodyLeaves' /\ ObserverKnows'
  <1> USE DEF NobodyLeaves, ObserverKnows, Members, Leaving, Destroying, Granting,
              Scanning, AtSlot, MainStep, MainGoto, MainStore, MainTable, MainSock,
              kernel, table, focus, observer
  <1>1. CASE Select \/ DispatchDone \/ Dispatch
    BY <1>1 DEF Select, Dispatch, DispatchDone
  <1>2. CASE Accept
    BY <1>2 DEF Accept, TypeOK
  <1>3. CASE AddDescriptor
    <2>1. fd \in Fds /\ client' = client
      BY <1>3 DEF AddDescriptor, TypeOK
    <2> QED
      BY <1>3, <2>1 DEF AddDescriptor
  <1>4. CASE ConstructFirst
    BY <1>4 DEF ConstructFirst
  <1>5. CASE ConstructNext
    BY <1>5 DEF ConstructNext, TypeOK
  <1>6. CASE SetReady
    <2>1. fd \in Members
      BY <1>6 DEF SetReady, TypeOK, Tables, InHand, Constructing
    <2> QED
      BY <1>6, <2>1 DEF SetReady
  <1>7. CASE Count
    <2>1. client' = client
      BY <1>7 DEF Count, TypeOK
    <2> QED
      BY <1>7, <2>1 DEF Count, TypeOK
  <1>8. CASE Publish
    BY <1>8 DEF Publish, TypeOK
  <1>9. CASE Read \/ ReadNothing
    <2>1. sock[fd] # "gone"
      BY <1>9 DEF TypeOK, Read, ReadNothing
    <2> QED
      BY <1>9, <2>1 DEF Read, ReadNothing
  <1>10. CASE Request
    BY <1>10 DEF Request, Staying
  <1>11. CASE ImageOfFocus \/ Draw \/ ChunkEnd \/ InvalidHeader
    BY <1>11 DEF ImageOfFocus, Draw, ChunkEnd, InvalidHeader, Staying
  <1>12. CASE \/ Shutdown \/ Close \/ ClearDescriptor \/ Uncount \/ HostTest
              \/ FocusOff \/ ReadyOff \/ Handover \/ Free \/ Unpublish
    BY <1>12 DEF Shutdown, Close, ClearDescriptor, Uncount, HostTest,
                 FocusOff, ReadyOff, Handover, Free, Unpublish
  <1> QED
    BY <1>1, <1>2, <1>3, <1>4, <1>5, <1>6, <1>7, <1>8, <1>9, <1>10, <1>11,
       <1>12 DEF Main

\* The observer: it writes to members only and stores nothing else.
LEMMA ObserverStays ==
    ASSUME Staying, TypeOK, Tables, NobodyLeaves, ObserverKnows, Observer
    PROVE  NobodyLeaves' /\ ObserverKnows' /\ UNCHANGED alive
  <1>1. UNCHANGED <<sock, read_fds, client, userCount, mpc, fd, Members>>
    BY ObserverFrame DEF Members
  <1>2. ASSUME UNCHANGED focus PROVE NobodyLeaves'
    BY <1>1, <1>2 DEF NobodyLeaves, focus
  <1>3. ASSUME NEW from, NEW to, LoadFd(from, to), client[slot] = "live"
        PROVE  Load(from, to, slot)
    BY <1>3 DEF LoadFd
  <1>4. ASSUME NEW from, NEW again, NEW done, Write(from, again, done), oval \in Members
        PROVE  Written(from, done, IF skewed THEN {} ELSE {oval}, FALSE)
    <2>1. oval \in Fds /\ sock[oval] = "open" /\ oval # 0 /\ oval # Wild
      BY <1>4, MemberOpen, FocusAssumption DEF Wild, Fds
    <2>2. oval # ServerSocket /\ ~IsA({"gone"}) /\ ~IsA({"gone", "closed"})
          /\ ~IsA({"gone", "shut"})
      BY <2>1, FdsType DEF IsA
    <2>3. WriteArrives(from, done)
      BY <1>4, <2>1, <2>2 DEF Write, WriteLost, WriteFails, WriteBreaks, Terminal
    <2> QED
      BY <2>3 DEF WriteArrives
  <1> USE DEF Granting, Scanning, AtSlot
  <1>5. CASE LoadFocus \/ Compare \/ LoadReady
    <2>1. UNCHANGED <<focus, alive>>
      BY <1>5 DEF LoadFocus, Compare, LoadReady, Load, Turn
    <2>2. ObserverKnows'
      BY <1>1, <1>5 DEF LoadFocus, Compare, LoadReady, Load, Turn, ObserverStep,
                        ObserverKnows, NobodyLeaves, focus
    <2> QED
      BY <1>2, <2>1, <2>2
  <1>6. CASE IsReady
    <2>1. UNCHANGED <<focus, alive>> /\ opc' \in {"target", "empty"} /\ opc = "isready"
      BY <1>6 DEF IsReady, TestBit, Turn, ObserverStep
    <2>2. opc' = "target" => oval \in read_fds
      <3>1. oval \in {0} \cup Members
        BY <2>1 DEF ObserverKnows
      <3>2. ~(oval < 0)
        BY <3>1, FocusAssumption DEF Members, Fds
      <3>3. Isset(oval) = {oval \in read_fds}
        BY <3>2 DEF Isset
      <3>4. opc' = IF oval \in read_fds THEN "target" ELSE "empty"
        BY <1>6, <3>3 DEF IsReady, TestBit, Turn, ObserverStep
      <3> QED
        BY <3>4
    <2>3. opc' = "target" => ready_fd \in Members
      BY <2>1, <2>2, MemberOpen DEF ObserverKnows, NobodyLeaves
    <2> QED
      BY <1>1, <1>2, <2>1, <2>3 DEF ObserverKnows, focus
  <1>7. CASE LoadTarget \/ LoadAssign
    <2>1. UNCHANGED <<focus, alive>>
      BY <1>7 DEF LoadTarget, LoadAssign, Load
    <2>2. ObserverKnows'
      BY <1>1, <1>7 DEF LoadTarget, LoadAssign, Load, ObserverStep, ObserverKnows, focus
    <2> QED
      BY <1>2, <2>1, <2>2
  <1>8. CASE Send
    <2>1. opc = "send" /\ oval \in Members
      BY <1>8 DEF Send, Write, WriteArrives, WriteLost, WriteFails, WriteBreaks,
                  Written, Die, ObserverStep, ObserverKnows
    <2>2. Written("send", "assign", IF skewed THEN {} ELSE {oval}, FALSE)
      BY <1>4, <1>8, <2>1 DEF Send
    <2>3. UNCHANGED <<focus, alive>> /\ opc' = "assign"
      BY <2>2 DEF Written, ObserverStep
    <2> QED
      BY <1>1, <1>2, <2>1, <2>3 DEF ObserverKnows, focus
  <1>9. CASE Grant
    <2>1. opc = "grant" /\ opc' = "look" /\ focus_fd' = oval /\ ready_fd' = ready_fd
          /\ alive' = alive
      BY <1>9 DEF Grant, Store, ObserverStep
    <2> QED
      BY <1>1, <2>1 DEF NobodyLeaves, ObserverKnows
  <1>10. CASE TestEmpty
    <2>1. UNCHANGED <<focus, alive>> /\ opc' = IF userCount = 0 THEN "look" ELSE "scan"
      BY <1>10 DEF TestEmpty, Turn, ObserverStep
    <2> QED
      BY <1>1, <1>2, <2>1 DEF ObserverKnows, NobodyLeaves, TypeOK
  <1>11. CASE ScanDone \/ ScanEmpty \/ ScanClient
    <2>1. UNCHANGED <<focus, alive>> /\ opc = "scan"
      BY <1>11 DEF ScanDone, ScanEmpty, ScanClient, NextSlot, Turn, ObserverStep
    <2>2. \/ opc' \in {"look", "scan"}
          \/ opc' = "member" /\ slot' = slot /\ client[slot] = "live"
      <3>1. CASE ScanClient
        <4>1. slot \in Fds /\ client[slot] # "null"
          BY <3>1, FocusAssumption DEF ScanClient, TypeOK, Fds
        <4> QED
          BY <3>1, <4>1 DEF ScanClient, Turn, ObserverStep, NobodyLeaves
      <3> QED
        BY <1>11, <3>1 DEF ScanDone, ScanEmpty, NextSlot, Turn, ObserverStep
    <2> QED
      BY <1>1, <1>2, <2>1, <2>2 DEF ObserverKnows
  <1>12. CASE LoadMember \/ LoadSelf \/ LoadOther \/ LoadTake
    <2>1. opc \in {"member", "self", "other", "take"} /\ client[slot] = "live"
      BY <1>12 DEF LoadMember, LoadSelf, LoadOther, LoadTake, LoadFd, Load, Die,
                   ObserverStep, ObserverKnows
    <2>2. \/ Load("member", "ismember", slot) \/ Load("self", "isself", slot)
          \/ Load("other", "sendother", slot) \/ Load("take", "takefocus", slot)
      BY <1>3, <1>12, <2>1 DEF LoadMember, LoadSelf, LoadOther, LoadTake
    <2>3. UNCHANGED <<focus, alive, slot>> /\ oval' = slot
          /\ opc' \in {"ismember", "isself", "sendother", "takefocus"}
      BY <2>2 DEF Load, ObserverStep
    <2>4. slot \in Members
      BY <2>1, MemberOpen DEF TypeOK
    <2> QED
      BY <1>1, <1>2, <2>1, <2>3, <2>4 DEF ObserverKnows
  <1>13. CASE IsMember
    <2>1. opc \in {"ismember", "skip"} /\ UNCHANGED focus
      BY <1>13 DEF IsMember, TestBit, NextSlot, Turn, Die, ObserverStep
    <2>2. opc = "ismember" => oval # Wild
      BY <2>1, FdsType, MemberOpen, FocusAssumption DEF ObserverKnows, Wild, TypeOK, Fds
    <2>3. /\ alive' = alive
          /\ \/ opc' = "scan"
             \/ opc' = "skip" /\ slot' = slot
             \/ opc' = "self" /\ slot' = slot
      BY <1>13, <2>1, <2>2 DEF IsMember, TestBit, NextSlot, Turn, Die, ObserverStep
    <2> QED
      BY <1>1, <1>2, <2>1, <2>3 DEF ObserverKnows
  <1>14. CASE IsSelf
    <2>1. /\ UNCHANGED <<focus, alive>> /\ opc = "isself"
          /\ opc' = "scan" \/ (opc' = "other" /\ slot' = slot)
      <3>1. CASE NextSlot("isself")
        BY <3>1 DEF NextSlot, Turn, ObserverStep
      <3>2. CASE Turn("isself", "other", slot)
        BY <3>2 DEF Turn, ObserverStep
      <3> QED
        BY <1>14, <3>1, <3>2 DEF IsSelf
    <2> QED
      BY <1>1, <1>2, <2>1 DEF ObserverKnows
  <1>15. CASE SendOther
    <2>1. opc = "sendother" /\ oval = slot /\ client[slot] = "live"
      BY <1>15 DEF SendOther, Write, WriteArrives, WriteLost, WriteFails, WriteBreaks,
                   Written, Die, ObserverStep, ObserverKnows
    <2>2. oval \in Members
      BY <2>1, MemberOpen DEF TypeOK
    <2>3. Written("sendother", "take", IF skewed THEN {} ELSE {oval}, FALSE)
      BY <1>4, <1>15, <2>2 DEF SendOther
    <2>4. UNCHANGED <<focus, alive, slot>> /\ opc' = "take"
      BY <2>3 DEF Written, ObserverStep
    <2> QED
      BY <1>1, <1>2, <2>1, <2>4 DEF ObserverKnows
  <1>16. CASE TakeFocus
    <2>1. opc = "takefocus" /\ opc' = "echo" /\ focus_fd' = oval
          /\ ready_fd' = ready_fd /\ alive' = alive
      BY <1>16 DEF TakeFocus, Store, ObserverStep
    <2> QED
      BY <1>1, <2>1 DEF NobodyLeaves, ObserverKnows
  <1>17. CASE LoadEcho
    <2>1. opc = "echo" /\ opc' = "takeready" /\ oval' = focus_fd
          /\ UNCHANGED <<focus, alive>>
      BY <1>17 DEF LoadEcho, Load, ObserverStep
    <2> QED
      BY <1>1, <1>2, <2>1 DEF ObserverKnows
  <1>18. CASE TakeReady
    <2>1. opc = "takeready" /\ opc' = "look" /\ ready_fd' = oval
          /\ focus_fd' = focus_fd /\ alive' = alive
      BY <1>18 DEF TakeReady, Store, ObserverStep
    <2> QED
      BY <1>1, <2>1 DEF NobodyLeaves, ObserverKnows
  <1> QED
    BY <1>5, <1>6, <1>7, <1>8, <1>9, <1>10, <1>11, <1>12, <1>13, <1>14, <1>15,
       <1>16, <1>17, <1>18 DEF Observer

StayInv == TypeOK /\ Tables /\ NobodyLeaves /\ ObserverKnows

LEMMA StayInit == Init => StayInv
  <1> SUFFICES ASSUME Init PROVE StayInv
    OBVIOUS
  <1>1. NobodyLeaves
    BY DEF Init, NobodyLeaves, Leaving, Destroying
  <1>2. ObserverKnows
    BY DEF Init, ObserverKnows, Granting, Scanning, AtSlot
  <1> QED
    BY <1>1, <1>2, TypeInit, TablesInit DEF StayInv

LEMMA StayStep ==
    ASSUME Staying, StayInv, [Next]_vars PROVE StayInv' /\ UNCHANGED alive
  <1>1. TypeOK' /\ Tables'
    BY TypeStep, TablesStep DEF StayInv
  <1>2. CASE Main
    <2>1. UNCHANGED alive
      BY <1>2 DEF Main, Select, Dispatch, DispatchDone, Accept, AddDescriptor,
           ConstructFirst, ConstructNext, SetReady, Count, Publish, Read,
           ReadNothing, Request, ImageOfFocus, Draw, ChunkEnd, InvalidHeader,
           Shutdown, Close, ClearDescriptor, Uncount, HostTest, FocusOff,
           ReadyOff, Handover, Free, Unpublish, MainStep, MainGoto, MainStore,
           MainTable, MainSock
    <2> QED
      BY <1>1, <1>2, <2>1, MainStays DEF StayInv
  <1>3. CASE Observer
    BY <1>1, <1>3, ObserverStays DEF StayInv
  <1>4. CASE UNCHANGED vars
    <2>1. UNCHANGED <<NobodyLeaves, ObserverKnows>>
      BY <1>4 DEF vars, kernel, table, focus, main, observer, NobodyLeaves,
                  ObserverKnows, Members
    <2> QED
      BY <1>1, <1>4, <2>1 DEF StayInv, vars
  <1> QED
    BY <1>2, <1>3, <1>4 DEF Next, MainNext, ObserverNext, PeersNext, Depart, Staying

\* With any number of clients that come, send pictures and ask for the focus
\* for each other, no interleaving lets the observer write to a connection
\* that is not there or use an entry of client[] that is NULL.
THEOREM StayingNeverKilled ==
    ASSUME Staying PROVE Spec => []NeverKilled
  <1>1. Init => StayInv /\ NeverKilled
    BY StayInit DEF Init, NeverKilled
  <1>2. StayInv /\ NeverKilled /\ [Next]_vars => StayInv' /\ NeverKilled'
    BY Staying, StayStep DEF NeverKilled
  <1> QED
    BY <1>1, <1>2, PTL DEF Spec

\* Whoever has the focus once a handover is over is a connected client, for
\* any number of clients and any order of connects, requests and handovers.
THEOREM StayingFocusConnected ==
    ASSUME Staying PROVE Spec => []FocusConnected
  <1>1. StayInv /\ [Next]_vars => StayInv'
    BY Staying, StayStep
  <1>2. StayInv => FocusConnected
    BY DEF StayInv, NobodyLeaves, FocusConnected, Settled, Members
  <1> QED
    BY <1>1, <1>2, StayInit, PTL DEF Spec
=============================================================================
