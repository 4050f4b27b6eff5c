------------------------------- MODULE Roster -------------------------------
(***************************************************************************)
(* What main and focusObserver (server/Server.cpp) promise to a thread     *)
(* that only looks at the clients: in which order read_fds, client[] and   *)
(* userCount change.  A client is watched, counted and published, one      *)
(* store after the other, and unwatched, uncounted, freed and cleared;     *)
(* main has one client in hand at a time.  Nothing is promised of when     *)
(* focus_fd changes.  FocusControl implements this, UserList builds on it. *)
(***************************************************************************)
EXTENDS Integers

CONSTANTS
    ServerSocket,   \* the listening descriptor
    FirstFd,        \* the first descriptor accept can return
    MaxClientNum,   \* MAX_CLIENT_NUM
    Strays          \* values focus_fd may have that name no client

Fds == FirstFd..(MaxClientNum - 1)

ASSUME RosterAssumption ==
    /\ ServerSocket \in Nat /\ FirstFd \in Nat /\ MaxClientNum \in Nat
    /\ ServerSocket < FirstFd /\ FirstFd < MaxClientNum
    /\ Strays \subseteq Int

VARIABLES
    read_fds, client, userCount, focus_fd,
    phase,   \* what has been done with the client in hand
    inHand   \* the client main is making or unmaking, 0 if none

roster == <<read_fds, client, userCount, focus_fd, phase, inHand>>

Init ==
    /\ read_fds = {ServerSocket}
    /\ client = [f \in Fds |-> "null"]
    /\ userCount = 0
    /\ focus_fd = 0
    /\ phase = "idle" /\ inHand = 0

\* main goes on from one store to the next one.
Phase(from, to, f) ==
    /\ phase = from
    /\ phase' = to
    /\ inHand' = IF to = "idle" THEN 0 ELSE f
    /\ UNCHANGED focus_fd

Entry(f, state) == client' = [client EXCEPT ![f] = state]

\* A client comes.
Watch(f) ==
    /\ Phase("idle", "watched", f)
    /\ f \notin read_fds /\ client[f] = "null"
    /\ read_fds' = read_fds \cup {f}
    /\ UNCHANGED <<client, userCount>>

Count ==
    /\ Phase("watched", "counted", inHand)
    /\ userCount' = userCount + 1
    /\ UNCHANGED <<read_fds, client>>

Publish ==
    /\ Phase("counted", "idle", inHand)
    /\ Entry(inHand, "live")
    /\ UNCHANGED <<read_fds, userCount>>

\* A client goes.
Unwatch(f) ==
    /\ Phase("idle", "unwatched", f)
    /\ f \in read_fds /\ client[f] = "live"
    /\ read_fds' = read_fds \ {f}
    /\ UNCHANGED <<client, userCount>>

Uncount ==
    /\ Phase("unwatched", "uncounted", inHand)
    /\ userCount' = userCount - 1
    /\ UNCHANGED <<read_fds, client>>

Free ==
    /\ Phase("uncounted", "freed", inHand)
    /\ Entry(inHand, "dangling")
    /\ UNCHANGED <<read_fds, userCount>>

Clear ==
    /\ Phase("freed", "idle", inHand)
    /\ Entry(inHand, "null")
    /\ UNCHANGED <<read_fds, userCount>>

\* Either thread stores to focus_fd.
Refocus ==
    /\ focus_fd' \in ((read_fds \cap Fds) \cup Strays) \ {focus_fd}
    /\ UNCHANGED <<read_fds, client, userCount, phase, inHand>>

Next ==
    \/ \E f \in Fds : Watch(f) \/ Unwatch(f)
    \/ Count \/ Publish
    \/ Uncount \/ Free \/ Clear
    \/ Refocus

Spec == Init /\ [][Next]_roster
=============================================================================
