----------------------------- MODULE MCReceive -----------------------------
(***************************************************************************)
(* Instances of Receive for TLC.  Type 3 stands for the types receive      *)
(* reads and drops (0, 1, 3, 6..10), type 11 for an invalid one.           *)
(***************************************************************************)
EXTENDS Receive

Types == {RECV_NAME, 3, CHANGE_FOCUS_STATUS, RECV_IMAGE}

\* Payload lengths: none at all, one that fits a chunk with its header, one
\* that fills a chunk, and one that needs several.
MCPayload ==
    [t \in Types |->
        CASE t = RECV_NAME           -> {3}
          [] t = 3                   -> {0, 2}
          [] t = CHANGE_FOCUS_STATUS -> {IntSize}
          [] t = RECV_IMAGE          -> {0, 1, MaxBuf + 2}]

\* A client that also sends an invalid type, and names of two lengths.
MCWildPayload ==
    [t \in Types \cup {11} |->
        CASE t = RECV_NAME           -> {1, 3}
          [] t = 3                   -> {0, 2}
          [] t = CHANGE_FOCUS_STATUS -> {IntSize}
          [] t = RECV_IMAGE          -> {0, MaxBuf}
          [] t = 11                  -> {0}]

\* A client that renames itself, one that only sends requests; both also send
\* frames that are dropped, long enough for any chunk to end in one.
MCRenames == [t \in {RECV_NAME, 3} |-> IF t = 3 THEN {MaxBuf} ELSE {1, 2}]
MCRequests ==
    [t \in {CHANGE_FOCUS_STATUS, 3} |-> IF t = 3 THEN {MaxBuf} ELSE {IntSize}]

MCNoJunk == {}
MCJunk == {RECV_NAME, CHANGE_FOCUS_STATUS, RECV_IMAGE, 11} \X {-3, 0, 3}
=============================================================================
