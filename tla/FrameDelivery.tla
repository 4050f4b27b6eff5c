--------------------------- MODULE FrameDelivery ---------------------------
(***************************************************************************)
(* What the server promises a client about the frames it sends: a frame    *)
(* with a payload is taken up when its header arrives, and it is handed on *)
(* whole, once, before the next one is taken up.  An image frame becomes   *)
(* the client's picture, a name frame its name, a focus frame the focus    *)
(* request of the client; any other frame is read and dropped.             *)
(***************************************************************************)
EXTENDS Integers

CONSTANTS
    Frame,      \* the frames a client can send: records with a field type
    NoFrame,    \* no frame at all
    RECV_NAME, CHANGE_FOCUS_STATUS, RECV_IMAGE   \* header types

VARIABLES
    cur,        \* the frame being transferred, or NoFrame
    image,      \* the last image frame handed on, or NoFrame
    name,       \* the last name frame handed on, or NoFrame
    request     \* the last focus frame handed on, or NoFrame

vars == <<cur, image, name, request>>

Init ==
    /\ cur = NoFrame
    /\ image = NoFrame
    /\ name = NoFrame
    /\ request = NoFrame

\* The header of a frame with a payload has arrived.
Begin ==
    /\ cur = NoFrame
    /\ cur' \in Frame
    /\ UNCHANGED <<image, name, request>>

\* The last byte of the frame has arrived.
Deliver ==
    /\ cur # NoFrame
    /\ cur' = NoFrame
    /\ image'   = IF cur.type = RECV_IMAGE THEN cur ELSE image
    /\ name'    = IF cur.type = RECV_NAME THEN cur ELSE name
    /\ request' = IF cur.type = CHANGE_FOCUS_STATUS THEN cur ELSE request

Next == Begin \/ Deliver

Spec == Init /\ [][Next]_vars
=============================================================================
