--------------------------- MODULE MCFocusControl ---------------------------
(***************************************************************************)
(* Instances of FocusControl for TLC: two or three client descriptors.     *)
(* The numbers matter (accept returns the lowest, the scan starts at the   *)
(* lowest), so descriptors are not symmetric.                              *)
(***************************************************************************)
EXTENDS FocusControl

\* Requests name connected clients only.
MCNone == {}

\* A request may also name the listening socket, as a userID (the last part of
\* an IP address) can; that it names no descriptor at all happens anyhow, when
\* the one it names is closed.
MCStrangers == {ServerSocket}
=============================================================================
