----------------------------- MODULE MCUserList -----------------------------
(***************************************************************************)
(* Instances of UserList for TLC.  Descriptors are not symmetric: the      *)
(* passes run over them in ascending order.                                *)
(***************************************************************************)
EXTENDS UserList

\* A client has no name first, then one of this length.
MCNames == {2}
MCPictures == {1}

\* focus_fd when there is no host; a host that has left keeps its number.
MCNobody == {-1}
=============================================================================
