------------------------------- MODULE MCEcho -------------------------------
(***************************************************************************)
(* Instances of Echo for TLC: three runs of clients on two descriptors, so *)
(* that a descriptor is used twice.                                        *)
(***************************************************************************)
EXTENDS Echo

\* One client's message is larger than what the kernel keeps and one's is not.
MCMessage == [c \in Clients |-> IF c = 2 THEN 2 ELSE 1]
MCEchoes == {"projector", "select_server", "select_server_udp"}
MCProjector == {"projector"}
=============================================================================
