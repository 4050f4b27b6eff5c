--------------------------- MODULE MCVirtualArray ---------------------------
(***************************************************************************)
(* Arrays of up to MaxRows rows, accessed one or two rows at a time, with  *)
(* a window of one or two strips.                                          *)
(***************************************************************************)
EXTENDS VirtualArray

CONSTANT MaxRows

AllValues == {"zero", "garbage", "x"}
AllRequests ==
    [kind : {"samples", "blocks"}, numrows : 1..MaxRows, maxaccess : 1..2,
     pre_zero : BOOLEAN]
=============================================================================
