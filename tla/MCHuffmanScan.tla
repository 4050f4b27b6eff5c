---------------------------- MODULE MCHuffmanScan ----------------------------
(***************************************************************************)
(* Images of four MCUs with two components, of six coefficients a block,   *)
(* over bytes of four bits: codes of up to four bits, zero runs of up to   *)
(* two and runs of up to three blocks.                                     *)
(***************************************************************************)
EXTENDS HuffmanScan

Zigzag(coefs) == [k \in 0..5 |-> coefs[k + 1]]
Plain(v) == Zigzag(<<v, 0, 0, 0, 0, 0>>)
Blocks == {Plain(3), Zigzag(<<-3, 0, 0, 0, 0, -2>>), Zigzag(<<1, -2, 3, -1, 0, 2>>),
           Zigzag(<<-1, 0, -3, 0, 2, 0>>), Zigzag(<<2, 1, 1, -1, 1, 1>>)}
MCU(block, v) == <<block, Plain(v)>>

AllImages ==
    {<<MCU(a, 1), MCU(b, -2), MCU(a, 0), MCU(c, 3)>> : a, b, c \in Blocks}
    \cup {<<MCU(Plain(0), 0), MCU(Zigzag(<<0, 9, 0, 0, 0, 0>>), 0)>>,
          <<MCU(Plain(0), 0), MCU(Plain(-20), 0)>>}

SomeImages ==
    {<<MCU(a, 1), MCU(b, -2), MCU(a, 0), MCU(b, 3)>> :
        a \in {Zigzag(<<-3, 0, 0, 0, 0, -2>>)}, b \in {Zigzag(<<1, -2, 3, -1, 0, 2>>)}}

Sequential(comps) ==
    [progressive |-> FALSE, comps |-> comps, Ss |-> 0, Se |-> 5, Ah |-> 0, Al |-> 0]
Progressive(comps, Ss, Se, Ah, Al) ==
    [progressive |-> TRUE, comps |-> comps, Ss |-> Ss, Se |-> Se, Ah |-> Ah, Al |-> Al]

AllScripts ==
    {<<Sequential(<<1, 2>>)>>,
     <<Progressive(<<1, 2>>, 0, 0, 0, 1), Progressive(<<1>>, 1, 5, 0, 1),
       Progressive(<<1>>, 1, 5, 1, 0), Progressive(<<1, 2>>, 0, 0, 1, 0)>>}

Limits == <<6, 2>>
=============================================================================
