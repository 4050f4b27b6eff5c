-------------------------------- MODULE MCDct --------------------------------
(***************************************************************************)
(* Blocks and tables for TLC: flat blocks, the sign patterns of            *)
(* frequencies (which make their coefficients as large as they get),       *)
(* single samples and scattered ones.                                      *)
(***************************************************************************)
EXTENDS Dct

Swapped(s) == {s, <<s[2], s[1]>>}
Squares == {<<n, n>> : n \in 1..16}
AllSizes == Squares \cup UNION {Swapped(<<2 * n, n>>) : n \in 1..8}

\* The sizes whose row pass has 12 or 14 columns and the others.
WideSizes == {<<12, 12>>, <<12, 6>>, <<14, 14>>, <<14, 7>>}
SoundSizes == AllSizes \ WideSizes

Block(w, h, sample(_, _)) == [y \in Span(h) |-> [x \in Span(w) |-> sample(x, y)]]

Flat(w, h, level) == Block(w, h, LAMBDA x, y : level)
Pattern(w, h, u, v) ==
    Block(w, h, LAMBDA x, y :
        IF Synthesis[w][x][u] * Synthesis[h][y][v] >= 0 THEN 255 ELSE 0)
Dot1(w, h, level) == Block(w, h, LAMBDA x, y : IF x = w - 1 /\ y = 0 THEN level ELSE 128)
Noise(w, h, seed, range) ==
    Block(w, h, LAMBDA x, y :
        128 - range \div 2 + (((x * x * 7 + y * 13 + x * y * 29 + seed * 71) * 97) % range))

Few == {0, 1, 2, 5, 7}
MCPictures(w, h) ==
    {Flat(w, h, level) : level \in {0, 77, 255}}
    \cup {Pattern(w, h, u, v) : u \in Few \cap Kept(w), v \in Few \cap Kept(h)}
    \cup {Dot1(w, h, level) : level \in {0, 255}}
    \cup {Noise(w, h, seed, range) : seed \in 1..2, range \in {60, 255}}

Table(q(_, _)) == [v \in Span(DCTSIZE) |-> [u \in Span(DCTSIZE) |-> q(v, u)]]
MCQuants == {Table(LAMBDA v, u : 1), Table(LAMBDA v, u : 10 + 3 * (u + v))}
=============================================================================
