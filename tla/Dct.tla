--------------------------------- MODULE Dct --------------------------------
(***************************************************************************)
(* A block of one component on its way through jpeg-9a: jcdctmgr.c takes   *)
(* it with a routine of jfdctint.c from samples to frequencies and         *)
(* quantizes them, jddctmgr.c and a routine of jidctint.c bring it back.   *)
(* The output is then compressed again, as a program does that edits and   *)
(* saves a picture.  A step is one pass over the block.                    *)
(*                                                                         *)
(* A block is a function of row and column, of samples (0..255) or of      *)
(* frequencies (0..7).  The routines of size w x h hand on w columns and   *)
(* h rows of samples for every block of 8 x 8 coefficients.                *)
(***************************************************************************)
EXTENDS DctKernels, SampleArithmetic

CONSTANTS
    Sizes,                  \* <<w, h>> of a component: DCT_h_scaled_size, _v_
    Quants,                 \* quantization tables, as functions of v and u
    Pictures(_, _),         \* the blocks of samples of width w and height h
    Generations             \* bound of the model: times a block is compressed

ASSUME GenerationsAssumption == Generations \in Nat \ {0}

VARIABLES
    size, quant,
    pc, generation,
    samples, output,        \* what is compressed, and what comes out
    data,                   \* the workspace of a routine
    coefs                   \* the block of quantized coefficients

vars == <<size, quant, pc, generation, samples, output, data, coefs>>

DCTSIZE == 8

Span(n) == 0..(n - 1)
Kept(n) == Span(IF n < DCTSIZE THEN n ELSE DCTSIZE)
Width == size[1]
Height == size[2]

----------------------------------------------------------------------------
\* The sum of f[i] * g[i] over 0..n - 1.
Dot(f, g, n) ==
    LET sum[i \in 0..n] ==
            IF i = 0 THEN 0 ELSE sum[i - 1] + f[i - 1] * g[i - 1]
    IN  sum[n]

Sign(k) == IF k % 2 = 0 THEN 1 ELSE -1

\* The weights of frequency k in sample x of N, from the half tables.
Weight(table, N, x, k) ==
    IF 2 * x < N THEN table[N][x + 1][k + 1]
                 ELSE Sign(k) * table[N][N - x][k + 1]

Synthesis ==
    [N \in 1..16 |-> [x \in Span(N) |->
        [k \in Kept(N) |-> Weight(Inverse, N, x, k)]]]
Analysis(table) ==
    [N \in 1..16 |-> [k \in Kept(N) |-> [x \in Span(N) |-> Weight(table, N, x, k)]]]
RowAnalysis == Analysis(Rows)
ColumnAnalysis == Analysis(Columns)

Halved(N, f) == IF N = 15 THEN (f[1] + f[4] + f[10] + f[13]) \div 2 ELSE 0
HalfWeight(half, N, k) == IF N = 15 THEN half[k + 1] ELSE 0

\* One-dimensional transform of N samples to frequency k.
RowForm(N, k, f) ==
    Dot(RowAnalysis[N][k], f, N) + HalfWeight(RowsHalf15, N, k) * Halved(N, f)
ColumnForm(N, k, f) ==
    Dot(ColumnAnalysis[N][k], f, N) + HalfWeight(ColumnsHalf15, N, k) * Halved(N, f)

\* What a function pointer of jcdctmgr.c or jddctmgr.c tells of its routine: its
\* size, a factor before the first pass and the shifts after the two passes.
Routine(w, h, gain, shift1, shift2) ==
    [size |-> <<w, h>>, gain |-> gain, unit1 |-> 2^shift1, unit2 |-> 2^shift2]

jpeg_fdct_islow == Routine(8, 8, 1, 11, 15)
jpeg_fdct_7x7 == Routine(7, 7, 1, 11, 15)
jpeg_fdct_6x6 == Routine(6, 6, 1, 11, 15)
jpeg_fdct_5x5 == Routine(5, 5, 1, 10, 15)
jpeg_fdct_4x4 == Routine(4, 4, 1, 9, 15)
jpeg_fdct_3x3 == Routine(3, 3, 1, 9, 15)
jpeg_fdct_2x2 == Routine(2, 2, 16, 0, 0)
jpeg_fdct_1x1 == Routine(1, 1, 64, 0, 0)
jpeg_fdct_9x9 == Routine(9, 9, 1, 12, 15)
jpeg_fdct_10x10 == Routine(10, 10, 1, 12, 15)
jpeg_fdct_11x11 == Routine(11, 11, 1, 12, 15)
jpeg_fdct_12x12 == Routine(12, 12, 1, 13, 14)
jpeg_fdct_13x13 == Routine(13, 13, 1, 13, 14)
jpeg_fdct_14x14 == Routine(14, 14, 1, 13, 14)
jpeg_fdct_15x15 == Routine(15, 15, 1, 13, 15)
jpeg_fdct_16x16 == Routine(16, 16, 1, 11, 17)
jpeg_fdct_16x8 == Routine(16, 8, 1, 11, 16)
jpeg_fdct_14x7 == Routine(14, 7, 1, 11, 16)
jpeg_fdct_12x6 == Routine(12, 6, 1, 11, 16)
jpeg_fdct_10x5 == Routine(10, 5, 1, 11, 15)
jpeg_fdct_8x4 == Routine(8, 4, 1, 10, 15)
jpeg_fdct_6x3 == Routine(6, 3, 1, 10, 15)

\* Faulty: the column pass leaves another factor than 8.
jpeg_fdct_4x2_Shift == Routine(4, 2, 1, 8, 1)

jpeg_fdct_4x2 == Routine(4, 2, 1, 8, 2)
jpeg_fdct_2x1 == Routine(2, 1, 32, 0, 0)
jpeg_fdct_8x16 == Routine(8, 16, 1, 11, 16)
jpeg_fdct_7x14 == Routine(7, 14, 1, 11, 15)
jpeg_fdct_6x12 == Routine(6, 12, 1, 11, 15)
jpeg_fdct_5x10 == Routine(5, 10, 1, 11, 15)
jpeg_fdct_4x8 == Routine(4, 8, 1, 10, 15)
jpeg_fdct_3x6 == Routine(3, 6, 1, 10, 15)
jpeg_fdct_2x4 == Routine(2, 4, 8, 0, 13)
jpeg_fdct_1x2 == Routine(1, 2, 32, 0, 0)

FdctRoutines == {
    jpeg_fdct_islow, jpeg_fdct_7x7, jpeg_fdct_6x6, jpeg_fdct_5x5,
    jpeg_fdct_4x4, jpeg_fdct_3x3, jpeg_fdct_2x2, jpeg_fdct_1x1, jpeg_fdct_9x9,
    jpeg_fdct_10x10, jpeg_fdct_11x11, jpeg_fdct_12x12, jpeg_fdct_13x13,
    jpeg_fdct_14x14, jpeg_fdct_15x15, jpeg_fdct_16x16, jpeg_fdct_16x8,
    jpeg_fdct_14x7, jpeg_fdct_12x6, jpeg_fdct_10x5, jpeg_fdct_8x4,
    jpeg_fdct_6x3, jpeg_fdct_4x2, jpeg_fdct_2x1, jpeg_fdct_8x16,
    jpeg_fdct_7x14, jpeg_fdct_6x12, jpeg_fdct_5x10, jpeg_fdct_4x8,
    jpeg_fdct_3x6, jpeg_fdct_2x4, jpeg_fdct_1x2}

jpeg_idct_islow == Routine(8, 8, 1, 11, 18)
jpeg_idct_7x7 == Routine(7, 7, 1, 11, 18)
jpeg_idct_6x6 == Routine(6, 6, 1, 11, 18)
jpeg_idct_5x5 == Routine(5, 5, 1, 11, 18)
jpeg_idct_4x4 == Routine(4, 4, 1, 11, 18)
jpeg_idct_3x3 == Routine(3, 3, 1, 11, 18)
jpeg_idct_2x2 == Routine(2, 2, 1, 0, 3)
jpeg_idct_1x1 == Routine(1, 1, 1, 0, 3)
jpeg_idct_9x9 == Routine(9, 9, 1, 11, 18)
jpeg_idct_10x10 == Routine(10, 10, 1, 11, 18)
jpeg_idct_11x11 == Routine(11, 11, 1, 11, 18)
jpeg_idct_12x12 == Routine(12, 12, 1, 11, 18)
jpeg_idct_13x13 == Routine(13, 13, 1, 11, 18)
jpeg_idct_14x14 == Routine(14, 14, 1, 11, 18)
jpeg_idct_15x15 == Routine(15, 15, 1, 11, 18)
jpeg_idct_16x16 == Routine(16, 16, 1, 11, 18)
jpeg_idct_16x8 == Routine(16, 8, 1, 11, 18)
jpeg_idct_14x7 == Routine(14, 7, 1, 11, 18)
jpeg_idct_12x6 == Routine(12, 6, 1, 11, 18)
jpeg_idct_10x5 == Routine(10, 5, 1, 11, 18)
jpeg_idct_8x4 == Routine(8, 4, 1, 11, 18)
jpeg_idct_6x3 == Routine(6, 3, 1, 11, 18)
jpeg_idct_4x2 == Routine(4, 2, 1, 0, 16)
jpeg_idct_2x1 == Routine(2, 1, 1, 0, 3)

jpeg_idct_8x16 == Routine(8, 16, 1, 11, 18)
jpeg_idct_7x14 == Routine(7, 14, 1, 11, 18)
jpeg_idct_6x12 == Routine(6, 12, 1, 11, 18)
jpeg_idct_5x10 == Routine(5, 10, 1, 11, 18)
jpeg_idct_4x8 == Routine(4, 8, 1, 11, 18)
jpeg_idct_3x6 == Routine(3, 6, 1, 11, 18)
jpeg_idct_2x4 == Routine(2, 4, 1, 0, 16)
jpeg_idct_1x2 == Routine(1, 2, 1, 0, 3)

IdctRoutines == {
    jpeg_idct_islow, jpeg_idct_7x7, jpeg_idct_6x6, jpeg_idct_5x5,
    jpeg_idct_4x4, jpeg_idct_3x3, jpeg_idct_2x2, jpeg_idct_1x1, jpeg_idct_9x9,
    jpeg_idct_10x10, jpeg_idct_11x11, jpeg_idct_12x12, jpeg_idct_13x13,
    jpeg_idct_14x14, jpeg_idct_15x15, jpeg_idct_16x16, jpeg_idct_16x8,
    jpeg_idct_14x7, jpeg_idct_12x6, jpeg_idct_10x5, jpeg_idct_8x4,
    jpeg_idct_6x3, jpeg_idct_4x2, jpeg_idct_2x1, jpeg_idct_8x16,
    jpeg_idct_7x14, jpeg_idct_6x12, jpeg_idct_5x10, jpeg_idct_4x8,
    jpeg_idct_3x6, jpeg_idct_2x4, jpeg_idct_1x2}

\* start_pass selects the routine for the scaled size; there is no other size:
\* JERR_BAD_DCTSIZE.  (At 8 x 8 there are two more methods, not modelled.)
do_dct(s) == CHOOSE r \in FdctRoutines : r.size = s
inverse_DCT(s) == CHOOSE r \in IdctRoutines : r.size = s

----------------------------------------------------------------------------
\* The forward transform: rows, columns, and the quantization in forward_DCT.

Centered(block) ==
    [y \in Span(Height) |-> [x \in Span(Width) |-> block[y][x] - CENTERJSAMPLE]]

ForwardRows(r, block) ==
    [y \in Span(Height) |-> [u \in Kept(Width) |->
        Descale(r.gain * RowForm(Width, u, block[y]), r.unit1)]]

ForwardColumns(r, d) ==
    [v \in Kept(Height) |-> [u \in Kept(Width) |->
        Descale(ColumnForm(Height, v, [y \in Span(Height) |-> d[y][u]]), r.unit2)]]

\* Faulty: the factor that the transforms leave is forgotten.
Divisor_Unscaled(q, v, u) == q[v][u]

\* The divisors are the table times 8: the transforms leave that factor.
Divisor(q, v, u) == q[v][u] * 8

\* What the routine does not compute it has set to zero.
Quantized(d, q) ==
    [v \in Span(DCTSIZE) |-> [u \in Span(DCTSIZE) |->
        IF v \in Kept(Height) /\ u \in Kept(Width)
        THEN Quantize(d[v][u], Divisor(q, v, u)) ELSE 0]]

----------------------------------------------------------------------------
\* The inverse transform: columns, rows, and the range limit table.

Dequantized(c, q) ==
    [v \in Span(DCTSIZE) |-> [u \in Span(DCTSIZE) |-> c[v][u] * q[v][u]]]

ZeroAC(f) == \A k \in DOMAIN f \ {0} : f[k] = 0

\* Three routines take a column without AC terms the short way.
ColumnShortcuts == {jpeg_idct_islow, jpeg_idct_16x8, jpeg_idct_4x8}
RowShortcuts == {jpeg_idct_islow}

\* With 4 samples only the odd part is shifted, and half of the outputs subtract
\* it: these round the other way.
ColumnRounding(r, y) ==
    IF r.size[2] = 4 /\ y >= 2 /\ r.unit1 > 1 THEN -1 ELSE 0

InverseColumn(r, f) ==
    LET N == r.size[2] IN
    [y \in Span(N) |->
        IF r \in ColumnShortcuts /\ ZeroAC(f) THEN f[0] * 4
        ELSE Descale(Dot(Synthesis[N][y], f, IF N < DCTSIZE THEN N ELSE DCTSIZE)
                        + ColumnRounding(r, y), r.unit1)]

InverseRow(r, f) ==
    LET N == r.size[1] IN
    [x \in Span(N) |->
        IF r \in RowShortcuts /\ ZeroAC(f) THEN Descale(f[0], 32)
        ELSE Descale(Dot(Synthesis[N][x], f, IF N < DCTSIZE THEN N ELSE DCTSIZE),
                     r.unit2)]

InverseColumns(r, c) ==
    LET columns == [u \in Kept(r.size[1]) |->
            InverseColumn(r, [v \in Kept(r.size[2]) |-> c[v][u]])]
    IN  [y \in Span(r.size[2]) |-> [u \in Kept(r.size[1]) |-> columns[u][y]]]

InverseRows(r, d) == [y \in Span(r.size[2]) |-> InverseRow(r, d[y])]

Limited(d) == [y \in DOMAIN d |-> [x \in DOMAIN d[y] |-> RangeLimit(d[y][x])]]

----------------------------------------------------------------------------
\* The passes.

Init ==
    /\ size \in Sizes /\ quant \in Quants
    /\ samples \in Pictures(Width, Height)
    /\ pc = "forward_rows" /\ generation = 1
    /\ data = <<>> /\ coefs = <<>> /\ output = <<>>

Pass(from, to) ==
    /\ pc = from
    /\ pc' = to
    /\ UNCHANGED <<size, quant>>

ForwardRowPass ==
    /\ Pass("forward_rows", "forward_columns")
    /\ data' = ForwardRows(do_dct(size), Centered(samples))
    /\ UNCHANGED <<samples, output, coefs, generation>>

ForwardColumnPass ==
    /\ Pass("forward_columns", "quantize")
    /\ data' = ForwardColumns(do_dct(size), data)
    /\ UNCHANGED <<samples, output, coefs, generation>>

QuantizePass ==
    /\ Pass("quantize", "inverse_columns")
    /\ coefs' = Quantized(data, quant)
    /\ UNCHANGED <<samples, output, data, generation>>

InverseColumnPass ==
    /\ Pass("inverse_columns", "inverse_rows")
    /\ data' = InverseColumns(inverse_DCT(size), Dequantized(coefs, quant))
    /\ UNCHANGED <<samples, output, coefs, generation>>

InverseRowPass ==
    /\ Pass("inverse_rows", "limit")
    /\ data' = InverseRows(inverse_DCT(size), data)
    /\ UNCHANGED <<samples, output, coefs, generation>>

LimitPass ==
    /\ Pass("limit", "decoded")
    /\ output' = Limited(data)
    /\ UNCHANGED <<samples, data, coefs, generation>>

Recompress ==
    /\ generation < Generations
    /\ Pass("decoded", "forward_rows")
    /\ generation' = generation + 1
    /\ samples' = output
    /\ UNCHANGED <<output, data, coefs>>

Next ==
    \/ ForwardRowPass \/ ForwardColumnPass \/ QuantizePass
    \/ InverseColumnPass \/ InverseRowPass \/ LimitPass
    \/ Recompress

Spec == Init /\ [][Next]_vars

----------------------------------------------------------------------------
\* Properties.

Abs(n) == IF n < 0 THEN -n ELSE n
Near(f, g, tolerance) ==
    \A i \in DOMAIN f : \A j \in DOMAIN f[i] : Abs(f[i][j] - g[i][j]) <= tolerance

\* Every routine leaves frequencies an encoder of 8-bit samples can code: a DC
\* difference has at most 11 bits, an AC coefficient at most 10 (jchuff.c, 78-82,
\* raises JERR_BAD_DCT_COEF otherwise), and none needs more than the 16 bits of a
\* JCOEF.  The state has the type of the arrays of C.
DctTypeOK ==
    /\ size \in Sizes /\ quant \in Quants /\ generation \in 1..Generations
    /\ \A y \in DOMAIN output : \A x \in DOMAIN output[y] : output[y][x] \in 0..MAXJSAMPLE
    /\ \A v, u \in DOMAIN coefs :
          IF v = 0 /\ u = 0 THEN coefs[v][u] \in -1024..1023
                          ELSE coefs[v][u] \in -1023..1023

\* "Note results are scaled up by sqrt(8) compared to a true DCT.  cK represents
\* sqrt(2) * cos(K*pi/2N)": the comment before the row pass of every routine of
\* jfdctint.c.  The inverse routine has the same cK.
Pass1IsDct ==
    pc = "forward_columns" =>
        LET r == do_dct(size)
            block == Centered(samples)
        IN  Near(data,
                 [y \in Span(Height) |-> [u \in Kept(Width) |->
                     Descale(r.gain * Dot([x \in Span(Width) |->
                                 Weight(Inverse, Width, x, u)], block[y], Width),
                             r.unit1)]], 1)

\* With all quantizers 1 a block of at most 8 x 8 samples comes back as it was, up
\* to one level: the two transforms undo each other at every size.
RoundTrip ==
    (pc = "decoded" /\ Width <= DCTSIZE /\ Height <= DCTSIZE
        /\ \A v, u \in Span(DCTSIZE) : quant[v][u] = 1)
    => Near(output, samples, 1)

Unclipped ==
    \A y \in DOMAIN samples : \A x \in DOMAIN samples[y] :
        samples[y][x] \in 1..(MAXJSAMPLE - 1)

\* A picture that is decompressed and compressed again with the same table loses
\* nothing: where no sample was cut off, the coefficients are those it was made of.
Recoded ==
    [][(pc = "quantize" /\ generation > 1 /\ Unclipped
            /\ \A v, u \in Span(DCTSIZE) : quant[v][u] >= 10)
        => coefs' = coefs]_vars

Mirrored(c) == [v \in DOMAIN c |-> [u \in DOMAIN c[v] |-> Sign(u) * c[v][u]]]
Flipped(c) == [v \in DOMAIN c |-> [u \in DOMAIN c[v] |-> Sign(v) * c[v][u]]]
Transposed(c) == [v \in DOMAIN c |-> [u \in DOMAIN c |-> c[u][v]]]
Decoded(s, c) ==
    LET r == inverse_DCT(s) IN
    InverseRows(r, InverseColumns(r, Dequantized(c, quant)))

FlipsDecode ==
    LET mirror == Decoded(size, Mirrored(coefs))
        flip == Decoded(size, Flipped(coefs))
    IN  \A y \in Span(Height), x \in Span(Width) :
            /\ Abs(mirror[y][x] - data[y][Width - 1 - x]) <= 1
            /\ Abs(flip[y][x] - data[Height - 1 - y][x])
                    <= (IF Height = 4 THEN 1 ELSE 0)

TransposeNear ==
    LET t == Decoded(<<Height, Width>>, Transposed(coefs)) IN
    \A y \in Span(Height), x \in Span(Width) : Abs(t[x][y] - data[y][x]) <= 1

\* What transupp.c builds on: to change the signs of the odd rows of coefficients
\* turns the decoded samples upside down, exactly (only where 4 rows are decoded a
\* tie may round the other way); to change those of the odd columns mirrors them,
\* up to the ties of the column pass; and a transposed block decodes to the
\* transposed samples up to the rounding between the passes, also at the two sizes
\* that swap their sides.
TurnedBlocksDecode == pc = "decoded" => FlipsDecode /\ TransposeNear
=============================================================================
