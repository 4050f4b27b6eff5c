------------------------------ MODULE Quantizer ------------------------------
(***************************************************************************)
(* The one-pass colour quantizer (src/jpeg-9a/jquant1.c).  A colour map is *)
(* the product of a few levels for each component, so a pixel's code is    *)
(* the sum of a part for each component.  With ordered dither the row of   *)
(* the matrix, with Floyd-Steinberg dither the errors that are still owed  *)
(* to the next row and its direction are kept from one call to the next.   *)
(***************************************************************************)
EXTENDS Color, SequencesExt

ODITHER_SIZE == 16
ODITHER_CELLS == ODITHER_SIZE * ODITHER_SIZE

base_dither_matrix ==
    <<<<  0,192, 48,240, 12,204, 60,252,  3,195, 51,243, 15,207, 63,255 >>,
      <<128, 64,176,112,140, 76,188,124,131, 67,179,115,143, 79,191,127 >>,
      << 32,224, 16,208, 44,236, 28,220, 35,227, 19,211, 47,239, 31,223 >>,
      <<160, 96,144, 80,172,108,156, 92,163, 99,147, 83,175,111,159, 95 >>,
      <<  8,200, 56,248,  4,196, 52,244, 11,203, 59,251,  7,199, 55,247 >>,
      <<136, 72,184,120,132, 68,180,116,139, 75,187,123,135, 71,183,119 >>,
      << 40,232, 24,216, 36,228, 20,212, 43,235, 27,219, 39,231, 23,215 >>,
      <<168,104,152, 88,164,100,148, 84,171,107,155, 91,167,103,151, 87 >>,
      <<  2,194, 50,242, 14,206, 62,254,  1,193, 49,241, 13,205, 61,253 >>,
      <<130, 66,178,114,142, 78,190,126,129, 65,177,113,141, 77,189,125 >>,
      << 34,226, 18,210, 46,238, 30,222, 33,225, 17,209, 45,237, 29,221 >>,
      <<162, 98,146, 82,174,110,158, 94,161, 97,145, 81,173,109,157, 93 >>,
      << 10,202, 58,250,  6,198, 54,246,  9,201, 57,249,  5,197, 53,245 >>,
      <<138, 74,186,122,134, 70,182,118,137, 73,185,121,133, 69,181,117 >>,
      << 42,234, 26,218, 38,230, 22,214, 41,233, 25,217, 37,229, 21,213 >>,
      <<170,106,154, 90,166,102,150, 86,169,105,153, 89,165,101,149, 85 >>>>

UpTo(n) == [i \in 1..n |-> i]
Product(counts) == FoldLeft(LAMBDA a, b : a * b, 1, counts)

-----------------------------------------------------------------------------
(* The colour map. *)

\* A turn gives the components one more level each, for as long as the colours
\* suffice; it ends at the first component that cannot have one.
OneTurn(Ncolors, order, max_colors) ==
    LET Increment(s, j) ==
            LET more == [s.Ncolors EXCEPT ![j] = @ + 1]
                fits == s.going /\ Product(more) <= max_colors
            IN  [Ncolors |-> IF fits THEN more ELSE s.Ncolors, going |-> fits]
    IN  FoldLeft(Increment, [Ncolors |-> Ncolors, going |-> TRUE], order).Ncolors

\* With fewer than two levels for each, or codes that are no samples, there is no map.
BadColors(nc, max_colors) == 2^nc > max_colors \/ max_colors > MAXJSAMPLE + 1

select_ncolors(nc, space, max_colors) ==
    LET iroot == CHOOSE n \in 2..max_colors : n^nc <= max_colors /\ (n + 1)^nc > max_colors
        order == IF space = "RGB" THEN <<2, 1, 3>> ELSE UpTo(nc)
        Increased[Ncolors \in Seq(Nat)] ==
            LET more == OneTurn(Ncolors, order, max_colors)
            IN  IF more = Ncolors THEN Ncolors ELSE Increased[more]
    IN  Increased[[i \in 1..nc |-> iroot]]

\* The level with number j of maxj + 1, and the last sample that it stands for.
output_value(j, maxj) == (j * MAXJSAMPLE + maxj \div 2) \div maxj
largest_input_value(j, maxj) == ((2 * j + 1) * MAXJSAMPLE + maxj) \div (2 * maxj)

jinit_1pass_quantizer(nc, space, max_colors, dither_mode) ==
    [Ncolors |-> IF BadColors(nc, max_colors) THEN <<>>
                 ELSE select_ncolors(nc, space, max_colors),
     dither_mode |-> dither_mode]

\* How many codes in a row have the same level of component ci.
Blksize(z, ci) == Product([n \in 1..(Len(z.Ncolors) - ci) |-> z.Ncolors[ci + n]])

sv_colormap(z, ci, code) ==
    output_value((code \div Blksize(z, ci)) % z.Ncolors[ci], z.Ncolors[ci] - 1)

\* The table is padded for samples out of range with ordered dither only.
colorindex(z, ci, v) ==
    LET nci == z.Ncolors[ci]
        pad == IF z.dither_mode = "ordered" THEN MAXJSAMPLE ELSE 0
        level == CHOOSE j \in 0..(nci - 1) :
                    /\ v <= largest_input_value(j, nci - 1) \/ j = nci - 1
                    /\ \A i \in 0..(j - 1) : v > largest_input_value(i, nci - 1)
    IN  IF v \in -pad .. MAXJSAMPLE + pad THEN level * Blksize(z, ci) ELSE Beyond

\* The matrix scaled to the distance of two levels, rounded towards zero.
make_odither_array(ncolors, j, k) ==
    LET num == (ODITHER_CELLS - 1 - 2 * base_dither_matrix[j + 1][k + 1]) * MAXJSAMPLE
        den == 2 * ODITHER_CELLS * (ncolors - 1)
    IN  IF num < 0 THEN -((-num) \div den) ELSE num \div den

-----------------------------------------------------------------------------
(* Rows.  Each gives the code of every pixel and the state for the next. *)

start_pass_1_quant(z, width) ==
    [row_index |-> 0, on_odd_row |-> FALSE,
     fserrors |-> [ci \in DOMAIN z.Ncolors |-> [p \in 0..(width + 1) |-> 0]]]

\* The parts of the code of one pixel added up.
Pixcode(z, parts) == Sample(FoldLeft(LAMBDA sum, ci : sum + parts[ci], 0,
                                     UpTo(Len(z.Ncolors))))

color_quantize(z, q, row) ==
    [codes |-> [x \in DOMAIN row |->
                  Pixcode(z, [ci \in DOMAIN z.Ncolors |-> colorindex(z, ci, row[x][ci])])],
     q |-> q]

quantize_ord_dither(z, q, row) ==
    LET Dither(ci, x) ==
            make_odither_array(z.Ncolors[ci], q.row_index, x % ODITHER_SIZE)
    IN  [codes |-> [x \in DOMAIN row |->
                      Pixcode(z, [ci \in DOMAIN z.Ncolors |->
                                     colorindex(z, ci, row[x][ci] + Dither(ci, x))])],
         q |-> [q EXCEPT !.row_index = (@ + 1) % ODITHER_SIZE]]

\* One component of a row.  The errors left of the pixel under way belong to the
\* next row already (errorptr is at the pixel before it), cur goes to the pixel,
\* bpreverr and belowerr below the one before and below the pixel.
FsComponent(z, q, row, ci) ==
    LET width == Cardinality(DOMAIN row)
        dir == IF q.on_odd_row THEN -1 ELSE 1
        first == IF q.on_odd_row THEN width + 1 ELSE 0
        Step(s, n) ==
            LET errorptr == first + (n - 1) * dir
                x == errorptr + dir - 1
                cur == (s.cur + s.fserrors[errorptr + dir] + 8) \div 16
                value == sample_range_limit(cur + row[x][ci])
                pixcode == colorindex(z, ci, value)
                error == value - sv_colormap(z, ci, pixcode)
            IN  [cur |-> 7 * error,
                 bpreverr |-> s.belowerr + 5 * error,
                 belowerr |-> error,
                 fserrors |-> [s.fserrors EXCEPT ![errorptr] = s.bpreverr + 3 * error],
                 parts |-> [s.parts EXCEPT ![x] = pixcode]]
        end == FoldLeft(Step, [cur |-> 0, bpreverr |-> 0, belowerr |-> 0,
                               fserrors |-> q.fserrors[ci],
                               parts |-> [x \in DOMAIN row |-> 0]], UpTo(width))
    IN  [parts |-> end.parts,
         fserrors |-> [end.fserrors EXCEPT ![first + width * dir] = end.bpreverr]]

quantize_fs_dither(z, q, row) ==
    LET done == [ci \in DOMAIN z.Ncolors |-> FsComponent(z, q, row, ci)]
    IN  [codes |-> [x \in DOMAIN row |->
                      Pixcode(z, [ci \in DOMAIN z.Ncolors |-> done[ci].parts[x]])],
         q |-> [q EXCEPT !.on_odd_row = ~@,
                         !.fserrors = [ci \in DOMAIN z.Ncolors |-> done[ci].fserrors]]]

QuantizeRow(z, q, row) ==
    CASE z.dither_mode = "none" -> color_quantize(z, q, row)
      [] z.dither_mode = "ordered" -> quantize_ord_dither(z, q, row)
      [] z.dither_mode = "fs" -> quantize_fs_dither(z, q, row)

\* The rows of one call, each quantized in the state the one before it left.
QuantizeRows(z, q, rows) ==
    LET done[n \in 0..Len(rows)] ==
            IF n = 0 THEN [codes |-> <<>>, q |-> q]
            ELSE QuantizeRow(z, done[n - 1].q, rows[n])
    IN  [rows |-> [n \in DOMAIN rows |-> done[n].codes], q |-> done[Len(rows)].q]
=============================================================================
