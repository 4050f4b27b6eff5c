------------------------------- MODULE Sampling -------------------------------
(***************************************************************************)
(* Downsampling and upsampling of one component (src/jpeg-9a/jcsample.c,   *)
(* jdsample.c) and the merged upsampling of three (jdmerge.c).  A row is a *)
(* function from columns to samples and a row group a function from row    *)
(* numbers to rows; with smoothing the group also has the rows -1 and      *)
(* maxv, its context.                                                      *)
(*                                                                         *)
(* A component is a record: hg and vg are the columns and rows its row     *)
(* group has for maxh columns and maxv rows of the image, and cols the     *)
(* columns its blocks have.                                                *)
(***************************************************************************)
EXTENDS Color, FiniteSets, FiniteSetsExt

Span(n) == 0..(n - 1)
Ceiling(a, b) == (a + b - 1) \div b
Smaller(a, b) == IF a <= b THEN a ELSE b

-----------------------------------------------------------------------------
(* Compression. *)

expand_right_edge(row, width, cols) ==
    [x \in Span(cols) |-> row[Smaller(x, width - 1)]]

Expanded(group, width, cols) ==
    [y \in DOMAIN group |-> expand_right_edge(group[y], width, cols)]

int_downsample(group, width, comp, he, ve, maxv) ==
    LET e == Expanded(group, width, comp.cols * he)
        n == he * ve
        Box(y, x) ==
            MapThenSumSet(LAMBDA at : e[y * ve + at[1]][x * he + at[2]], Span(ve) \X Span(he))
    IN  [y \in Span(maxv \div ve) |-> [x \in Span(comp.cols) |->
            Sample((Box(y, x) + n \div 2) \div n)]]

fullsize_downsample(group, width, comp, maxv) ==
    [y \in Span(maxv) |-> expand_right_edge(group[y], width, comp.cols)]

\* The rounding alternates from column to column.
h2v1_downsample(group, width, comp, maxv) ==
    LET e == Expanded(group, width, comp.cols * 2)
    IN  [y \in Span(maxv) |-> [x \in Span(comp.cols) |->
            Sample((e[y][2 * x] + e[y][2 * x + 1] + (x % 2)) \div 2)]]

h2v2_downsample(group, width, comp, maxv) ==
    LET e == Expanded(group, width, comp.cols * 2)
    IN  [y \in Span(maxv \div 2) |-> [x \in Span(comp.cols) |->
            Sample((e[2 * y][2 * x] + e[2 * y][2 * x + 1]
                    + e[2 * y + 1][2 * x] + e[2 * y + 1][2 * x + 1]
                    + 1 + (x % 2)) \div 4)]]

\* The columns beside a pair: the pair's own ones at the edges.
LeftOf(x) == IF x = 0 THEN 0 ELSE 2 * x - 1
RightOf(x, cols) == IF x = cols - 1 THEN 2 * x + 1 ELSE 2 * x + 2

h2v2_smooth_downsample(group, width, comp, maxv, smoothing) ==
    LET e == Expanded(group, width, comp.cols * 2)
        Pair(y, a, b) == e[y][a] + e[y][b]
        Members(y, x) == Pair(y, x, x + 1) + Pair(y + 1, x, x + 1)
        Corners(y, l, r) == Pair(y - 1, l, r) + Pair(y + 2, l, r)
        Edges(y, x, l, r) ==
            Corners(y, x, x + 1) + Pair(y, l, r) + Pair(y + 1, l, r)
        Smoothed(y, x, l, r) ==
            Members(y, x) * (16384 - smoothing * 80)
            + (2 * Edges(y, x, l, r) + Corners(y, l, r)) * (smoothing * 16)
    IN  [y \in Span(maxv \div 2) |-> [x \in Span(comp.cols) |->
            Sample((Smoothed(2 * y, 2 * x, LeftOf(x), RightOf(x, comp.cols)) + 32768)
                      \div SCALE)]]

fullsize_smooth_downsample(group, width, comp, maxv, smoothing) ==
    LET e == Expanded(group, width, comp.cols)
        ColSum(y, x) == e[y - 1][x] + e[y][x] + e[y + 1][x]
        last == comp.cols - 1
        Neighbours(y, x) ==
            ColSum(y, IF x = 0 THEN 0 ELSE x - 1) + (ColSum(y, x) - e[y][x])
                + ColSum(y, Smaller(x + 1, last))
    IN  [y \in Span(maxv) |-> [x \in Span(comp.cols) |->
            Sample((e[y][x] * (65536 - smoothing * 512)
                    + Neighbours(y, x) * (smoothing * 64) + 32768) \div SCALE)]]

\* The method for a component, "error" where the factors do not divide.
jinit_downsampler(comp, maxh, maxv, smoothing) ==
    CASE maxh = comp.hg /\ maxv = comp.vg ->
            IF smoothing # 0 THEN "fullsize_smooth" ELSE "fullsize"
      [] maxh = 2 * comp.hg /\ maxv = comp.vg -> "h2v1"
      [] maxh = 2 * comp.hg /\ maxv = 2 * comp.vg ->
            IF smoothing # 0 THEN "h2v2_smooth" ELSE "h2v2"
      [] OTHER -> IF maxh % comp.hg = 0 /\ maxv % comp.vg = 0 THEN "int" ELSE "error"

NeedsContext(method) == method \in {"fullsize_smooth", "h2v2_smooth"}

downsample(group, comp, s) ==
    CASE comp.down = "fullsize" -> fullsize_downsample(group, s.width, comp, s.maxv)
      [] comp.down = "h2v1" -> h2v1_downsample(group, s.width, comp, s.maxv)
      [] comp.down = "h2v2" -> h2v2_downsample(group, s.width, comp, s.maxv)
      [] comp.down = "int" ->
            int_downsample(group, s.width, comp, s.maxh \div comp.hg,
                           s.maxv \div comp.vg, s.maxv)
      [] comp.down = "h2v2_smooth" ->
            h2v2_smooth_downsample(group, s.width, comp, s.maxv, s.smoothing)
      [] comp.down = "fullsize_smooth" ->
            fullsize_smooth_downsample(group, s.width, comp, s.maxv, s.smoothing)

-----------------------------------------------------------------------------
(* Decompression: the rows an input row group becomes. *)

int_upsample(rows, width, he, ve, maxv) ==
    [y \in Span(maxv) |-> [x \in Span(width) |-> rows[y \div ve][x \div he]]]

h2v1_upsample(rows, width, maxv) ==
    [y \in Span(maxv) |-> [x \in Span(width) |-> rows[y][x \div 2]]]

h2v2_upsample(rows, width, maxv) ==
    [y \in Span(maxv) |-> [x \in Span(width) |-> rows[y \div 2][x \div 2]]]

jinit_upsampler(comp, maxh, maxv, needed) ==
    CASE ~needed -> "noop"
      [] needed /\ comp.hg = maxh /\ comp.vg = maxv -> "fullsize"
      [] needed /\ comp.hg * 2 = maxh /\ comp.vg = maxv -> "h2v1"
      [] needed /\ comp.hg * 2 = maxh /\ comp.vg * 2 = maxv -> "h2v2"
      [] OTHER -> IF maxh % comp.hg = 0 /\ maxv % comp.vg = 0 THEN "int" ELSE "error"

upsample1(rows, comp, s) ==
    CASE comp.up = "h2v1" -> h2v1_upsample(rows, s.width, s.maxv)
      [] comp.up = "h2v2" -> h2v2_upsample(rows, s.width, s.maxv)
      [] comp.up = "int" ->
            int_upsample(rows, s.width, s.maxh \div comp.hg, s.maxv \div comp.vg, s.maxv)

-----------------------------------------------------------------------------
(* Merged upsampling: the chroma part once for two or four pixels. *)

\* jdmerge.c fills the same table as jdcolor.c.
merged_ycc_rgb_table == build_ycc_rgb_table

MergedPixel(y, cb, cr) ==
    LET cred == merged_ycc_rgb_table.Cr_r[cr]
        cgreen == (merged_ycc_rgb_table.Cb_g[cb] + merged_ycc_rgb_table.Cr_g[cr]) \div SCALE
        cblue == merged_ycc_rgb_table.Cb_b[cb]
    IN  <<sample_range_limit(y + cred), sample_range_limit(y + cgreen),
          sample_range_limit(y + cblue)>>

\* The pairs of columns, then the last column of an odd width.
h2v1_merged_upsample(buf, group, width) ==
    LET Pixel(x) ==
            MergedPixel(buf[1][group][x], buf[2][group][x \div 2], buf[3][group][x \div 2])
    IN  <<[x \in Span(width) |-> Pixel(x)]>>

h2v2_merged_upsample(buf, group, width) ==
    LET Pixel(y, x) ==
            MergedPixel(buf[1][group * 2 + y][x], buf[2][group][x \div 2],
                        buf[3][group][x \div 2])
    IN  <<[x \in Span(width) |-> Pixel(0, x)], [x \in Span(width) |-> Pixel(1, x)]>>
=============================================================================
