-------------------------------- MODULE Pixels --------------------------------
(***************************************************************************)
(* The way of an image's rows through the library: jpeg_write_scanlines    *)
(* (src/jpeg-9a/jcapistd.c) hands rows to the main controller              *)
(* (jcmainct.c), the preprocessor (jcprepct.c) converts, pads and          *)
(* downsamples them, and each full iMCU row goes to the coefficient        *)
(* controller.  Reading, the main controller (jdmainct.c) takes iMCU rows  *)
(* back, and the postprocessor (jdpostct.c) and the upsampler (jdsample.c, *)
(* jdmerge.c) turn row groups into the rows of jpeg_read_scanlines         *)
(* (jdapistd.c).                                                           *)
(*                                                                         *)
(* The application offers and asks for any number of rows at a time, and   *)
(* the coefficient controller may refuse an iMCU row until a later call    *)
(* (the destination is full).  The transform between the two halves loses  *)
(* nothing here: Dct models what it loses.                                 *)
(***************************************************************************)
EXTENDS Sampling, Quantizer

CONSTANTS
    DCTSIZE,             \* samples of a block each way
    Jobs,                \* what is compressed and how it is read
    Lines,               \* numbers of rows offered or asked for at a time
    Picture(_, _, _, _)  \* the pixel of a seed, colour space, row and column

Spaces == {"GRAYSCALE", "RGB", "BG_RGB", "YCbCr", "BG_YCC", "CMYK", "YCCK"}

\* How many components a pixel of a colour space has.
num_components(space) ==
    CASE space = "GRAYSCALE" -> 1
      [] space \in {"CMYK", "YCCK"} -> 4
      [] OTHER -> 3

\* An image has pixels and components (jcmaster.c:251-253), a component no more
\* than four blocks each way (jcmaster.c:272-276), and a call brings some row.
\* There are as many components, and samples in a pixel, as the colour space has
\* (jccolor.c:446-584).
\* The smoothing factor is 1..100, or 0 for none (jpeglib.h:362).
ASSUME PixelsAssumption ==
    /\ DCTSIZE \in Nat \ {0}
    /\ Lines \subseteq Nat \ {0}
    /\ \A job \in Jobs :
          /\ job.width \in Nat \ {0} /\ job.height \in Nat \ {0}
          /\ job.comps \in Seq([h : 1..4, v : 1..4]) \ {<<>>}
          /\ job.in \in Spaces /\ job.jpeg \in Spaces /\ job.out \in Spaces
          /\ Len(job.comps) = num_components(job.jpeg)
          /\ \A r \in 0..(job.height - 1), x \in 0..(job.width - 1) :
                Picture(job.seed, job.in, r, x)
                    \in [1..num_components(job.in) -> 0..MAXJSAMPLE]
          /\ job.smoothing \in 0..100
          /\ job.quant \in {"none", "1pass", "2pass"}
          /\ job.colors \in Nat /\ job.dither \in {"none", "ordered", "fs"}

VARIABLES
    setup,      \* what the initialisation derives from the job
    phase,      \* "compress", then "prescan" (two-pass quantization), "read"
    app,        \* jpeg_write_scanlines: next_scanline and the call under way
    prep,       \* counters of the preprocessor
    color_buf,  \* its converted rows, rows of pixels
    cmain,      \* counters of the compressor's main controller
    buffer,     \* the iMCU row it collects, one row set for each component
    coef,       \* the iMCU rows the coefficient controller has taken
    dmain,      \* the decompressor's main controller and its place in coef
    ups,        \* counters of the upsampler
    conv,       \* what its color_buf points to, or the spare row
    post,       \* counters of the postprocessor
    cquantize,  \* what the one-pass quantizer keeps between rows
    whole,      \* its full image, kept for the second pass
    out         \* the rows given to the application

cvars == <<app, prep, color_buf, cmain, buffer, coef>>
dvars == <<dmain, ups, conv, post, cquantize, whole, out>>
vars == <<setup, phase, cvars, dvars>>

-----------------------------------------------------------------------------
(* Setup. *)

\* A chroma block is scaled by the DCT where the factors allow it.
ssize(max, factor, fancy) == IF fancy /\ max % (factor * 2) = 0 THEN 2 ELSE 1

use_merged_upsample(job) ==
    /\ ~job.fancy
    /\ job.jpeg = "YCbCr" /\ job.out = "RGB" /\ job.xf = "NONE"
    /\ Len(job.comps) = 3
    /\ job.comps[1].h = 2 /\ job.comps[1].v \in {1, 2}
    /\ \A k \in 2..3 : job.comps[k] = [h |-> 1, v |-> 1]

out_color_components(job) == num_components(job.out)

\* Only three components can be quantized in two passes.
master_selection(job) ==
    IF job.quant = "2pass" /\ out_color_components(job) # 3 THEN "1pass" ELSE job.quant

initial_setup(job) ==
    LET count == Len(job.comps)
        maxh == Max({job.comps[k].h : k \in 1..count})
        maxv == Max({job.comps[k].v : k \in 1..count})
        dconv == jinit_color_deconverter(job.jpeg, job.xf, job.out)
        Sizes(c) ==
            [hg |-> c.h * ssize(maxh, c.h, job.fancy),
             vg |-> c.v * ssize(maxv, c.v, job.fancy),
             cols |-> Ceiling(job.width * c.h, maxh * DCTSIZE)
                          * DCTSIZE * ssize(maxh, c.h, job.fancy)]
        Methods(k, c) ==
            [hg |-> c.hg, vg |-> c.vg, cols |-> c.cols,
             down |-> jinit_downsampler(c, maxh, maxv, job.smoothing),
             up |-> jinit_upsampler(c, maxh, maxv, k \in component_needed(dconv, count))]
        comps == [k \in 1..count |-> Methods(k, Sizes(job.comps[k]))]
    IN  [width |-> job.width, height |-> job.height, maxh |-> maxh, maxv |-> maxv,
         comps |-> comps, smoothing |-> job.smoothing,
         context |-> \E k \in 1..count : NeedsContext(comps[k].down),
         total_iMCU_rows |-> Ceiling(job.height, maxv * DCTSIZE),
         in |-> job.in, out |-> job.out, seed |-> job.seed, quant |-> master_selection(job),
         quantizer |-> jinit_1pass_quantizer(out_color_components(job), job.out,
                                             job.colors, job.dither),
         halved |-> HalvedComponents(job.in, job.jpeg),
         cconv |-> jinit_color_converter(job.in, job.jpeg, job.xf),
         dconv |-> dconv, merged |-> use_merged_upsample(job)]

Supported(s) ==
    /\ s.cconv # "error" /\ s.dconv # "error"
    /\ s.quant = "1pass" => s.quantizer.Ncolors # <<>>
    /\ \A k \in DOMAIN s.comps : s.comps[k].down # "error" /\ s.comps[k].up # "error"

Components == DOMAIN setup.comps

\* A row of the image, and what the colour conversion makes of it.
Scanline(r) == [x \in Span(setup.width) |-> Picture(setup.seed, setup.in, r, x)]
Converted(r) ==
    [x \in Span(setup.width) |-> color_convert(setup.cconv, Scanline(r)[x])]

\* Memory nobody has written: rows without samples of an image.
Blank == <<>>
BlankRows(n) == [i \in Span(n) |-> Blank]

-----------------------------------------------------------------------------
(* Compression. *)

\* With context three row groups are kept, and the pointers of the group
\* before the first and after the last wrap around.
create_context_buffer(i) == i % (3 * setup.maxv)

start_pass_prep(s) ==
    [rows_to_go |-> s.height, next_buf_row |-> 0,
     this_row_group |-> 0, next_buf_stop |-> 2 * s.maxv]

start_pass_main == [cur_iMCU_row |-> 0, rowgroup_ctr |-> 0, suspended |-> FALSE]

NoRow(s) ==
    [k \in DOMAIN s.comps |-> BlankRows(s.comps[k].vg * DCTSIZE)]

\* A call with n rows, of which no more than the image has left are taken.
jpeg_write_scanlines(n) ==
    /\ phase = "compress"
    /\ app.at = "idle"
    /\ app.next_scanline < setup.height
    /\ app' = [app EXCEPT !.at = "fill", !.row_ctr = 0,
                          !.avail = Smaller(n, setup.height - app.next_scanline)]
    /\ UNCHANGED <<setup, phase, prep, color_buf, cmain, buffer, coef, dvars>>

Idle(scanline) == [at |-> "idle", next_scanline |-> scanline, row_ctr |-> 0, avail |-> 0]
Returned(a) == Idle(a.next_scanline + a.row_ctr)

\* Rows of one component out of rows of pixels.
Plane(group, k) ==
    [y \in DOMAIN group |-> [x \in Span(setup.width) |-> group[y][x][k]]]

\* One row group of every component goes to place ctr of the iMCU row.
sep_downsample(group, ctr) ==
    [k \in Components |->
        LET comp == setup.comps[k]
            rows == downsample(Plane(group, k), comp, setup)
        IN  [y \in DOMAIN buffer[k] |->
                IF y \div comp.vg = ctr THEN rows[y % comp.vg] ELSE buffer[k][y]]]

\* The rows below "from" become copies of the last row above it.
expand_bottom_edge(rows, from) ==
    [y \in DOMAIN rows |-> IF y < from THEN rows[y] ELSE rows[from - 1]]

\* Faulty: each turn starts again at the first row of the call.
ColorConverted_FirstRows(buf, at, numrows) ==
    [i \in DOMAIN buf |->
        IF i \in at..(at + numrows - 1)
        THEN Converted(app.next_scanline + i - at) ELSE buf[i]]

\* The next numrows rows of the call, converted from row "at" of the buffer on.
ColorConverted(buf, at, numrows) ==
    [i \in DOMAIN buf |->
        IF i \in at..(at + numrows - 1)
        THEN Converted(app.next_scanline + app.row_ctr + i - at) ELSE buf[i]]

\* One turn of the loop without context: convert, and downsample a full group.
pre_process_data ==
    /\ app.at = "fill" /\ ~setup.context
    /\ app.row_ctr < app.avail
    /\ cmain.rowgroup_ctr < DCTSIZE
    /\ LET maxv == setup.maxv
           numrows == Smaller(maxv - prep.next_buf_row, app.avail - app.row_ctr)
           next == prep.next_buf_row + numrows
           bottom == prep.rows_to_go = numrows
           buf == ColorConverted(color_buf, prep.next_buf_row, numrows)
           group == IF bottom THEN expand_bottom_edge(buf, next) ELSE buf
           full == bottom \/ next = maxv
           filled == IF full THEN sep_downsample(group, cmain.rowgroup_ctr) ELSE buffer
           ctr == IF full THEN cmain.rowgroup_ctr + 1 ELSE cmain.rowgroup_ctr
       IN  /\ color_buf' = group
           /\ buffer' = IF bottom
                        THEN [k \in Components |->
                                 expand_bottom_edge(filled[k], ctr * setup.comps[k].vg)]
                        ELSE filled
           /\ cmain' = [cmain EXCEPT !.rowgroup_ctr = IF bottom THEN DCTSIZE ELSE ctr]
           /\ prep' = [prep EXCEPT !.rows_to_go = @ - numrows,
                                   !.next_buf_row = IF full THEN 0 ELSE next]
           /\ app' = [app EXCEPT !.row_ctr = @ + numrows]
    /\ UNCHANGED <<setup, phase, coef, dvars>>

\* The first rows are copied into the group above them.
PaddedTop(buf) ==
    [i \in DOMAIN buf |-> IF i \in 2 * setup.maxv .. 3 * setup.maxv - 1 THEN buf[0] ELSE buf[i]]

\* At the bottom the last row is copied up to where a group is full.
PaddedBottom(buf, from, stop) ==
    [i \in DOMAIN buf |-> IF i \in from..(stop - 1)
                          THEN buf[create_context_buffer(from - 1)] ELSE buf[i]]

\* The group with a row of context above and below.
WithContext(buf, at) ==
    [y \in -1..setup.maxv |-> buf[create_context_buffer(at + y)]]

Advanced(p, next) ==
    LET maxv == setup.maxv
        row == IF next >= 3 * maxv THEN 0 ELSE next
    IN  [p EXCEPT !.this_row_group = IF @ + maxv >= 3 * maxv THEN 0 ELSE @ + maxv,
                  !.next_buf_row = row,
                  !.next_buf_stop = row + maxv]

\* One turn of the loop with context.
pre_process_context ==
    /\ app.at = "fill" /\ setup.context
    /\ cmain.rowgroup_ctr < DCTSIZE
    /\ app.row_ctr < app.avail \/ prep.rows_to_go = 0
    /\ LET numrows == Smaller(prep.next_buf_stop - prep.next_buf_row, app.avail - app.row_ctr)
           fresh == app.row_ctr < app.avail
           buf == ColorConverted(color_buf, prep.next_buf_row, numrows)
           next == IF fresh THEN prep.next_buf_row + numrows ELSE prep.next_buf_stop
           rows == CASE fresh /\ prep.rows_to_go = setup.height -> PaddedTop(buf)
                     [] fresh /\ prep.rows_to_go # setup.height -> buf
                     [] OTHER -> PaddedBottom(color_buf, prep.next_buf_row, prep.next_buf_stop)
           counted == [prep EXCEPT !.rows_to_go = IF fresh THEN @ - numrows ELSE @,
                                   !.next_buf_row = next]
           full == next = prep.next_buf_stop
       IN  /\ color_buf' = rows
           /\ app' = IF fresh THEN [app EXCEPT !.row_ctr = @ + numrows] ELSE app
           /\ IF full
              THEN /\ buffer' = sep_downsample(WithContext(rows, prep.this_row_group),
                                               cmain.rowgroup_ctr)
                   /\ cmain' = [cmain EXCEPT !.rowgroup_ctr = @ + 1]
                   /\ prep' = Advanced(counted, next)
              ELSE /\ prep' = counted
                   /\ UNCHANGED <<buffer, cmain>>
    /\ UNCHANGED <<setup, phase, coef, dvars>>

\* The preprocessor returns: to the application, unless an iMCU row is full.
PreProcessed ==
    /\ app.at = "fill"
    /\ \/ /\ cmain.rowgroup_ctr = DCTSIZE
          /\ app' = [app EXCEPT !.at = "send"]
       \/ /\ cmain.rowgroup_ctr < DCTSIZE
          /\ app.row_ctr = app.avail
          /\ setup.context => prep.rows_to_go # 0
          /\ app' = Returned(app)
    /\ UNCHANGED <<setup, phase, prep, color_buf, cmain, buffer, coef, dvars>>

\* The coefficient controller takes the row; the row held back is counted.
compress_data ==
    /\ app.at = "send"
    /\ LET counted == [app EXCEPT !.row_ctr = IF cmain.suspended THEN @ + 1 ELSE @]
       IN  app' = IF cmain.cur_iMCU_row + 1 < setup.total_iMCU_rows
                  THEN [counted EXCEPT !.at = "fill"]
                  ELSE Returned(counted)
    /\ coef' = Append(coef, buffer)
    /\ cmain' = [cur_iMCU_row |-> cmain.cur_iMCU_row + 1, rowgroup_ctr |-> 0,
                 suspended |-> FALSE]
    /\ UNCHANGED <<setup, phase, prep, color_buf, buffer, dvars>>

\* Faulty: the last row is counted although its iMCU row was refused.
compress_data_suspends_Counts ==
    /\ app.at = "send"
    /\ app' = Returned(app)
    /\ cmain' = [cmain EXCEPT !.suspended = TRUE]
    /\ UNCHANGED <<setup, phase, prep, color_buf, buffer, coef, dvars>>

\* It does not: the call returns as if its last row were not consumed yet.
compress_data_suspends ==
    /\ app.at = "send"
    /\ app' = Returned([app EXCEPT !.row_ctr = IF cmain.suspended THEN @ ELSE @ - 1])
    /\ cmain' = [cmain EXCEPT !.suspended = TRUE]
    /\ UNCHANGED <<setup, phase, prep, color_buf, buffer, coef, dvars>>

-----------------------------------------------------------------------------
(* Decompression. *)

\* What the coefficient controller gives back for an iMCU row: with the wide
\* gamut the chroma of ordinary colours was halved.
Halved(v) ==
    IF v >= CENTERJSAMPLE THEN CENTERJSAMPLE + ((v - CENTERJSAMPLE + 1) \div 2)
                          ELSE CENTERJSAMPLE - ((CENTERJSAMPLE - v + 1) \div 2)

decompress_data(row) ==
    [k \in Components |->
        IF k \in setup.halved
        THEN [y \in DOMAIN coef[row][k] |->
                 [x \in DOMAIN coef[row][k][y] |-> Halved(coef[row][k][y][x])]]
        ELSE coef[row][k]]

start_pass_upsample == [next_row_out |-> setup.maxv, rows_to_go |-> setup.height]
start_pass_merged_upsample == [spare_full |-> FALSE, rows_to_go |-> setup.height]
start_pass_dpost == [starting_row |-> 0, next_row |-> 0]

\* Another component's part of color_buf, or where it points into the input.
Own(rows) == [own |-> TRUE, rows |-> rows]
PointsTo(row) == [own |-> FALSE, row |-> row]
noop_upsample == Own(Blank)
fullsize_upsample(comp, group) == PointsTo(group * comp.vg)

upsample(buf, k, group) ==
    LET comp == setup.comps[k]
    IN  CASE comp.up = "noop" -> noop_upsample
          [] comp.up = "fullsize" -> fullsize_upsample(comp, group)
          [] OTHER -> Own(upsample1([y \in Span(comp.vg) |-> buf[k][group * comp.vg + y]],
                                    comp, setup))

\* Row y of color_buf, converted.
DeconvertedRow(buf, c, y) ==
    LET Row(k) == IF c[k].own THEN c[k].rows[y] ELSE buf[k][c[k].row + y]
        needed == component_needed(setup.dconv, Len(setup.comps))
    IN  [x \in Span(setup.width) |->
            color_deconvert(setup.dconv, [k \in 1..Cardinality(needed) |-> Row(k)[x]])]

\* The rows an upsampler gives for a row group and the room there is.
sep_upsample(buf, group, room) ==
    LET maxv == setup.maxv
        empty == ups.next_row_out >= maxv
        c == IF empty THEN [k \in Components |-> upsample(buf, k, group)] ELSE conv
        from == IF empty THEN 0 ELSE ups.next_row_out
        num_rows == Smaller(Smaller(maxv - from, ups.rows_to_go), room)
    IN  [rows |-> [i \in 1..num_rows |-> DeconvertedRow(buf, c, from + i - 1)],
         ups |-> [next_row_out |-> from + num_rows,
                  rows_to_go |-> ups.rows_to_go - num_rows],
         conv |-> c,
         consumed |-> from + num_rows >= maxv]

\* Faulty: rows below the image are given as well.
merged_2v_upsample_Below(buf, group, room) ==
    LET two == h2v2_merged_upsample(buf, group, setup.width)
        num_rows == IF ups.spare_full THEN 1 ELSE Smaller(2, room)
        spare == ~ups.spare_full /\ num_rows < 2
    IN  [rows |-> IF ups.spare_full THEN <<conv>> ELSE SubSeq(two, 1, num_rows),
         ups |-> [spare_full |-> spare, rows_to_go |-> ups.rows_to_go - num_rows],
         conv |-> IF spare THEN two[2] ELSE conv,
         consumed |-> ~spare]

merged_2v_upsample(buf, group, room) ==
    LET two == h2v2_merged_upsample(buf, group, setup.width)
        num_rows == IF ups.spare_full THEN 1
                    ELSE Smaller(Smaller(2, ups.rows_to_go), room)
        spare == ~ups.spare_full /\ num_rows < 2
    IN  [rows |-> IF ups.spare_full THEN <<conv>> ELSE SubSeq(two, 1, num_rows),
         ups |-> [spare_full |-> spare, rows_to_go |-> ups.rows_to_go - num_rows],
         conv |-> IF spare THEN two[2] ELSE conv,
         consumed |-> ~spare]

merged_1v_upsample(buf, group, room) ==
    [rows |-> h2v1_merged_upsample(buf, group, setup.width),
     ups |-> ups, conv |-> conv, consumed |-> TRUE]

jinit_merged_upsampler(buf, group, room) ==
    IF setup.maxv = 2 THEN merged_2v_upsample(buf, group, room)
                      ELSE merged_1v_upsample(buf, group, room)

Upsampled(buf, group, room) ==
    IF setup.merged THEN jinit_merged_upsampler(buf, group, room)
                    ELSE sep_upsample(buf, group, room)

\* The two-pass quantizer: a colour of its own for each part of the colour space.
pass2_no_dither(row) ==
    [x \in DOMAIN row |-> [k \in DOMAIN row[x] |-> row[x][k] \div CENTERJSAMPLE]]

StripHeight == setup.maxv

\* The compressor is destroyed, and a decompressor made for what it wrote.
jpeg_start_decompress ==
    /\ phase = "compress"
    /\ app.at = "idle" /\ app.next_scanline = setup.height
    /\ phase' = IF setup.quant = "2pass" THEN "prescan" ELSE "read"
    /\ ups' = IF setup.merged THEN start_pass_merged_upsample ELSE start_pass_upsample
    /\ post' = start_pass_dpost
    /\ cquantize' = IF setup.quant = "1pass"
                    THEN start_pass_1_quant(setup.quantizer, setup.width) ELSE cquantize
    /\ whole' = BlankRows(IF setup.quant = "2pass"
                          THEN Ceiling(setup.height, StripHeight) * StripHeight ELSE 0)
    /\ color_buf' = Blank
    /\ buffer' = Blank
    /\ UNCHANGED <<setup, app, prep, cmain, coef, dmain, conv, out>>

\* One call of the main controller: an iMCU row is fetched when the last one
\* is used up, and handed to the postprocessor by row groups.
Fetched ==
    IF dmain.buffer_full THEN dmain
    ELSE [dmain EXCEPT !.buffer_full = TRUE, !.row = @ + 1,
                       !.buffer = decompress_data(dmain.row + 1)]

Processed(d, room) ==
    LET u == Upsampled(d.buffer, d.rowgroup_ctr, room)
        ctr == IF u.consumed THEN d.rowgroup_ctr + 1 ELSE d.rowgroup_ctr
    IN  [rows |-> u.rows, ups |-> u.ups, conv |-> u.conv,
         dmain |-> IF ctr >= DCTSIZE
                   THEN [d EXCEPT !.buffer_full = FALSE, !.rowgroup_ctr = 0]
                   ELSE [d EXCEPT !.rowgroup_ctr = ctr]]

process_data_simple_main(p) ==
    /\ dmain' = p.dmain
    /\ ups' = p.ups
    /\ conv' = p.conv

NextStrip(p, count) ==
    IF p.next_row + count >= StripHeight
    THEN [starting_row |-> p.starting_row + StripHeight, next_row |-> 0]
    ELSE [p EXCEPT !.next_row = @ + count]

Emit(rows) == /\ out' = out \o rows
              /\ UNCHANGED <<post, whole>>

ReadUnquantized(n) ==
    /\ setup.quant = "none"
    /\ \E p \in {Processed(Fetched, n)} :
          process_data_simple_main(p) /\ Emit(p.rows) /\ UNCHANGED cquantize

post_process_1pass(n) ==
    /\ setup.quant = "1pass"
    /\ \E p \in {Processed(Fetched, Smaller(n, StripHeight))} :
          /\ process_data_simple_main(p)
          /\ LET done == QuantizeRows(setup.quantizer, cquantize, p.rows)
             IN  Emit(done.rows) /\ cquantize' = done.q

\* The rows are kept for the second pass; the quantizer looks at them.
Keep(rows) ==
    LET at == post.starting_row + post.next_row
    IN  /\ whole' = [r \in DOMAIN whole |->
                        IF r - at + 1 \in DOMAIN rows THEN rows[r - at + 1] ELSE whole[r]]
        /\ post' = NextStrip(post, Len(rows))
        /\ UNCHANGED <<cquantize, out>>

post_process_prepass ==
    /\ phase = "prescan"
    /\ post.starting_row + post.next_row < setup.height
    /\ \E p \in {Processed(Fetched, StripHeight - post.next_row)} :
          process_data_simple_main(p) /\ Keep(p.rows)
    /\ UNCHANGED <<setup, phase, cvars>>

\* The dummy pass is over: the second pass reads the kept image.
finish_output_pass ==
    /\ phase = "prescan"
    /\ post.starting_row + post.next_row >= setup.height
    /\ phase' = "read"
    /\ post' = start_pass_dpost
    /\ UNCHANGED <<setup, cvars, dmain, ups, conv, cquantize, whole, out>>

post_process_2pass(n) ==
    /\ setup.quant = "2pass"
    /\ LET left == Smaller(StripHeight - post.next_row, n)
           num_rows == Smaller(left, setup.height - post.starting_row)
           at == post.starting_row + post.next_row
       IN  /\ out' = out \o [i \in 1..num_rows |-> pass2_no_dither(whole[at + i - 1])]
           /\ post' = NextStrip(post, num_rows)
    /\ UNCHANGED <<dmain, ups, conv, cquantize, whole>>

\* A call for up to n rows; output_scanline is the number of rows given.
jpeg_read_scanlines(n) ==
    /\ phase = "read"
    /\ Len(out) < setup.height
    /\ ReadUnquantized(n) \/ post_process_1pass(n) \/ post_process_2pass(n)
    /\ UNCHANGED <<setup, phase, cvars>>

-----------------------------------------------------------------------------
Init ==
    /\ \E job \in Jobs : setup = initial_setup(job) /\ Supported(initial_setup(job))
    /\ phase = "compress"
    /\ app = Idle(0)
    /\ prep = start_pass_prep(setup)
    /\ color_buf = BlankRows(IF setup.context THEN 3 * setup.maxv ELSE setup.maxv)
    /\ cmain = start_pass_main
    /\ buffer = NoRow(setup)
    /\ coef = <<>>
    /\ dmain = [buffer_full |-> FALSE, rowgroup_ctr |-> 0, row |-> 0, buffer |-> Blank]
    /\ ups = Blank
    /\ conv = Blank
    /\ post = start_pass_dpost
    /\ cquantize = Blank
    /\ whole = Blank
    /\ out = <<>>

\* Both halves are through.
Finished ==
    /\ phase = "read" /\ Len(out) >= setup.height
    /\ UNCHANGED vars

Next ==
    \/ \E n \in Lines : jpeg_write_scanlines(n)
    \/ pre_process_data
    \/ pre_process_context
    \/ PreProcessed
    \/ compress_data
    \/ compress_data_suspends
    \/ jpeg_start_decompress
    \/ post_process_prepass
    \/ finish_output_pass
    \/ \E n \in Lines : jpeg_read_scanlines(n)
    \/ Finished

Spec == Init /\ [][Next]_vars

-----------------------------------------------------------------------------
(* What the rows become. *)

Distance(a, b) == IF a >= b THEN a - b ELSE b - a

\* The converted image, continued beyond its edges by the rows and columns
\* there; a component's box of pixels for one of its samples.
At(k, y, x) ==
    LET Clamped(v, size) == Max({0, Smaller(v, size - 1)})
    IN  color_convert(setup.cconv,
            Picture(setup.seed, setup.in, Clamped(y, setup.height),
                    Clamped(x, setup.width)))[k]

Box(k, y, x) ==
    LET comp == setup.comps[k]
        h == setup.maxh \div comp.hg
        v == setup.maxv \div comp.vg
    IN  (v * y .. v * y + v - 1) \X (h * x .. h * x + h - 1)

Around(p) == ((p[1] - 1 .. p[1] + 1) \X (p[2] - 1 .. p[2] + 1)) \ {p}

\* 1024 times the smoothed value of a pixel (jcsample.c:42-44).
Smoothed(k, p) ==
    (1024 - 8 * setup.smoothing) * At(k, p[1], p[2])
        + setup.smoothing * MapThenSumSet(LAMBDA q : At(k, q[1], q[2]), Around(p))

NearMean(k, sample, box) ==
    IF NeedsContext(setup.comps[k].down)
    THEN Distance(1024 * Cardinality(box) * sample,
                  MapThenSumSet(LAMBDA p : Smoothed(k, p), box))
             <= 512 * Cardinality(box)
    ELSE 2 * Distance(Cardinality(box) * sample,
                      MapThenSumSet(LAMBDA p : At(k, p[1], p[2]), box))
             <= Cardinality(box)

\* Without context the rows below the last row group repeat its last row.
SourceRow(k, y) ==
    IF setup.context THEN y
    ELSE Smaller(y, Ceiling(setup.height, setup.maxv) * setup.comps[k].vg - 1)

(***************************************************************************)
(* Every sample that reaches the coefficient controller is the rounded     *)
(* mean of the pixels it stands for, smoothed if that was asked for, where *)
(* the image goes on beyond its edges as jcprepct.c:28-45 promises: it     *)
(* does not depend on how many rows each jpeg_write_scanlines call brings, *)
(* nor on the calls the coefficient controller made return early, although *)
(* rows are converted as they come and the buffer of three row groups is   *)
(* used round (jcprepct.c:196-261).                                        *)
(***************************************************************************)
PlanesNear ==
    phase = "compress" =>
        \A n \in DOMAIN coef : \A k \in Components :
            LET comp == setup.comps[k]
            IN  \A y \in DOMAIN coef[n][k] : \A x \in Span(comp.cols) :
                    NearMean(k, coef[n][k][y][x],
                             Box(k, SourceRow(k, (n - 1) * comp.vg * DCTSIZE + y), x))

(***************************************************************************)
(* When jpeg_write_scanlines has told the application that all its rows    *)
(* are consumed, every iMCU row has been taken: a call whose last iMCU row *)
(* was refused keeps one row back ("otherwise, if it happened to be the    *)
(* last row of the image, the application would think we were done",       *)
(* jcmainct.c:138-142), and no row is counted twice for it.                *)
(***************************************************************************)
DoneMeansTaken ==
    /\ app.next_scanline + app.row_ctr <= setup.height
    /\ app.at = "idle" /\ app.next_scanline = setup.height
           => cmain.cur_iMCU_row = setup.total_iMCU_rows

\* What a component has for a place of the image, by the definition of a box filter.
BoxSample(r, k, x) ==
    LET comp == setup.comps[k]
        y == (r * comp.vg) \div setup.maxv
        height == comp.vg * DCTSIZE
    IN  decompress_data((y \div height) + 1)[k][y % height][(x * comp.hg) \div setup.maxh]

\* Row r of the image before quantization.
BoxFiltered(r) ==
    [x \in Span(setup.width) |->
        color_deconvert(setup.dconv, [k \in Components |-> BoxSample(r, k, x)])]

\* A code shows the level of component k that is nearest to the one wanted; midway
\* between two levels the breakpoint is rounded up (jquant1.c:261-267).
Limited(v) == Max({0, Smaller(v, MAXJSAMPLE)})
ShowsNearest(k, code, wanted) ==
    LET n == setup.quantizer.Ncolors[k] - 1
        shown == sv_colormap(setup.quantizer, k, code)
    IN  \A j \in 0..n : Distance(wanted, shown) <= Distance(wanted, output_value(j, n)) + 1

\* Every row of the image has its row of the matrix.
OrderedExact(r) ==
    LET row == BoxFiltered(r - 1)
        Threshold(k, x) ==
            IF setup.quantizer.dither_mode = "none" THEN 0
            ELSE make_odither_array(setup.quantizer.Ncolors[k], (r - 1) % 16, x % 16)
    IN  \A x \in Span(setup.width) : \A k \in DOMAIN setup.quantizer.Ncolors :
            ShowsNearest(k, out[r][x], Limited(row[x][k] + Threshold(k, x)))

\* Error diffusion: the rows are read in turns, and what a pixel cannot show is
\* owed to its neighbours, 7/16 to the next, 3/16, 5/16 and 1/16 to the row below.
NothingOwed == [x \in Span(setup.width) |-> 0]
Owe(owed, x, amount) ==
    IF x \in DOMAIN owed THEN [owed EXCEPT ![x] = @ + amount] ELSE owed
Diffused(k, s, r) ==
    LET row == BoxFiltered(r - 1)
        dir == IF r % 2 = 1 THEN 1 ELSE -1
        order == [n \in 1..setup.width |-> IF dir = 1 THEN n - 1 ELSE setup.width - n]
        Turn(t, x) ==
            LET wanted == Limited(row[x][k] + ((t.here[x] + 8) \div 16))
                error == wanted - sv_colormap(setup.quantizer, k, out[r][x])
            IN  [ok |-> t.ok /\ ShowsNearest(k, out[r][x], wanted),
                 here |-> Owe(t.here, x + dir, 7 * error),
                 below |-> Owe(Owe(Owe(t.below, x - dir, 3 * error), x, 5 * error),
                               x + dir, error)]
    IN  FoldLeft(Turn, [ok |-> s.ok, here |-> s.below, below |-> NothingOwed], order)
DiffusedExact ==
    \A k \in DOMAIN setup.quantizer.Ncolors :
        FoldLeft(LAMBDA s, r : Diffused(k, s, r),
                 [ok |-> TRUE, here |-> NothingOwed, below |-> NothingOwed],
                 UpTo(Len(out))).ok

(***************************************************************************)
(* The rows the application has read are the rows of the image, in order,  *)
(* each once, and none below its last row: whatever the numbers of rows    *)
(* asked for ("an oversize buffer (max_lines > scanlines remaining) is not *)
(* an error", jdapistd.c:149), whether the rows come by the buffer of the  *)
(* upsampler, by its pointer into the input (jdsample.c:149-154), by the   *)
(* spare row of merged upsampling, "the equivalent of plain box-filter     *)
(* upsampling" (jdmaster.c:48), or back from the full image of two-pass    *)
(* quantization.  Quantized in one pass each pixel has the nearest colour, *)
(* and dithering goes on from row to row as if there was one call: in the  *)
(* rows of the matrix, or with the errors of all pixels before, of which   *)
(* only one row is kept (jquant1.c:113-118).                               *)
(***************************************************************************)
RowsExact ==
    /\ Len(out) <= setup.height
    /\ CASE setup.quant = "none" -> \A r \in DOMAIN out : out[r] = BoxFiltered(r - 1)
         [] setup.quant = "2pass" ->
                \A r \in DOMAIN out : out[r] = pass2_no_dither(BoxFiltered(r - 1))
         [] setup.quant = "1pass" /\ setup.quantizer.dither_mode # "fs" ->
                \A r \in DOMAIN out : OrderedExact(r)
         [] OTHER -> DiffusedExact

\* The colour an application should read back for the one it wrote.
Wanted(p) ==
    LET gray == IF setup.in = "RGB" THEN rgb_gray_convert(p)[1] ELSE p[1]
    IN  CASE setup.dconv = "gray_rgb" -> <<gray, gray, gray>>
          [] setup.dconv # "gray_rgb" /\ setup.out = "GRAYSCALE" -> <<gray>>
          [] OTHER -> p

WantedIsKnown ==
    <<setup.in, setup.out>> \in
        {<<"RGB", "GRAYSCALE">>, <<"GRAYSCALE", "RGB">>, <<setup.out, setup.out>>}

\* Conversions that compute in whole numbers are exact; those to YCbCr and
\* back may be off by one, and by three where the chroma was halved.
Tolerance ==
    CASE setup.halved # {} -> 3
      [] setup.halved = {} /\ setup.dconv \in {"ycc_rgb", "ycck_cmyk"} -> 1
      [] OTHER -> 0

(***************************************************************************)
(* With full-size components, an image that is written and read in the     *)
(* same colour space comes back: exactly if its colours are not            *)
(* transformed or by the reversible transform (jccolor.c:285-292), within  *)
(* one level if they pass through YCbCr, whose conversion is rounded so    *)
(* that "we don't have to range-limit" (jccolor.c:117-120).  Gray made of  *)
(* a colour is the same on every way there (jdcolor.c:373-376).            *)
(***************************************************************************)
ImageReturns ==
    setup.quant = "none" /\ setup.smoothing = 0 /\ WantedIsKnown
      /\ (\A k \in Components : setup.comps[k].down = "fullsize") =>
        \A r \in 1..Smaller(Len(out), setup.height) : \A x \in Span(setup.width) :
            LET wanted == Wanted(Picture(setup.seed, setup.in, r - 1, x))
            IN  /\ DOMAIN out[r][x] = DOMAIN wanted
                /\ \A k \in DOMAIN wanted :
                       /\ out[r][x][k] \in 0..MAXJSAMPLE
                       /\ Distance(out[r][x][k], wanted[k]) <= Tolerance
=============================================================================
