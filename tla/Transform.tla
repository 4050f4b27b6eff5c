------------------------------- MODULE Transform -----------------------------
(***************************************************************************)
(* The lossless transformations of jpeg-9a (transupp.c): an image is       *)
(* flipped, turned, cropped or wiped by moving its DCT blocks and changing *)
(* signs within them.  A block is known by the place it had in the image   *)
(* and by how it has been turned.                                          *)
(***************************************************************************)
EXTENDS Integers, Sequences, FiniteSets, FiniteSetsExt

CONSTANTS
    DCTSIZE,            \* samples of a block, across and down
    Sources,            \* width, height, components and color of an image
    Jobs                \* what is asked for

Turns == {"flip_h", "flip_v", "transpose", "transverse", "rot_90", "rot_180",
          "rot_270"}
Transposing == {"transpose", "transverse", "rot_90", "rot_270"}

\* Sampling factors go up to MAX_SAMP_FACTOR (jdinput.c:233).
Factors == [h : 1..4, v : 1..4]
Images == [width : Nat \ {0}, height : Nat \ {0}, ycc : BOOLEAN,
           comps : Seq(Factors) \ {<<>>}]

\* jpeg_transform_info: what the caller sets, the crop for each axis.
CropSpecs == [set : {"unset", "pos", "force"}, length : Nat,
              side : {"near", "far"}, offset : Nat]
Options == [transform : Turns \cup {"none", "wipe"}, trim : BOOLEAN,
            perfect : BOOLEAN, force_grayscale : BOOLEAN, crop : BOOLEAN,
            x : CropSpecs, y : CropSpecs]

\* What is wiped is told by a crop specification (jpegtran.c:341-351).
ASSUME TransformAssumption ==
    /\ DCTSIZE \in Nat \ {0}
    /\ Sources \subseteq Images
    /\ Jobs \subseteq {j \in Options : j.transform = "wipe" => j.crop}

VARIABLES
    source,             \* the image that is read
    job,
    info,               \* what the request has worked out
    dest,               \* the parameters of the image that is written
    blocks,             \* and its blocks, one function per component
    phase

vars == <<source, job, info, dest, blocks, phase>>

CeilDiv(a, b) == (a + b - 1) \div b
Span(n) == 0..(n - 1)

----------------------------------------------------------------------------
\* Images: components have sampling factors h and v.
MaxH(comps) == Max({comps[i].h : i \in DOMAIN comps})
MaxV(comps) == Max({comps[i].v : i \in DOMAIN comps})

\* per_component setup of jcmaster.c and jdinput.c.
WidthInBlocks(image, i) ==
    CeilDiv(image.width * image.comps[i].h, MaxH(image.comps) * DCTSIZE)
HeightInBlocks(image, i) ==
    CeilDiv(image.height * image.comps[i].v, MaxV(image.comps) * DCTSIZE)

Padded(n, factor) == CeilDiv(n, factor) * factor

Visible(image, i) ==
    Span(WidthInBlocks(image, i)) \X Span(HeightInBlocks(image, i))

\* The arrays of coefficients are padded out to full iMCUs.
Array(image, i) ==
    Span(Padded(WidthInBlocks(image, i), image.comps[i].h))
        \X Span(Padded(HeightInBlocks(image, i), image.comps[i].v))

\* A block: where it was, transposed, and then mirrored in x and in y.
Block(x, y, transposed, mx, my) ==
    [x |-> x, y |-> y, transposed |-> transposed, mx |-> mx, my |-> my]

Verbatim(x, y) == Block(x, y, FALSE, FALSE, FALSE)
Zero == Verbatim(-1, -1)
Dummy == Verbatim(-2, -2)    \* padding, of which nobody knows what it holds

\* A block that is taken from a place and turned as told there.
Turned(block, how) ==
    IF block \in {Zero, Dummy} THEN block
    ELSE IF how.transposed
    THEN Block(block.x, block.y, ~block.transposed, block.my # how.mx, block.mx # how.my)
    ELSE Block(block.x, block.y, block.transposed, block.mx # how.mx, block.my # how.my)

\* An image as it comes out of a file.
Original(image) ==
    [i \in DOMAIN image.comps |->
        [p \in Array(image, i) |->
            IF p \in Visible(image, i) THEN Verbatim(p[1], p[2]) ELSE Dummy]]

----------------------------------------------------------------------------
\* jtransform_perfect_transform.
PerfectTransform(width, height, MCU_width, MCU_height, transform) ==
    /\ transform \in {"flip_h", "rot_270", "transverse", "rot_180"} =>
          width % MCU_width = 0
    /\ transform \in {"flip_v", "rot_90", "transverse", "rot_180"} =>
          height % MCU_height = 0

\* A crop is given for each axis: a length and an offset, either of which may be
\* unset, and which is counted from the far edge if it is negative.
CropLength(spec, size) ==
    IF spec.set = "unset" THEN size - spec.offset ELSE spec.length

\* Only an image that is not transformed can be extended.
BadCrop(spec, size, transform) ==
    IF spec.set = "unset" THEN spec.offset >= size
    ELSE IF spec.length > size
         THEN \/ transform # "none"
              \/ spec.offset >= spec.length
              \/ spec.offset > spec.length - size
         ELSE \/ spec.offset >= size
              \/ spec.length <= 0
              \/ spec.offset > size - spec.length

CropOffset(spec, size) ==
    LET length == CropLength(spec, size) IN
    IF spec.side # "far" THEN spec.offset
    ELSE IF length > size THEN length - size - spec.offset
         ELSE size - length - spec.offset

\* The size of the result, so that it begins at an iMCU and covers what was asked.
CroppedSize(spec, size, imcu) ==
    LET length == CropLength(spec, size) IN
    IF spec.set = "force" \/ length > size THEN length
    ELSE length + (CropOffset(spec, size) % imcu)

\* The iMCUs a wipe has to touch.
DropSize(spec, size, imcu) ==
    CeilDiv(CropLength(spec, size) + (CropOffset(spec, size) % imcu), imcu)

\* trim_right_edge, trim_bottom_edge.
Trimmed(size, offset, full, imcu) ==
    LET MCUs == size \div imcu IN
    IF MCUs > 0 /\ offset + MCUs = full \div imcu THEN MCUs * imcu ELSE size

TrimsRight == {"flip_h", "transverse", "rot_90", "rot_180"}
TrimsBottom_Not270 == {"flip_v", "transverse", "rot_180"}

TrimsBottom == {"flip_v", "transverse", "rot_180", "rot_270"}

\* jtransform_request_workspace: how many components there will be.
NumComponents(image, j) ==
    IF j.force_grayscale /\ image.ycc /\ Len(image.comps) = 3 THEN 1
    ELSE Len(image.comps)

\* A single component is moved block by block, others by iMCUs.
SourceIMCU(image, j) ==
    IF NumComponents(image, j) = 1 THEN [w |-> DCTSIZE, h |-> DCTSIZE]
    ELSE [w |-> MaxH(image.comps) * DCTSIZE, h |-> MaxV(image.comps) * DCTSIZE]

Refused(image, j) ==
    LET u == SourceIMCU(image, j) IN
    j.perfect /\ ~PerfectTransform(image.width, image.height, u.w, u.h, j.transform)

\* The sizes as they are after a transposition.
Across(image, j) == IF j.transform \in Transposing THEN image.height ELSE image.width
Down(image, j) == IF j.transform \in Transposing THEN image.width ELSE image.height
IMCUAcross(image, j) ==
    IF j.transform \in Transposing THEN SourceIMCU(image, j).h
    ELSE SourceIMCU(image, j).w
IMCUDown(image, j) ==
    IF j.transform \in Transposing THEN SourceIMCU(image, j).w
    ELSE SourceIMCU(image, j).h

CropRefused(image, j) ==
    /\ j.crop
    /\ \/ BadCrop(j.x, Across(image, j), j.transform)
       \/ BadCrop(j.y, Down(image, j), j.transform)

\* One axis of the request.
RequestedSize(crop, spec, size, imcu, transform, trims) ==
    LET cropped == IF crop /\ transform # "wipe" THEN CroppedSize(spec, size, imcu)
                   ELSE size
        offset == IF crop THEN CropOffset(spec, size) \div imcu ELSE 0
    IN  [size |-> IF trims THEN Trimmed(cropped, offset, size, imcu) ELSE cropped,
         offset |-> offset,
         drop |-> IF transform = "wipe" THEN DropSize(spec, size, imcu) ELSE 0]

Request(image, j) ==
    [num_components |-> NumComponents(image, j),
     x |-> RequestedSize(j.crop, j.x, Across(image, j), IMCUAcross(image, j),
                         j.transform, j.trim /\ j.transform \in TrimsRight),
     y |-> RequestedSize(j.crop, j.y, Down(image, j), IMCUDown(image, j),
                         j.transform, j.trim /\ j.transform \in TrimsBottom)]

NeedsWorkspace(image, j, r) ==
    CASE j.transform = "none" ->
            \/ r.x.offset # 0 \/ r.y.offset # 0
            \/ r.x.size > image.width \/ r.y.size > image.height
      [] j.transform = "flip_h" -> r.y.offset # 0
      [] j.transform = "wipe" -> FALSE
      [] OTHER -> TRUE

\* Faulty: the workspace is not turned.
Workspace_Straight(image, j, r) ==
    [i \in 1..r.num_components |->
        LET c == image.comps[i]
            h == IF r.num_components = 1 THEN 1 ELSE c.h
            v == IF r.num_components = 1 THEN 1 ELSE c.v
        IN  Span(CeilDiv(r.x.size, IMCUAcross(image, j)) * h)
                \X Span(CeilDiv(r.y.size, IMCUDown(image, j)) * v)]

\* The workspace arrays are padded out to iMCUs of the destination.
Workspace(image, j, r) ==
    [i \in 1..r.num_components |->
        LET c == image.comps[i]
            h == IF r.num_components = 1 THEN 1
                 ELSE IF j.transform \in Transposing THEN c.v ELSE c.h
            v == IF r.num_components = 1 THEN 1
                 ELSE IF j.transform \in Transposing THEN c.h ELSE c.v
        IN  Span(CeilDiv(r.x.size, IMCUAcross(image, j)) * h)
                \X Span(CeilDiv(r.y.size, IMCUDown(image, j)) * v)]

----------------------------------------------------------------------------
\* jtransform_adjust_parameters with transpose_critical_parameters: the image that
\* is written.  One component gets factors of 1.
CannotConvert(image, j) ==
    /\ j.force_grayscale
    /\ \/ ~(image.ycc /\ Len(image.comps) = 3) /\ Len(image.comps) # 1
       \/ image.comps[1].h # MaxH(image.comps)
       \/ image.comps[1].v # MaxV(image.comps)

Transposed(c) == [h |-> c.v, v |-> c.h]

Adjust(image, j, r) ==
    LET comps == IF r.num_components = 1 THEN <<[h |-> 1, v |-> 1]>>
                 ELSE image.comps
    IN  [width |-> r.x.size, height |-> r.y.size,
         ycc |-> image.ycc /\ r.num_components # 1,
         comps |-> IF j.transform \in Transposing
                   THEN [i \in DOMAIN comps |-> Transposed(comps[i])] ELSE comps]

----------------------------------------------------------------------------
\* What the transform routines compute first for a component: the offset of the
\* crop region in blocks, and how many of the source's blocks can be mirrored.
Geometry(image, r, out, i) ==
    LET c == out.comps[i]
        across == MaxH(out.comps) * DCTSIZE
        down == MaxV(out.comps) * DCTSIZE
    IN  [h |-> c.h, v |-> c.v,
         xc |-> r.x.offset * c.h, yc |-> r.y.offset * c.v,
         width |-> (image.width \div across) * c.h,
         height |-> (image.height \div down) * c.v,
         turned_width |-> (image.height \div across) * c.h,
         turned_height |-> (image.width \div down) * c.v,
         drop_width |-> r.x.drop * c.h, drop_height |-> r.y.drop * c.v]

\* The first of the blocks that an iMCU has in a row or column.
First(n, factor) == n - (n % factor)

\* do_crop
do_crop(g, x, y) == Verbatim(x + g.xc, y + g.yc)

\* do_crop_ext: where the destination is larger than the source it is offset, and
\* zero around the whole iMCUs of it.
do_crop_ext(g, x, y, wider, higher) ==
    LET outside_x == wider /\ (x < g.xc \/ x >= g.width + g.xc)
        first == First(y, g.v)
        outside_y == higher /\ (first < g.yc \/ first >= g.height + g.yc)
    IN  IF outside_x \/ outside_y THEN Zero
        ELSE Verbatim(IF wider THEN x - g.xc ELSE x + g.xc,
                      IF higher THEN y - g.yc ELSE y + g.yc)

\* do_wipe
do_wipe(g, x, y) ==
    IF /\ First(y, g.v) >= g.yc /\ First(y, g.v) < g.yc + g.drop_height
       /\ x >= g.xc /\ x < g.xc + g.drop_width
    THEN Zero ELSE Verbatim(x, y)

MirroredX(x, y) == Block(x, y, FALSE, TRUE, FALSE)
MirroredY(x, y) == Block(x, y, FALSE, FALSE, TRUE)

\* do_flip_h_no_crop: the row is mirrored in place, and then moved to the left.
do_flip_h_no_crop(g, x, y) ==
    LET mirrored(bx) == IF bx < g.width THEN MirroredX(g.width - bx - 1, y)
                        ELSE Verbatim(bx, y)
    IN  mirrored(x + g.xc)

do_flip_h(g, x, y) ==
    IF g.xc + x < g.width THEN MirroredX(g.width - g.xc - x - 1, y + g.yc)
    ELSE Verbatim(x + g.xc, y + g.yc)

\* A strip of rows is reached from its first row, and within it the rows are
\* taken backwards.
Backwards(length, offset, n, factor) ==
    (length - offset - First(n, factor) - factor) + (factor - (n % factor) - 1)

\* Faulty: the crop offset is left out.
do_flip_v_NoOffset(g, x, y) ==
    IF g.yc + First(y, g.v) < g.height
    THEN MirroredY(x + g.xc, Backwards(g.height, 0, y, g.v))
    ELSE Verbatim(x + g.xc, y + g.yc)

do_flip_v(g, x, y) ==
    IF g.yc + First(y, g.v) < g.height
    THEN MirroredY(x + g.xc, Backwards(g.height, g.yc, y, g.v))
    ELSE Verbatim(x + g.xc, y + g.yc)

do_transpose(g, x, y) == Block(y + g.yc, x + g.xc, TRUE, FALSE, FALSE)

\* Faulty: blocks beyond the last whole iMCU are mirrored as well.
do_rot_90_Edges(g, x, y) ==
    IF g.xc + First(x, g.h) < g.turned_width
    THEN Block(y + g.yc, Backwards(g.turned_width, g.xc, x, g.h), TRUE, TRUE, FALSE)
    ELSE Block(y + g.yc, x + g.xc, TRUE, TRUE, FALSE)

do_rot_90(g, x, y) ==
    IF g.xc + First(x, g.h) < g.turned_width
    THEN Block(y + g.yc, Backwards(g.turned_width, g.xc, x, g.h), TRUE, TRUE, FALSE)
    ELSE Block(y + g.yc, x + g.xc, TRUE, FALSE, FALSE)

do_rot_270(g, x, y) ==
    IF g.yc + First(y, g.v) < g.turned_height
    THEN Block(g.turned_height - g.yc - y - 1, x + g.xc, TRUE, FALSE, TRUE)
    ELSE Block(y + g.yc, x + g.xc, TRUE, FALSE, FALSE)

do_rot_180(g, x, y) ==
    LET mx == g.xc + x < g.width
        my == g.yc + First(y, g.v) < g.height
    IN  Block(IF mx THEN g.width - g.xc - x - 1 ELSE x + g.xc,
              IF my THEN Backwards(g.height, g.yc, y, g.v) ELSE y + g.yc,
              FALSE, mx, my)

do_transverse(g, x, y) ==
    LET mx == g.xc + First(x, g.h) < g.turned_width
        my == g.yc + First(y, g.v) < g.turned_height
    IN  Block(IF my THEN g.turned_height - g.yc - y - 1 ELSE y + g.yc,
              IF mx THEN Backwards(g.turned_width, g.xc, x, g.h) ELSE x + g.xc,
              TRUE, mx, my)

\* jtransform_execute_transform: where each block of the destination is taken from.
Taken(image, j, r, out, i, x, y) ==
    LET g == Geometry(image, r, out, i)
        wider == r.x.size > image.width
        higher == r.y.size > image.height
    IN  CASE j.transform = "none" ->
                IF wider \/ higher THEN do_crop_ext(g, x, y, wider, higher)
                ELSE IF r.x.offset # 0 \/ r.y.offset # 0 THEN do_crop(g, x, y)
                ELSE Verbatim(x, y)
          [] j.transform = "flip_h" ->
                IF r.y.offset # 0 THEN do_flip_h(g, x, y)
                ELSE do_flip_h_no_crop(g, x, y)
          [] j.transform = "flip_v" -> do_flip_v(g, x, y)
          [] j.transform = "transpose" -> do_transpose(g, x, y)
          [] j.transform = "transverse" -> do_transverse(g, x, y)
          [] j.transform = "rot_90" -> do_rot_90(g, x, y)
          [] j.transform = "rot_180" -> do_rot_180(g, x, y)
          [] j.transform = "rot_270" -> do_rot_270(g, x, y)
          [] j.transform = "wipe" -> do_wipe(g, x, y)

\* The arrays that are written from: the workspace or the source's own, as far as
\* the compressor looks at them, which fills the rest of an iMCU itself.
Execute(image, old, j, r, out) ==
    [i \in DOMAIN out.comps |->
        [p \in Array(out, i) |->
            IF p \notin Visible(out, i) THEN Dummy
            ELSE LET how == Taken(image, j, r, out, i, p[1], p[2])
                 IN  IF how = Zero THEN Zero
                     ELSE Turned(old[i][<<how.x, how.y>>], how)]]

----------------------------------------------------------------------------
NoInfo == [num_components |-> 0]
NoImage == [width |-> 0, height |-> 0, ycc |-> FALSE, comps |-> <<>>]

Init ==
    /\ source \in Sources /\ job \in Jobs
    /\ info = NoInfo /\ dest = NoImage /\ blocks = <<>>
    /\ phase = "read_header"

jtransform_request_workspace ==
    /\ phase = "read_header"
    /\ \/ /\ Refused(source, job)
          /\ phase' = "not perfect" /\ UNCHANGED info
       \/ /\ ~Refused(source, job) /\ CropRefused(source, job)
          /\ phase' = "error" /\ UNCHANGED info
       \/ /\ ~Refused(source, job) /\ ~CropRefused(source, job)
          /\ info' = Request(source, job)
          /\ phase' = "requested"
    /\ UNCHANGED <<source, job, dest, blocks>>

jtransform_adjust_parameters ==
    /\ phase = "requested"
    /\ \/ /\ CannotConvert(source, job)
          /\ phase' = "error" /\ UNCHANGED dest
       \/ /\ ~CannotConvert(source, job)
          /\ dest' = Adjust(source, job, info)
          /\ phase' = "adjusted"
    /\ UNCHANGED <<source, job, info, blocks>>

jtransform_execute_transform ==
    /\ phase = "adjusted"
    /\ blocks' = Execute(source, Original(source), job, info, dest)
    /\ phase' = "done"
    /\ UNCHANGED <<source, job, info, dest>>

Next ==
    \/ jtransform_request_workspace
    \/ jtransform_adjust_parameters
    \/ jtransform_execute_transform

Spec == Init /\ [][Next]_vars

----------------------------------------------------------------------------
Unit == SourceIMCU(source, job)
Done == phase = "done"

\* Which blocks a transform routine writes: the strips are padded out, and those that
\* transpose pad out the columns as well (transupp.c:462-475).
Written(i) ==
    {p \in Array(dest, i) : job.transform \in Transposing
                               \/ p[1] < WidthInBlocks(dest, i)}

\* No routine reads or writes a block that its array does not have, whatever is
\* left over at the edges, and it has a workspace when it writes to one
\* (transupp.c:72-75, 1229-1232); and every block that will be seen has been a
\* visible block of the source or is zero.
StaysInArrays ==
    /\ phase = "adjusted" =>
          \A i \in DOMAIN dest.comps :
              /\ Written(i) \subseteq IF NeedsWorkspace(source, job, info)
                                      THEN Workspace(source, job, info)[i]
                                      ELSE Array(source, i)
              /\ \A p \in Written(i) :
                    LET how == Taken(source, job, info, dest, i, p[1], p[2])
                    IN  how = Zero \/ <<how.x, how.y>> \in Array(source, i)
    /\ Done =>
          \A i \in DOMAIN blocks : \A p \in Visible(dest, i) :
              \/ blocks[i][p] = Zero
              \/ <<blocks[i][p].x, blocks[i][p].y>> \in Visible(source, i)

\* A job that is asked to be perfect, or trims and has whole iMCUs to mirror.
Clean ==
    \/ job.perfect
    \/ /\ job.trim
       /\ job.transform \in TrimsRight => info.x.size >= IMCUAcross(source, job)
       /\ job.transform \in TrimsBottom => info.y.size >= IMCUDown(source, job)

\* Where a sample of a component comes from, given what is in its block.
Origin(i, X, Y) ==
    LET b == blocks[i][<<X \div DCTSIZE, Y \div DCTSIZE>>]
        u == IF b.mx THEN DCTSIZE - 1 - (X % DCTSIZE) ELSE X % DCTSIZE
        v == IF b.my THEN DCTSIZE - 1 - (Y % DCTSIZE) ELSE Y % DCTSIZE
    IN  IF b.transposed THEN <<b.x * DCTSIZE + v, b.y * DCTSIZE + u>>
        ELSE <<b.x * DCTSIZE + u, b.y * DCTSIZE + v>>

\* Where it should come from, in a source of W by H samples.
Moved(transform, W, H, X, Y) ==
    CASE transform = "none" -> <<X, Y>>
      [] transform = "flip_h" -> <<W - 1 - X, Y>>
      [] transform = "flip_v" -> <<X, H - 1 - Y>>
      [] transform = "transpose" -> <<Y, X>>
      [] transform = "transverse" -> <<W - 1 - Y, H - 1 - X>>
      [] transform = "rot_90" -> <<Y, H - 1 - X>>
      [] transform = "rot_180" -> <<W - 1 - X, H - 1 - Y>>
      [] transform = "rot_270" -> <<W - 1 - Y, X>>

\* The sizes of a component in samples; what a transform mirrors are whole iMCUs.
SamplesAcross(i) == CeilDiv(dest.width * dest.comps[i].h, MaxH(dest.comps))
SamplesDown(i) == CeilDiv(dest.height * dest.comps[i].v, MaxV(dest.comps))
WholeWidth(i) ==
    ((source.width \div Unit.w) * Unit.w * source.comps[i].h) \div MaxH(source.comps)
WholeHeight(i) ==
    ((source.height \div Unit.h) * Unit.h * source.comps[i].v) \div MaxV(source.comps)

\* A perfect or trimmed transformation moves every sample of every component to
\* where the geometry has it, and nothing is left over that is not turned
\* (jtransform_perfect_transform and trim_right_edge, transupp.c:945-967, 1635-1654).
MovesSamples ==
    Done /\ Clean /\ job.transform \in Turns =>
        \A i \in DOMAIN blocks :
            \A X \in Span(SamplesAcross(i)), Y \in Span(SamplesDown(i)) :
                Origin(i, X, Y) =
                    Moved(job.transform, WholeWidth(i), WholeHeight(i),
                          X + info.x.offset * dest.comps[i].h * DCTSIZE,
                          Y + info.y.offset * dest.comps[i].v * DCTSIZE)

\* A transformation of the whole image, and one after another.
Whole(transform) ==
    [job EXCEPT !.transform = transform, !.crop = FALSE, !.trim = FALSE,
                !.perfect = FALSE, !.force_grayscale = FALSE]

Apply(file, transform) ==
    LET j == Whole(transform)
        r == Request(file.image, j)
        out == Adjust(file.image, j, r)
    IN  [image |-> out, blocks |-> Execute(file.image, file.blocks, j, r, out)]

Source == [image |-> Adjust(source, Whole("none"), Request(source, Whole("none"))),
           blocks |-> Apply([image |-> source, blocks |-> Original(source)], "none").blocks]
Result == [image |-> dest, blocks |-> blocks]

Plain == Done /\ job = Whole(job.transform)

Undoing == [t \in Turns |-> CASE t = "rot_90" -> "rot_270"
                              [] t = "rot_270" -> "rot_90"
                              [] OTHER -> t]

Reversible == Apply(Result, Undoing[job.transform]) = Source

EdgesAsInSequence ==
    /\ job.transform = "rot_90" =>
          Result = Apply(Apply(Source, "transpose"), "flip_h")
    /\ job.transform = "rot_180" =>
          Result = Apply(Apply(Source, "flip_v"), "flip_h")
    /\ job.transform = "rot_270" =>
          Result = Apply(Apply(Source, "flip_h"), "transpose")
    /\ job.transform = "transverse" =>
          Result = Apply(Apply(Apply(Source, "flip_h"), "transpose"), "flip_h")

\* "jpegtran's default behavior when transforming an odd-size image is designed to
\* preserve exact reversibility" (usage.txt:524-525): the inverse transformation
\* gives back every block, those of partial iMCUs included.  "The other transforms
\* can be built up as sequences of transpose and flip operations; for consistency,
\* their actions on edge pixels are defined to be the same as the end result"
\* (usage.txt:530-533).
TurnsCompose == Plain /\ job.transform \in Turns => Reversible /\ EdgesAsInSequence

CropIsWindow ==
    /\ Done /\ job.crop /\ job.transform # "wipe" /\ ~job.trim /\ ~job.force_grayscale
       /\ dest.width <= Across(source, job) /\ dest.height <= Down(source, job) =>
          LET whole == Apply(Source, job.transform).blocks IN
          \A i \in DOMAIN blocks : \A p \in Visible(dest, i) :
              blocks[i][p] = whole[i][<<p[1] + info.x.offset * dest.comps[i].h,
                                        p[2] + info.y.offset * dest.comps[i].v>>]
    /\ Done /\ job.crop /\ job.transform # "wipe" /\ ~job.trim =>
          \A a \in {[s |-> job.x, size |-> Across(source, job), r |-> info.x,
                     u |-> IMCUAcross(source, job)],
                    [s |-> job.y, size |-> Down(source, job), r |-> info.y,
                     u |-> IMCUDown(source, job)]} :
              /\ a.r.offset * a.u <= CropOffset(a.s, a.size)
              /\ CropOffset(a.s, a.size) < (a.r.offset + 1) * a.u
              /\ a.s.set # "force" /\ a.r.size <= a.size =>
                    CropOffset(a.s, a.size) + CropLength(a.s, a.size)
                        = a.r.offset * a.u + a.r.size

ZeroOnlyOutside ==
    /\ Done /\ job.transform = "wipe" =>
          \A i \in DOMAIN blocks : \A p \in Visible(dest, i) :
              LET x == CropOffset(job.x, source.width)
                  y == CropOffset(job.y, source.height)
              IN  (blocks[i][p] = Zero) =
                    /\ (p[1] \div dest.comps[i].h) * Unit.w
                          < x + CropLength(job.x, source.width)
                    /\ (p[1] \div dest.comps[i].h + 1) * Unit.w > x
                    /\ (p[2] \div dest.comps[i].v) * Unit.h
                          < y + CropLength(job.y, source.height)
                    /\ (p[2] \div dest.comps[i].v + 1) * Unit.h > y
    /\ Done /\ job.transform = "none" /\ dest.width > source.width
       /\ dest.height >= source.height =>
          \A i \in DOMAIN blocks :
              LET whole == {p \in Visible(source, i) :
                              /\ (p[1] \div dest.comps[i].h + 1) * Unit.w <= source.width
                              /\ (p[2] \div dest.comps[i].v + 1) * Unit.h <= source.height}
              IN  \A q \in whole : Cardinality({p \in Visible(dest, i) :
                      blocks[i][p] # Zero /\ <<blocks[i][p].x, blocks[i][p].y>> = q}) = 1

\* A crop that turns the image shows a part of the whole image turned, the part that
\* begins at the iMCU with the first sample asked for and covers them all
\* (transupp.c:1070-1072, 1139-1156).  Wiping leaves every block alone but those of iMCUs that
\* have samples to be wiped, and an image that is extended is all there, as far as
\* its iMCUs are whole, with zeroes around it (transupp.c:1131-1138, 121-125).
CropsExact == CropIsWindow /\ ZeroOnlyOutside
=============================================================================
