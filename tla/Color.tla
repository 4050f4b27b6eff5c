-------------------------------- MODULE Color --------------------------------
(***************************************************************************)
(* The colour conversions of the library (src/jpeg-9a/jccolor.c, jdcolor.c *)
(* and the copy of the YCbCr tables in jdmerge.c).  A pixel is a tuple of  *)
(* samples, one for each component; where both files name a function       *)
(* alike, the decompressor's has the prefix d_.                            *)
(***************************************************************************)
EXTENDS SampleArithmetic, Sequences

\* FIX(x) is x scaled by 2^16 and rounded; the tables below hold its values.
SCALE == 65536
ONE_HALF == 32768
CBCR_OFFSET == CENTERJSAMPLE * SCALE

\* A cast to JSAMPLE, and "& MAXJSAMPLE".
Sample(v) == v % (MAXJSAMPLE + 1)

-----------------------------------------------------------------------------
(* Compression. *)

\* Faulty: the rounding of the chroma is not reduced by one.
rgb_ycc_tab_Full ==
    [Y |-> <<19595, 38470, 7471, ONE_HALF>>,
     Cb |-> <<-11058, -21710, 32768, CBCR_OFFSET + ONE_HALF>>,
     Cr |-> <<32768, -27439, -5329, CBCR_OFFSET + ONE_HALF>>]

\* One row of the table: the weights of red, green and blue and a constant.
rgb_ycc_tab ==
    [Y |-> <<19595, 38470, 7471, ONE_HALF>>,
     Cb |-> <<-11058, -21710, 32768, CBCR_OFFSET + ONE_HALF - 1>>,
     Cr |-> <<32768, -27439, -5329, CBCR_OFFSET + ONE_HALF - 1>>]

Weighed(row, p) ==
    Sample((row[1] * p[1] + row[2] * p[2] + row[3] * p[3] + row[4]) \div SCALE)

rgb_ycc_convert(p) ==
    <<Weighed(rgb_ycc_tab.Y, p), Weighed(rgb_ycc_tab.Cb, p), Weighed(rgb_ycc_tab.Cr, p)>>

rgb_gray_convert(p) == <<Weighed(rgb_ycc_tab.Y, p)>>

cmyk_ycck_convert(p) ==
    rgb_ycc_convert([k \in 1..3 |-> MAXJSAMPLE - p[k]]) \o <<p[4]>>

rgb_rgb1_convert(p) ==
    <<Sample(p[1] - p[2] + CENTERJSAMPLE), p[2], Sample(p[3] - p[2] + CENTERJSAMPLE)>>

grayscale_convert(p) == <<p[1]>>
rgb_convert(p) == <<p[1], p[2], p[3]>>
null_convert(p) == p

RgbSpaces == {"RGB", "BG_RGB"}

\* The method for a colour space of the input and one of the file, "error"
\* for a pair that has none; xf is the colour transform of the file.
jinit_color_converter(in, jpeg, xf) ==
    CASE xf # "NONE" /\ jpeg \notin RgbSpaces -> "error"
      [] jpeg = "GRAYSCALE" /\ in \in {"GRAYSCALE", "YCbCr", "BG_YCC"} -> "grayscale"
      [] jpeg = "GRAYSCALE" /\ in = "RGB" -> "rgb_gray"
      [] jpeg \in RgbSpaces /\ in = jpeg -> IF xf = "NONE" THEN "rgb" ELSE "rgb_rgb1"
      [] jpeg \in {"YCbCr", "BG_YCC"} /\ in = "RGB" -> "rgb_ycc"
      [] jpeg = "BG_YCC" /\ in = "YCbCr" -> "null"
      [] jpeg = "YCCK" /\ in = "CMYK" -> "cmyk_ycck"
      [] jpeg \notin RgbSpaces \cup {"GRAYSCALE"} /\ in = jpeg -> "null"
      [] OTHER -> "error"

\* The components whose coefficients are halved after the DCT.
HalvedComponents(in, jpeg) ==
    IF jpeg = "BG_YCC" /\ in \in {"RGB", "YCbCr"} THEN {2, 3} ELSE {}

color_convert(method, p) ==
    CASE method = "rgb_ycc" -> rgb_ycc_convert(p)
      [] method = "rgb_gray" -> rgb_gray_convert(p)
      [] method = "cmyk_ycck" -> cmyk_ycck_convert(p)
      [] method = "rgb_rgb1" -> rgb_rgb1_convert(p)
      [] method = "grayscale" -> grayscale_convert(p)
      [] method = "rgb" -> rgb_convert(p)
      [] method = "null" -> null_convert(p)

-----------------------------------------------------------------------------
(* Decompression. *)

\* Outside the table of limits there is no sample to read.
Beyond == -1
LimitTable(low, high, v) ==
    CASE v \notin low..high -> Beyond
      [] v < 0 -> 0
      [] v \in 0..MAXJSAMPLE -> v
      [] OTHER -> MAXJSAMPLE

\* The table of jdmaster.c, up to where its part for the IDCT falls to zero.
sample_range_limit(v) == LimitTable(-256, 639, v)

\* What a chroma value adds to the luminance.
build_ycc_rgb_table ==
    [Cr_r |-> [c \in 0..MAXJSAMPLE |->
                   (91881 * (c - CENTERJSAMPLE) + ONE_HALF) \div SCALE],
     Cb_b |-> [c \in 0..MAXJSAMPLE |->
                   (116130 * (c - CENTERJSAMPLE) + ONE_HALF) \div SCALE],
     Cr_g |-> [c \in 0..MAXJSAMPLE |-> -46802 * (c - CENTERJSAMPLE)],
     Cb_g |-> [c \in 0..MAXJSAMPLE |-> -22554 * (c - CENTERJSAMPLE) + ONE_HALF]]

build_bg_ycc_rgb_table ==
    [Cr_r |-> [c \in 0..MAXJSAMPLE |->
                   (183763 * (c - CENTERJSAMPLE) + ONE_HALF) \div SCALE],
     Cb_b |-> [c \in 0..MAXJSAMPLE |->
                   (232260 * (c - CENTERJSAMPLE) + ONE_HALF) \div SCALE],
     Cr_g |-> [c \in 0..MAXJSAMPLE |-> -93603 * (c - CENTERJSAMPLE)],
     Cb_g |-> [c \in 0..MAXJSAMPLE |-> -45107 * (c - CENTERJSAMPLE) + ONE_HALF]]

\* The wide gamut's table of limits is longer at both ends.
bg_range_limit(v) == LimitTable(-512, 767, v)

\* Red, green and blue before the limits.
YccSums(tab, p) ==
    <<p[1] + tab.Cr_r[p[3]],
      p[1] + ((tab.Cb_g[p[2]] + tab.Cr_g[p[3]]) \div SCALE),
      p[1] + tab.Cb_b[p[2]]>>

ycc_rgb_convert(p) ==
    LET sums == YccSums(build_ycc_rgb_table, p)
    IN  [k \in 1..3 |-> sample_range_limit(sums[k])]

bg_ycc_rgb_convert(p) ==
    LET sums == YccSums(build_bg_ycc_rgb_table, p)
    IN  [k \in 1..3 |-> bg_range_limit(sums[k])]

ycck_cmyk_convert(p) ==
    LET sums == YccSums(build_ycc_rgb_table, p)
    IN  [k \in 1..3 |-> sample_range_limit(MAXJSAMPLE - sums[k])] \o <<p[4]>>

build_rgb_y_table == <<19595, 38470, 7471, ONE_HALF>>

d_rgb_gray_convert(p) == <<Weighed(build_rgb_y_table, p)>>

rgb1_rgb_convert(p) ==
    <<Sample(p[1] + p[2] - CENTERJSAMPLE), p[2], Sample(p[3] + p[2] - CENTERJSAMPLE)>>

rgb1_gray_convert(p) == <<Weighed(build_rgb_y_table, rgb1_rgb_convert(p))>>

d_rgb_convert(p) == <<p[1], p[2], p[3]>>
d_null_convert(p) == p
d_grayscale_convert(p) == <<p[1]>>
gray_rgb_convert(p) == <<p[1], p[1], p[1]>>

jinit_color_deconverter(jpeg, xf, out) ==
    CASE xf # "NONE" /\ jpeg \notin RgbSpaces -> "error"
      [] out = "GRAYSCALE" /\ jpeg \in {"GRAYSCALE", "YCbCr", "BG_YCC"} -> "grayscale"
      [] out = "GRAYSCALE" /\ jpeg = "RGB" ->
            IF xf = "NONE" THEN "rgb_gray" ELSE "rgb1_gray"
      [] out = "RGB" /\ jpeg = "GRAYSCALE" -> "gray_rgb"
      [] out = "RGB" /\ jpeg = "YCbCr" -> "ycc_rgb"
      [] out = "RGB" /\ jpeg = "BG_YCC" -> "bg_ycc_rgb"
      [] out \in RgbSpaces /\ jpeg = out -> IF xf = "NONE" THEN "rgb" ELSE "rgb1_rgb"
      [] out = "CMYK" /\ jpeg = "YCCK" -> "ycck_cmyk"
      [] out \notin RgbSpaces \cup {"GRAYSCALE"} /\ jpeg = out -> "null"
      [] OTHER -> "error"

\* The components the output is made of.
component_needed(method, count) ==
    IF method = "grayscale" THEN {1} ELSE 1..count

color_deconvert(method, p) ==
    CASE method = "ycc_rgb" -> ycc_rgb_convert(p)
      [] method = "bg_ycc_rgb" -> bg_ycc_rgb_convert(p)
      [] method = "ycck_cmyk" -> ycck_cmyk_convert(p)
      [] method = "rgb_gray" -> d_rgb_gray_convert(p)
      [] method = "rgb1_rgb" -> rgb1_rgb_convert(p)
      [] method = "rgb1_gray" -> rgb1_gray_convert(p)
      [] method = "gray_rgb" -> gray_rgb_convert(p)
      [] method = "grayscale" -> d_grayscale_convert(p)
      [] method = "rgb" -> d_rgb_convert(p)
      [] method = "null" -> d_null_convert(p)
=============================================================================
