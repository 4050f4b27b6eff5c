------------------------------- MODULE MCPixels -------------------------------
(***************************************************************************)
(* Pictures of a few rows and columns with blocks of two by two samples.   *)
(***************************************************************************)
EXTENDS Pixels

\* Neighbouring pixels differ, and extreme colours are among them.
Level == <<0, 255, 1, 128>>
MCPicture(seed, space, y, x) ==
    LET i == seed * 17 + y * 5 + x * 23 + x * y * 3
    IN  [k \in 1..num_components(space) |-> Level[((i \div (4 ^ (k - 1))) % 4) + 1]]

C(h, v) == [h |-> h, v |-> v]
Same(n) == [k \in 1..n |-> C(1, 1)]
Chroma1(h, v) == <<C(h, v), C(1, 1), C(1, 1)>>

\* Every pair of spaces at full size.
ColorJobs ==
    [width : {4}, height : {3}, comps : {Same(1), Same(3), Same(4)}, fancy : {FALSE},
     smoothing : {0}, in : Spaces, jpeg : Spaces, xf : {"NONE", "SUBTRACT_GREEN"},
     out : Spaces, quant : {"none"}, seed : 0..3, colors : {0}, dither : {"none"}]
RightCount(job) == Len(job.comps) = num_components(job.jpeg)

Photo(widths, heights, samplings, fancies, smoothings, quants) ==
    [width : widths, height : heights, comps : samplings, fancy : fancies,
     smoothing : smoothings, in : {"RGB"}, jpeg : {"YCbCr"}, xf : {"NONE"},
     out : {"RGB", "GRAYSCALE"}, quant : quants, seed : {1}, colors : {0},
     dither : {"none"}]

Samplings ==
    {Chroma1(2, 1), Chroma1(2, 2), Chroma1(1, 2), Chroma1(3, 1), Chroma1(1, 3),
     <<C(4, 1), C(1, 1), C(2, 1)>>, <<C(2, 2), C(2, 1), C(1, 2)>>}

SampledJobs == Photo({1, 3, 5}, {1, 4, 5}, Samplings, BOOLEAN, {0}, {"none"})
SmoothJobs ==
    Photo({3, 5}, {1, 4, 7}, {Same(3), Chroma1(2, 2), Chroma1(2, 1)}, BOOLEAN, {100}, {"none"})
Low == {Same(3), Chroma1(2, 1), Chroma1(2, 2)}
\* Too few colours for RGB are among them, more rows than the matrix has, and
\* enough pixels for errors to meet.
Dithered(jobs, colors, dithers) ==
    {[job EXCEPT !.colors = n, !.dither = d] : job \in jobs, n \in colors, d \in dithers}
QuantJobs ==
    Dithered(Photo({3}, {1, 4, 5}, Low, {FALSE}, {0}, {"1pass", "2pass"}), {7, 20},
             {"none", "fs"})
    \cup Dithered(Photo({5}, {18}, {Same(3)}, {FALSE}, {0}, {"1pass"}), {16, 256},
                  {"ordered", "fs"})

AllJobs ==
    {job \in ColorJobs : RightCount(job)} \cup SampledJobs \cup SmoothJobs \cup QuantJobs

\* Two-pass quantization with row groups of three and four rows.
TallJobs ==
    Dithered(Photo({2}, {6, 7}, {Chroma1(1, 4)}, {FALSE}, {0}, {"2pass"}), {256}, {"none"})
=============================================================================
