----------------------------- MODULE MCTransform -----------------------------
(***************************************************************************)
(* Images of up to 14 samples each way with blocks of two by two samples,  *)
(* so that iMCUs and blocks are whole, partial or missing.                 *)
(***************************************************************************)
EXTENDS Transform

CONSTANTS Sizes, Lengths

C(h, v) == [h |-> h, v |-> v]

Components ==
    {<<C(1, 1)>>, <<C(2, 2)>>, <<C(2, 1), C(1, 1)>>, <<C(1, 2), C(1, 1)>>,
     <<C(2, 2), C(1, 1), C(1, 2)>>}

AllSources == [width : Sizes, height : Sizes, ycc : {TRUE}, comps : Components]

Unset(offset) == [set |-> "unset", length |-> 0, side |-> "near", offset |-> offset]
Specs ==
    {Unset(0), Unset(3)}
    \cup [set : {"pos"}, length : Lengths, side : {"near", "far"}, offset : {0, 3}]
    \cup [set : {"force"}, length : Lengths, side : {"near"}, offset : {3}]

AnyTransform == Turns \cup {"none"}

Uncropped ==
    [transform : AnyTransform, trim : BOOLEAN, perfect : BOOLEAN,
     force_grayscale : BOOLEAN, crop : {FALSE}, x : {Unset(0)}, y : {Unset(0)}]

Cropped(xs, ys) ==
    [transform : AnyTransform \cup {"wipe"}, trim : {FALSE}, perfect : {FALSE},
     force_grayscale : {FALSE}, crop : {TRUE}, x : xs, y : ys]

CroppedAndTrimmed ==
    [transform : AnyTransform, trim : {TRUE}, perfect : {FALSE},
     force_grayscale : BOOLEAN, crop : {TRUE}, x : Specs, y : {Unset(0)}]

AllJobs ==
    Uncropped \cup CroppedAndTrimmed
        \cup Cropped(Specs, {Unset(0), Unset(3)}) \cup Cropped({Unset(0)}, Specs)
=============================================================================
