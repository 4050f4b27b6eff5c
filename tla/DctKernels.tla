----------------------------- MODULE DctKernels -----------------------------
(***************************************************************************)
(* The weights of the discrete cosine transforms of jpeg-9a.  Every pass   *)
(* of a routine in jidctint.c and jfdctint.c computes sums of products of  *)
(* its inputs with constants FIX(x) = x * 2^13, and one rounding shift: it *)
(* is a linear form, and the butterflies that share multiplications are    *)
(* left out.  Row n + 1 and column k + 1 of a table hold the weight        *)
(* between sample n of N and frequency k, for the first half of the        *)
(* samples: the routines get the other half from the same products, with   *)
(* the sign of the odd frequencies changed.                                *)
(***************************************************************************)
EXTENDS Integers

\* The inverse transforms: a table serves the column pass of every routine of
\* height N and the row pass of every routine of width N.
Inverse2 == <<<<1, 1>>>>
Inverse3 == <<<<8192, 10033, 5793>>, <<8192, 0, -11586>>>>
Inverse4 == <<<<8192, 10703, 8192, 4433>>, <<8192, 4433, -8192, -10704>>>>
Inverse5 == <<
    <<8192, 11019, 9372, 6810, 3580>>, <<8192, 6810, -3580, -11018, -9372>>,
    <<8192, 0, -11584, 0, 11584>>>>
Inverse6 == <<
    <<8192, 11190, 10033, 8192, 5793, 2998>>,
    <<8192, 8192, 0, -8192, -11586, -8192>>,
    <<8192, 2998, -10033, -8192, 5793, 11190>>>>
Inverse7 == <<
    <<8192, 11295, 10438, 9058, 7223, 5027, 2578>>,
    <<8192, 9058, 2578, -5027, -10438, -11295, -7223>>,
    <<8192, 5027, -7223, -11295, -2578, 9058, 10438>>,
    <<8192, 0, -11585, 0, 11585, 0, -11585>>>>
Inverse8 == <<
    <<8192, 11363, 10703, 9633, 8192, 6437, 4433, 2260>>,
    <<8192, 9633, 4433, -2259, -8192, -11362, -10704, -6436>>,
    <<8192, 6437, -4433, -11362, -8192, 2261, 10704, 9633>>,
    <<8192, 2260, -10703, -6436, 8192, 9633, -4433, -11363>>>>
\* Faulty: the odd frequencies reach the middle sample.
Inverse9_Centre == <<
    <<8192, 11409, 10887, 10033, 8875, 7447, 5793, 3962>>,
    <<8192, 10033, 5793, 0, -5793, -10033, -11586, -10033>>,
    <<8192, 7447, -2012, -10033, -10887, -3962, 5793, 11409>>,
    <<8192, 3962, -8875, -10033, 2012, 11409, 5793, -7447>>,
    <<8192, 3962, -11586, 0, 11586, 0, -11586, 0>>>>

Inverse9 == <<
    <<8192, 11409, 10887, 10033, 8875, 7447, 5793, 3962>>,
    <<8192, 10033, 5793, 0, -5793, -10033, -11586, -10033>>,
    <<8192, 7447, -2012, -10033, -10887, -3962, 5793, 11409>>,
    <<8192, 3962, -8875, -10033, 2012, 11409, 5793, -7447>>,
    <<8192, 0, -11586, 0, 11586, 0, -11586, 0>>>>
Inverse10 == <<
    <<8192, 11443, 11019, 10322, 9373, 8192, 6810, 5260>>,
    <<8192, 10323, 6810, 1812, -3580, -8192, -11018, -11442>>,
    <<8192, 8192, 0, -8192, -11586, -8192, 0, 8192>>,
    <<8192, 5260, -6810, -11442, -3580, 8192, 11018, 1812>>,
    <<8192, 1812, -11019, -5260, 9373, 8192, -6810, -10322>>>>
Inverse11 == <<
    <<8192, 11468, 11116, 10538, 9746, 8756, 7587, 6264>>,
    <<8192, 10538, 7587, 3264, -1649, -6263, -9746, -11467>>,
    <<8192, 8756, 1649, -6263, -11116, -10537, -4812, 3264>>,
    <<8192, 6264, -4812, -11467, -7587, 3264, 11116, 8756>>,
    <<8192, 3264, -9746, -8755, 4813, 11467, 1649, -10538>>,
    <<8192, 0, -11585, 0, 11585, 0, -11585, 0>>>>
Inverse12 == <<
    <<8192, 11487, 11190, 10703, 10033, 9192, 8192, 7053>>,
    <<8192, 10703, 8192, 4433, 0, -4433, -8192, -10703>>,
    <<8192, 9192, 2998, -4433, -10033, -11485, -8192, -1512>>,
    <<8192, 7053, -2998, -10703, -10033, -1512, 8192, 11486>>,
    <<8192, 4433, -8192, -10704, 0, 10704, 8192, -4433>>,
    <<8192, 1513, -11190, -4433, 10033, 7053, -8192, -9191>>>>
Inverse13 == <<
    <<8192, 11499, 11249, 10832, 10258, 9534, 8672, 7682>>,
    <<8192, 10832, 8672, 5384, 1397, -2773, -6581, -9534>>,
    <<8192, 9534, 4108, -2773, -8672, -11502, -10258, -5384>>,
    <<8192, 7682, -1396, -9534, -11248, -5384, 4108, 10832>>,
    <<8192, 5384, -6581, -11500, -4108, 7682, 11248, 2773>>,
    <<8192, 2773, -10258, -7682, 6581, 10832, -1397, -11500>>,
    <<8192, 0, -11585, 0, 11585, 0, -11585, 0>>>>
Inverse14 == <<
    <<8192, 11513, 11295, 10935, 10438, 9810, 9058, 8192>>,
    <<8192, 10935, 9058, 6164, 2578, -1297, -5026, -8192>>,
    <<8192, 9810, 5027, -1297, -7223, -10934, -11295, -8192>>,
    <<8192, 8192, 0, -8192, -11586, -8192, 0, 8192>>,
    <<8192, 6164, -5027, -11512, -7223, 3826, 11295, 8192>>,
    <<8192, 3826, -9058, -9809, 2578, 11512, 5026, -8192>>,
    <<8192, 1297, -11295, -3826, 10438, 6164, -9058, -8192>>>>
Inverse15 == <<
    <<8192, 11522, 11332, 11018, 10584, 10033, 9373, 8609>>,
    <<8192, 11019, 9372, 6810, 3580, 0, -3580, -6810>>,
    <<8192, 10033, 5792, 0, -5792, -10033, -11586, -10033>>,
    <<8192, 8609, 1211, -6810, -11332, -10033, -3580, 4712>>,
    <<8192, 6810, -3580, -11018, -9372, 0, 9373, 11018>>,
    <<8192, 4712, -7753, -11018, -1211, 10033, 9373, -2409>>,
    <<8192, 2409, -10584, -6810, 7753, 10033, -3580, -11522>>,
    <<8192, 0, -11584, 0, 11584, 0, -11586, 0>>>>
Inverse16 == <<
    <<8192, 11529, 11363, 11086, 10703, 10217, 9632, 8956>>,
    <<8192, 11086, 9633, 7350, 4433, 1136, -2260, -5461>>,
    <<8192, 10217, 6437, 1136, -4433, -8955, -11363, -11086>>,
    <<8192, 8956, 2260, -5461, -10703, -11086, -6436, 1137>>,
    <<8192, 7350, -2260, -10217, -10703, -3363, 6436, 11529>>,
    <<8192, 5461, -6437, -11529, -4433, 7349, 11363, 3363>>,
    <<8192, 3363, -9633, -8955, 4433, 11529, 2260, -10217>>,
    <<8192, 1136, -11363, -3363, 10703, 5461, -9632, -7350>>>>

Inverse == <<<<<<1>>>>, Inverse2, Inverse3, Inverse4, Inverse5, Inverse6, Inverse7,
    Inverse8, Inverse9, Inverse10, Inverse11, Inverse12, Inverse13, Inverse14,
    Inverse15, Inverse16>>

----------------------------------------------------------------------------
\* The row pass of the forward transforms, where it differs from the inverse one
\* by the rounding of the constants; and in 12 and 14 by more than that, see
\* Pass1IsDct in module Dct.
Rows3 == Inverse3
Rows4 == Inverse4
Rows5 == Inverse5
Rows6 == Inverse6
Rows7 == [Inverse7 EXCEPT
    ![1][7] = 2577, ![3][3] = -7224, ![4][3] = -11584, ![4][5] = 11586,
    ![4][7] = -11584]
Rows8 == Inverse8
Rows9 == Inverse9

\* Faulty: a term is added without the shift by CONST_BITS.
Rows10_Unshifted == [Inverse10 EXCEPT ![2][3] = 1]

Rows10 == Inverse10
Rows11 == [Inverse11 EXCEPT
    ![1][2] = 11467, ![1][8] = 6263, ![2][5] = -1648, ![4][2] = 6263,
    ![4][3] = -4813, ![4][8] = 8755, ![5][4] = -8756, ![6][3] = -11586,
    ![6][5] = 11584, ![6][7] = -11588]
Rows12 == [Inverse12 EXCEPT
    ![1][2] = 11486, ![1][6] = 9191, ![2][3] = 1, ![3][2] = 9191,
    ![3][3] = 11189, ![3][6] = -11486, ![4][3] = -11189, ![4][8] = 11487,
    ![5][3] = -1, ![6][2] = 1512]
Rows13 == [Inverse13 EXCEPT
    ![5][4] = -11501, ![6][6] = 10833, ![7][3] = -11588, ![7][5] = 11584,
    ![7][7] = -11584]
Rows14 == [Inverse14 EXCEPT
    ![5][6] = 3827, ![6][4] = -9810, ![7][2] = -6893]
Rows15 == [Inverse15 EXCEPT
    ![1][8] = 8610, ![2][2] = 11018, ![2][3] = 6476, ![2][5] = 6476,
    ![3][3] = 5793, ![3][5] = -5793, ![5][2] = 6809, ![5][3] = -6476,
    ![5][5] = -6476, ![6][3] = -7752, ![7][2] = 2408, ![7][5] = 7752,
    ![8][3] = -11586, ![8][5] = 11586]
Rows16 == [Inverse16 EXCEPT
    ![1][7] = 9633, ![3][3] = 6436, ![4][7] = -6437, ![5][7] = 6437,
    ![5][8] = 11530, ![6][3] = -6436, ![6][6] = 7350, ![7][4] = -8956,
    ![8][2] = 1135, ![8][7] = -9633]

Rows == <<<<<<1>>>>, Inverse2, Rows3, Rows4, Rows5, Rows6, Rows7, Rows8, Rows9,
    Rows10, Rows11, Rows12, Rows13, Rows14, Rows15, Rows16>>

\* The column pass folds into its constants what (8/N)^2 leaves after shifts.
Columns3 == <<<<14564, 17837, 10298>>, <<14564, 0, -20596>>>>
Columns4 == Rows4
Columns5 == <<
    <<10486, 14103, 11997, 8716, 4583>>,
    <<10486, 8716, -4583, -14104, -11997>>, <<10486, 0, -14828, 0, 14828>>>>
Columns6 == <<
    <<14564, 19895, 17837, 14564, 10298, 5331>>,
    <<14564, 14564, 0, -14564, -20596, -14564>>,
    <<14564, 5331, -17837, -14564, 10298, 19895>>>>
Columns7 == <<
    <<10700, 14752, 13633, 11831, 9434, 6565, 3367>>,
    <<10700, 11831, 3367, -6565, -13633, -14752, -9434>>,
    <<10700, 6565, -9434, -14752, -3367, 11830, 13633>>,
    <<10700, 0, -15132, 0, 15132, 0, -15132>>>>
Columns8 == Rows8
Columns9 == <<
    <<12945, 18030, 17203, 15855, 14024, 11768, 9154, 6262>>,
    <<12945, 15855, 9154, 0, -9154, -15855, -18308, -15855>>,
    <<12945, 11768, -3179, -15855, -17203, -6261, 9154, 18029>>,
    <<12945, 6262, -14024, -15855, 3179, 18029, 9154, -11767>>,
    <<12945, 0, -18308, 0, 18308, 0, -18308, 0>>>>
Columns10 == <<
    <<10486, 14647, 14103, 13213, 11997, 10486, 8716, 6733>>,
    <<10486, 13213, 8716, 2320, -4582, -10486, -14104, -14646>>,
    <<10486, 10486, 0, -10486, -14830, -10486, 0, 10486>>,
    <<10486, 6732, -8716, -14646, -4582, 10486, 14104, 2320>>,
    <<10486, 2320, -14103, -6733, 11997, 10486, -8716, -13213>>>>
Columns11 == <<
    <<8666, 12131, 11759, 11148, 10310, 9262, 8026, 6626>>,
    <<8666, 11148, 8026, 3452, -1744, -6626, -10310, -12131>>,
    <<8666, 9262, 1744, -6626, -11759, -11148, -5091, 3453>>,
    <<8666, 6626, -5092, -12131, -8026, 3453, 11759, 9262>>,
    <<8666, 3453, -10310, -9262, 5091, 12131, 1744, -11148>>,
    <<8666, 0, -12254, 0, 12256, 0, -12256, 0>>>>
Columns12 == <<
    <<7282, 10210, 9947, 9514, 8918, 8170, 7282, 6269>>,
    <<7282, 9514, 7282, 3941, 0, -3941, -7282, -9514>>,
    <<7282, 8170, 2665, -3941, -8918, -10210, -7282, -1344>>,
    <<7282, 6269, -2665, -9514, -8918, -1344, 7282, 10210>>,
    <<7282, 3941, -7282, -9514, 0, 9514, 7282, -3941>>,
    <<7282, 1344, -9947, -3941, 8918, 6269, -7282, -8170>>>>
Columns13 == <<
    <<6205, 8710, 8520, 8204, 7770, 7221, 6568, 5819>>,
    <<6205, 8204, 6568, 4078, 1058, -2100, -4984, -7221>>,
    <<6205, 7221, 3112, -2100, -6568, -8711, -7770, -4078>>,
    <<6205, 5819, -1058, -7221, -8520, -4078, 3112, 8205>>,
    <<6205, 4078, -4985, -8710, -3112, 5819, 8520, 2100>>,
    <<6205, 2100, -7770, -5819, 4984, 8204, -1058, -8711>>,
    <<6205, 0, -8774, 0, 8776, 0, -8776, 0>>>>
Columns14 == <<
    <<5350, 7518, 7376, 7141, 6817, 6406, 5915, 5350>>,
    <<5350, 7141, 5915, 4025, 1684, -847, -3283, -5350>>,
    <<5350, 6406, 3283, -847, -4717, -7141, -7376, -5350>>,
    <<5350, 5350, 0, -5350, -7568, -5350, 0, 5350>>,
    <<5350, 4025, -3283, -7518, -4717, 2499, 7376, 5350>>,
    <<5350, 2499, -5915, -6406, 1684, 7518, 3283, -5350>>,
    <<5350, 847, -7376, -2499, 6817, 4025, -5915, -5350>>>>
Columns15 == <<
    <<9321, 13109, 12893, 12536, 12041, 11415, 10664, 9795>>,
    <<9321, 12536, 7369, 7748, 7369, 0, -4073, -7748>>,
    <<9321, 11415, 6591, 0, -6590, -11415, -13182, -11415>>,
    <<9321, 9795, 1378, -7748, -12893, -11415, -4073, 5361>>,
    <<9321, 7748, -7369, -12536, -7369, 0, 10664, 12536>>,
    <<9321, 5361, -8820, -12536, -1378, 11415, 10664, -2741>>,
    <<9321, 2741, -12042, -7748, 8820, 11415, -4073, -13109>>,
    <<9321, 0, -13182, 0, 13180, 0, -13182, 0>>>>
Columns16 == Rows16

Columns == <<<<<<1>>>>, Inverse2, Columns3, Columns4, Columns5, Columns6, Columns7,
    Columns8, Columns9, Columns10, Columns11, Columns12, Columns13, Columns14,
    Columns15, Columns16>>

\* In 15 the sum of four samples is halved with a shift before it is multiplied.
RowsHalf15 == <<0, 0, 5793, 0, -5793, 0, 0, 0>>
ColumnsHalf15 == <<0, 0, 6591, 0, -6590, 0, 0, 0>>
=============================================================================
