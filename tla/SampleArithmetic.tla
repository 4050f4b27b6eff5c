---------------------------- MODULE SampleArithmetic ----------------------------
(***************************************************************************)
(* The arithmetic that takes samples to quantized coefficients and back,   *)
(* apart from the transforms: the rounding shifts of jdct.h, the division  *)
(* of jcdctmgr.c and the table of limits of jdmaster.c.  Samples have 8    *)
(* bits.                                                                   *)
(***************************************************************************)
EXTENDS Integers

MAXJSAMPLE == 255
CENTERJSAMPLE == 128

\* DESCALE: a rounding right shift.  The shift of a negative number rounds down,
\* as \div does; by 0 bits nothing is added.
Descale(x, unit) == (x + unit \div 2) \div unit

\* DIVIDE_BY, for a dividend that is not negative.
DivideBy(a, b) == IF a >= b THEN a \div b ELSE 0

\* Faulty: nothing is added before the division.
Quantize_Truncates(temp, qval) ==
    IF temp < 0 THEN -DivideBy(-temp, qval) ELSE DivideBy(temp, qval)

\* C does not say how a negative quotient rounds: the dividend is made positive.
Quantize(temp, qval) ==
    IF temp < 0 THEN -DivideBy(-temp + qval \div 2, qval)
                ELSE DivideBy(temp + qval \div 2, qval)

\* prepare_range_limit_table fills 1024 entries, for the low bits of a result.
RangeLimit(x) ==
    LET i == x % 1024 IN
    IF i < CENTERJSAMPLE THEN i + CENTERJSAMPLE
    ELSE IF i < 512 THEN MAXJSAMPLE
    ELSE IF i < 1024 - CENTERJSAMPLE THEN 0
    ELSE i - (1024 - CENTERJSAMPLE)
================================================================================
