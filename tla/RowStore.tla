------------------------------- MODULE RowStore ------------------------------
(***************************************************************************)
(* What the memory manager of jpeg-9a promises of a virtual array: rows    *)
(* that are written from the first one on and keep what was written.  A    *)
(* caller accesses a strip of them, to look at it or to change it; a row   *)
(* that nobody has written yet reads as zero where that was asked for, and *)
(* is an error otherwise.                                                  *)
(***************************************************************************)
EXTENDS Integers

CONSTANTS
    Values,             \* what a row may hold
    Zero,               \* a row of zeroes
    Requests            \* numrows, maxaccess and pre_zero of a request

VARIABLES
    array,              \* the request
    rows,               \* what was written, of the rows before first_undef_row
    first_undef_row,
    strip, writable,    \* the rows the caller has access to, and whether to write
    view,               \* and what it finds there
    error               \* ERREXIT was called

vars == <<array, rows, first_undef_row, strip, writable, view, error>>

\* No row at all.
NoRows == [r \in {} |-> Zero]

Init ==
    /\ array \in Requests
    /\ rows = NoRows /\ first_undef_row = 0
    /\ strip = {} /\ writable = FALSE /\ view = NoRows
    /\ error = FALSE

Grown(end) == IF first_undef_row < end THEN end ELSE first_undef_row

\* New rows are zero, or hold anything if that was not asked for.
Access(start, num, write) ==
    /\ ~error
    /\ start + num <= array.numrows /\ num <= array.maxaccess
    /\ write => first_undef_row >= start
    /\ ~array.pre_zero /\ ~write => first_undef_row >= start + num
    /\ first_undef_row' = IF write THEN Grown(start + num) ELSE first_undef_row
    /\ rows' \in [0..(first_undef_row' - 1) -> Values]
    /\ \A r \in 0..(first_undef_row' - 1) :
          IF r < first_undef_row THEN rows'[r] = rows[r]
          ELSE array.pre_zero => rows'[r] = Zero
    /\ strip' = start..(start + num - 1)
    /\ writable' = write
    /\ view' = [r \in strip' |-> IF r < first_undef_row' THEN rows'[r] ELSE Zero]
    /\ UNCHANGED <<array, error>>

\* The caller stores through the pointer it was given.
Store(r, v) ==
    /\ ~error /\ writable /\ r \in strip
    /\ rows' = [rows EXCEPT ![r] = v]
    /\ view' = [view EXCEPT ![r] = v]
    /\ UNCHANGED <<array, first_undef_row, strip, writable, error>>

\* Beyond the array, more than maxaccess rows, a gap that is written over, or
\* undefined rows that are read.
BadAccess(start, num, write) ==
    /\ ~error
    /\ \/ start + num > array.numrows
       \/ num > array.maxaccess
       \/ write /\ first_undef_row < start
       \/ ~write /\ ~array.pre_zero /\ first_undef_row < start + num
    /\ error' = TRUE
    /\ strip' = {} /\ writable' = FALSE /\ view' = NoRows
    /\ UNCHANGED <<array, rows, first_undef_row>>

\* Bound of the model: a request for one row or one strip too many is enough.
Starts == 0..array.numrows
Nums == 1..(array.maxaccess + 1)

Next ==
    \/ \E start \in Starts, num \in Nums, write \in BOOLEAN :
          Access(start, num, write) \/ BadAccess(start, num, write)
    \/ \E r \in 0..(array.numrows - 1), v \in Values : Store(r, v)

Spec == Init /\ [][Next]_vars
=============================================================================
