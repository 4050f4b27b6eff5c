----------------------------- MODULE VirtualArray ----------------------------
(***************************************************************************)
(* A virtual array of jpeg-9a (jmemmgr.c): a window of rows_in_mem rows in *)
(* memory over a backing store with all of them.  An access moves the      *)
(* window where it must, after what was changed has been written out.      *)
(* Arrays of samples and arrays of coefficient blocks have the same code   *)
(* twice; which of them this is, the request says.                         *)
(***************************************************************************)
EXTENDS Integers

CONSTANTS
    Values,             \* what a row may hold
    Zero, Garbage,      \* a row of zeroes; fresh memory and an empty file
    Requests,           \* kind, numrows, maxaccess and pre_zero of a request
    MaxMinheights       \* how many times maxaccess rows the memory may hold

ASSUME ArrayAssumption ==
    /\ Zero \in Values /\ Garbage \in Values
    /\ Requests \subseteq [kind : {"samples", "blocks"}, numrows : Nat \ {0},
                           maxaccess : Nat \ {0}, pre_zero : BOOLEAN]
    /\ MaxMinheights \subseteq Nat \ {0}

VARIABLES
    array,              \* the request
    rows_in_mem,
    b_s_open,           \* there is a backing store
    mem_buffer, file,   \* the window and the backing store
    cur_start_row,      \* first row of the window
    first_undef_row,
    dirty,
    strip, writable,    \* the rows the caller has access to, and whether to write
    error               \* ERREXIT was called

size == <<array, rows_in_mem, b_s_open>>
window == <<mem_buffer, file, cur_start_row, dirty>>
access == <<strip, writable>>
vars == <<size, window, first_undef_row, access, error>>

Span(n) == 0..(n - 1)

----------------------------------------------------------------------------
\* request_virt_sarray, request_virt_barray: an array nobody has written to.
Requested ==
    /\ array \in Requests
    /\ cur_start_row = 0 /\ first_undef_row = 0 /\ dirty = FALSE

\* realize_virt_arrays: the array gets max_minheights times maxaccess rows, or all
\* of them if these are not more.
minheights(a) == (a.numrows - 1) \div a.maxaccess + 1

\* Faulty: the number of strips is rounded down.
Realized_Floor(max_minheights) ==
    /\ b_s_open = (array.numrows \div array.maxaccess > max_minheights)
    /\ rows_in_mem = IF max_minheights * array.maxaccess < array.numrows
                     THEN max_minheights * array.maxaccess ELSE array.numrows
    /\ mem_buffer = [i \in Span(rows_in_mem) |-> Garbage]
    /\ file = [r \in Span(array.numrows) |-> Garbage]

Realized(max_minheights) ==
    /\ b_s_open = (minheights(array) > max_minheights)
    /\ rows_in_mem = IF b_s_open THEN max_minheights * array.maxaccess
                     ELSE array.numrows
    /\ mem_buffer = [i \in Span(rows_in_mem) |-> Garbage]
    /\ file = [r \in Span(array.numrows) |-> Garbage]

Init ==
    /\ Requested
    /\ \E m \in MaxMinheights : Realized(m)
    /\ strip = {} /\ writable = FALSE
    /\ error = FALSE

----------------------------------------------------------------------------
\* do_sarray_io, do_barray_io: what is transferred when the window is at a row are
\* the rows that are defined and in the file; chunk by chunk, until there are none.
Transferred(at) ==
    {i \in Span(rows_in_mem) : at + i < first_undef_row /\ at + i < array.numrows}

\* The backing store after the window has been written out, if it was changed.
Flushed ==
    IF ~dirty THEN file
    ELSE [r \in Span(array.numrows) |->
            IF r - cur_start_row \in Transferred(cur_start_row)
            THEN mem_buffer[r - cur_start_row] ELSE file[r]]

\* The window after it has been read in at another place.
Loaded(at) ==
    [i \in Span(rows_in_mem) |->
        IF i \in Transferred(at) THEN Flushed[at + i] ELSE mem_buffer[i]]

InWindow(start, end) ==
    start >= cur_start_row /\ end <= cur_start_row + rows_in_mem

\* Forwards the window begins with the strip, backwards it ends with it.
Target(start, end) ==
    IF start > cur_start_row THEN start
    ELSE IF end < rows_in_mem THEN 0 ELSE end - rows_in_mem

\* Faulty: nothing is zeroed when rows before the strip are undefined.
Zeroed_NotAhead(buffer, at, start, end) ==
    IF ~array.pre_zero \/ first_undef_row < start THEN buffer
    ELSE [i \in Span(rows_in_mem) |->
            IF at + i >= first_undef_row /\ at + i < end THEN Zero ELSE buffer[i]]

\* The rows of the strip that nobody has defined are set to zero.
Zeroed(buffer, at, start, end) ==
    IF ~array.pre_zero THEN buffer
    ELSE [i \in Span(rows_in_mem) |->
            IF at + i >= first_undef_row /\ at + i >= start /\ at + i < end
            THEN Zero ELSE buffer[i]]

OutOfBounds(start, num) == start + num > array.numrows \/ num > array.maxaccess

\* A writer skips over a section, or a reader looks at undefined data.
Undefined(start, end, write) ==
    \/ first_undef_row < start /\ write
    \/ first_undef_row < end /\ ~write /\ ~array.pre_zero

\* The strip is in the window, or the window is moved to it.
Reach(start, end) ==
    IF InWindow(start, end)
    THEN [at |-> cur_start_row, buffer |-> mem_buffer, file |-> file,
          dirty |-> dirty]
    ELSE [at |-> Target(start, end), buffer |-> Loaded(Target(start, end)),
          file |-> Flushed, dirty |-> FALSE]

\* access_virt_sarray, access_virt_barray as far as they return the strip.
Access(start, num, write) ==
    LET end == start + num
        r == Reach(start, end)
    IN  /\ ~error /\ ~OutOfBounds(start, num)
        /\ InWindow(start, end) \/ b_s_open
        /\ ~Undefined(start, end, write)
        /\ cur_start_row' = r.at
        /\ mem_buffer' = Zeroed(r.buffer, r.at, start, end)
        /\ file' = r.file
        /\ first_undef_row' =
              IF write /\ first_undef_row < end THEN end ELSE first_undef_row
        /\ dirty' = (write \/ r.dirty)
        /\ strip' = start..(end - 1) /\ writable' = write
        /\ UNCHANGED <<size, error>>

Fail ==
    /\ error' = TRUE
    /\ strip' = {} /\ writable' = FALSE
    /\ UNCHANGED <<size, first_undef_row>>

\* JERR_BAD_VIRTUAL_ACCESS: before the window is moved, or after that.
BadAccess(start, num, write) ==
    LET end == start + num
        r == Reach(start, end)
    IN  /\ ~error
        /\ \/ OutOfBounds(start, num) /\ UNCHANGED window
           \/ /\ ~OutOfBounds(start, num)
              /\ InWindow(start, end) \/ b_s_open
              /\ Undefined(start, end, write)
              /\ cur_start_row' = r.at /\ mem_buffer' = r.buffer
              /\ file' = r.file /\ dirty' = r.dirty
        /\ Fail

\* JERR_VIRTUAL_BUG: the strip is not in memory and there is no backing store.
VirtualBug(start, num) ==
    /\ ~OutOfBounds(start, num)
    /\ ~InWindow(start, start + num) /\ ~b_s_open

\* The caller stores through the pointer it was given.
Store(r, v) ==
    /\ ~error /\ writable /\ r \in strip
    /\ mem_buffer' = [mem_buffer EXCEPT ![r - cur_start_row] = v]
    /\ UNCHANGED <<size, file, cur_start_row, dirty, first_undef_row, access, error>>

\* Bound of the model: a request for one row or one strip too many is enough.
Starts == 0..array.numrows
Nums == 1..(array.maxaccess + 1)

access_virt_sarray ==
    /\ array.kind = "samples"
    /\ \E start \in Starts, num \in Nums, write \in BOOLEAN :
          Access(start, num, write) \/ BadAccess(start, num, write)

access_virt_barray ==
    /\ array.kind = "blocks"
    /\ \E start \in Starts, num \in Nums, write \in BOOLEAN :
          Access(start, num, write) \/ BadAccess(start, num, write)

Next ==
    \/ access_virt_sarray
    \/ access_virt_barray
    \/ \E r \in Span(array.numrows), v \in Values : Store(r, v)

Spec == Init /\ [][Next]_vars

----------------------------------------------------------------------------
\* What each variable holds, and how the window lies over the array.
VirtualTypeOK ==
    /\ array \in Requests
    /\ rows_in_mem \in Nat \ {0} /\ b_s_open \in BOOLEAN
    /\ mem_buffer \in [Span(rows_in_mem) -> Values]
    /\ file \in [Span(array.numrows) -> Values]
    /\ cur_start_row \in Nat /\ first_undef_row \in 0..array.numrows
    /\ dirty \in BOOLEAN /\ writable \in BOOLEAN /\ error \in BOOLEAN
    /\ strip \subseteq cur_start_row..(cur_start_row + rows_in_mem - 1)

\* The error the manager has for a bug of its own (jmemmgr.c:775) is never the
\* answer to an access: without a backing store all rows are in the window.
NoVirtualBug ==
    ~error => \A start \in Starts, num \in Nums : ~VirtualBug(start, num)

\* What the window holds without being dirty need not be written out: the backing
\* store has the same, or moving the window (jmemmgr.c:777-781) loses rows.
CleanIsInFile ==
    ~dirty => \A i \in Transferred(cur_start_row) :
                 mem_buffer[i] = file[cur_start_row + i]

\* The rows as a caller sees them, wherever they are.
rows == [r \in Span(first_undef_row) |->
            IF r - cur_start_row \in Span(rows_in_mem)
            THEN mem_buffer[r - cur_start_row] ELSE file[r]]

view == [r \in strip |-> mem_buffer[r - cur_start_row]]

Rows == INSTANCE RowStore

\* The window and the backing store are together rows that keep what was stored,
\* in whatever order they are accessed, and undefined rows are zero or an error.
IsRowStore == Rows!Spec
=============================================================================
