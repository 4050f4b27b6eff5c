-------------------------- MODULE VirtualArrayProofs -------------------------
(***************************************************************************)
(* Proofs about module VirtualArray, for arrays and windows of every size: *)
(* the window and its backing store implement RowStore, and the manager    *)
(* never meets the error it has for a bug of its own.                      *)
(***************************************************************************)
EXTENDS VirtualArray, TLAPS

\* The window lies in the array's memory: all of it, or room for any strip.
Sized ==
    /\ b_s_open => rows_in_mem >= array.maxaccess
    /\ ~b_s_open => rows_in_mem = array.numrows /\ cur_start_row = 0

\* A strip that may be written is defined, and its window will be written out.
StripDefined ==
    /\ strip \subseteq Span(array.numrows)
    /\ writable => dirty /\ \A r \in strip : r < first_undef_row

\* The inductive invariant.
IInv == VirtualTypeOK /\ Sized /\ CleanIsInFile /\ StripDefined

\* What realize_virt_arrays finds in the request (jmemmgr.c:614-654).
LEMMA RequestType ==
    array \in Requests =>
        /\ array.numrows \in Nat \ {0}
        /\ array.maxaccess \in Nat \ {0}
        /\ array.pre_zero \in BOOLEAN
BY ArrayAssumption

\* A window of some strips less than all is not larger than the array.
LEMMA WindowFits ==
    ASSUME NEW n \in Nat \ {0}, NEW a \in Nat \ {0}, NEW m \in Nat \ {0}
    PROVE  m * a \in Nat \ {0} /\ m * a >= a
<1>1. m * a \in Nat
    OBVIOUS
<1>2. m * a >= a
    <2>1. m >= 1
        OBVIOUS
    <2>2. m * a = (m - 1) * a + a /\ (m - 1) * a >= 0
        BY <2>1
    <2> QED
        BY <2>2
<1> QED
    BY <1>1, <1>2

LEMMA InitIInv == Init => IInv
<1> SUFFICES ASSUME Init PROVE IInv
    OBVIOUS
<1> USE DEF Init, Requested
<1>1. array.numrows \in Nat \ {0} /\ array.maxaccess \in Nat \ {0}
    BY RequestType
<1>2. PICK m \in MaxMinheights : Realized(m)
    OBVIOUS
<1>3. m \in Nat \ {0}
    BY ArrayAssumption
<1>4. b_s_open \in BOOLEAN
    BY <1>2, ArrayAssumption DEF Realized
<1>5. m * array.maxaccess \in Nat \ {0} /\ m * array.maxaccess >= array.maxaccess
    BY <1>1, <1>3, WindowFits
<1>6. /\ rows_in_mem \in Nat \ {0}
      /\ b_s_open => rows_in_mem >= array.maxaccess
      /\ ~b_s_open => rows_in_mem = array.numrows
    BY <1>1, <1>2, <1>5 DEF Realized
<1>7. /\ mem_buffer \in [Span(rows_in_mem) -> Values]
      /\ file \in [Span(array.numrows) -> Values]
    BY <1>2, ArrayAssumption DEF Realized
<1>8. VirtualTypeOK
    <2>1. first_undef_row \in 0..array.numrows /\ cur_start_row \in Nat
        BY <1>1
    <2>2. dirty \in BOOLEAN /\ writable \in BOOLEAN /\ error \in BOOLEAN
        OBVIOUS
    <2> QED
        BY <1>4, <1>6, <1>7, <2>1, <2>2 DEF VirtualTypeOK
<1>9. CleanIsInFile
    BY <1>6 DEF CleanIsInFile, Transferred, Span
<1> QED
    BY <1>6, <1>8, <1>9 DEF IInv, Sized, StripDefined

----------------------------------------------------------------------------
\* Writing the window out puts every defined row where the caller would find it
\* (do_sarray_io, jmemmgr.c:690-718).
LEMMA FlushedHasRows ==
    ASSUME IInv
    PROVE  /\ Flushed \in [Span(array.numrows) -> Values]
           /\ \A q \in Span(first_undef_row) : Flushed[q] = rows[q]
<1> USE DEF IInv, VirtualTypeOK, Span
<1>1. array.numrows \in Nat \ {0}
    BY RequestType
<1>2. CASE dirty
    <2>1. Flushed = [r \in Span(array.numrows) |->
                       IF r - cur_start_row \in Transferred(cur_start_row)
                       THEN mem_buffer[r - cur_start_row] ELSE file[r]]
        BY <1>2 DEF Flushed
    <2>2. Transferred(cur_start_row) \subseteq Span(rows_in_mem)
        BY DEF Transferred
    <2>3. Flushed \in [Span(array.numrows) -> Values]
        BY <2>1, <2>2
    <2>4. ASSUME NEW q \in Span(first_undef_row)
          PROVE  Flushed[q] = rows[q]
        <3>1. q \in Span(array.numrows) /\ q < first_undef_row /\ q < array.numrows
            BY <1>1
        <3>2. q - cur_start_row \in Transferred(cur_start_row)
              <=> q - cur_start_row \in Span(rows_in_mem)
            BY <3>1 DEF Transferred
        <3> QED
            BY <2>1, <3>1, <3>2 DEF rows
    <2> QED
        BY <2>3, <2>4
<1>3. CASE ~dirty
    <2>1. Flushed = file
        BY <1>3 DEF Flushed
    <2>2. ASSUME NEW q \in Span(first_undef_row)
          PROVE  file[q] = rows[q]
        <3>1. CASE q - cur_start_row \in Span(rows_in_mem)
            <4>1. q - cur_start_row \in Transferred(cur_start_row)
                BY <1>1, <3>1 DEF Transferred
            <4>2. mem_buffer[q - cur_start_row] = file[cur_start_row + (q - cur_start_row)]
                BY <1>3, <4>1 DEF CleanIsInFile
            <4>3. cur_start_row + (q - cur_start_row) = q
                BY <1>1
            <4> QED
                BY <3>1, <4>2, <4>3 DEF rows
        <3>2. CASE q - cur_start_row \notin Span(rows_in_mem)
            BY <3>2 DEF rows
        <3> QED
            BY <3>1, <3>2
    <2> QED
        BY <2>1, <2>2
<1> QED
    BY <1>2, <1>3

\* What Reach(start, end) answers, whether or not the window moves: the strip is
\* in it, no row has changed, and a clean window is the same as the file
\* (jmemmgr.c:771-803).
Reached(r, start, end) ==
    /\ r.at \in Nat /\ r.dirty \in BOOLEAN
    /\ r.buffer \in [Span(rows_in_mem) -> Values]
    /\ r.file \in [Span(array.numrows) -> Values]
    /\ r.at <= start /\ end <= r.at + rows_in_mem
    /\ ~b_s_open => r.at = 0
    /\ ~r.dirty => \A i \in Transferred(r.at) : r.buffer[i] = r.file[r.at + i]
    /\ \A q \in Span(first_undef_row) :
          rows[q] = IF q - r.at \in Span(rows_in_mem) THEN r.buffer[q - r.at]
                    ELSE r.file[q]

LEMMA ReachKeepsRows ==
    ASSUME IInv, NEW start \in Nat, NEW num \in Nat \ {0},
           ~OutOfBounds(start, num),
           InWindow(start, start + num) \/ b_s_open
    PROVE  Reached(Reach(start, start + num), start, start + num)
<1> DEFINE end == start + num
           r == Reach(start, end)
<1> USE DEF IInv, VirtualTypeOK, Span
<1>1. /\ array.numrows \in Nat \ {0} /\ array.maxaccess \in Nat \ {0}
      /\ end \in Nat /\ start < end /\ end <= array.numrows
      /\ num <= array.maxaccess
    BY RequestType DEF OutOfBounds
<1>2. CASE InWindow(start, end)
    <2>1. /\ r.at = cur_start_row /\ r.buffer = mem_buffer
          /\ r.file = file /\ r.dirty = dirty
        BY <1>2 DEF Reach
    <2>2. r.at <= start /\ end <= r.at + rows_in_mem
        BY <1>2, <2>1 DEF InWindow
    <2>3. ~b_s_open => r.at = 0
        BY <2>1 DEF Sized
    <2>4. ~r.dirty => \A i \in Transferred(r.at) : r.buffer[i] = r.file[r.at + i]
        BY <2>1 DEF CleanIsInFile
    <2>5. ASSUME NEW q \in Span(first_undef_row)
          PROVE  rows[q] = IF q - r.at \in Span(rows_in_mem) THEN r.buffer[q - r.at]
                           ELSE r.file[q]
        BY <2>1 DEF rows
    <2> HIDE DEF r, end
    <2>6. Reached(r, start, end)
        BY <2>1, <2>2, <2>3, <2>4, <2>5 DEF Reached
    <2> QED
        BY <2>6 DEF r, end
<1>3. CASE ~InWindow(start, end)
    <2> DEFINE at == Target(start, end)
    <2>1. /\ r.at = at /\ r.buffer = Loaded(at)
          /\ r.file = Flushed /\ r.dirty = FALSE
        BY <1>3 DEF Reach
    <2>2. b_s_open /\ rows_in_mem >= num
        BY <1>1, <1>3 DEF Sized
    <2>3. at \in Nat /\ at <= start /\ end <= at + rows_in_mem
        BY <1>1, <1>3, <2>2 DEF Target, InWindow
    <2>4. /\ Flushed \in [Span(array.numrows) -> Values]
          /\ \A q \in Span(first_undef_row) : Flushed[q] = rows[q]
        BY FlushedHasRows
    <2> HIDE DEF at
    <2>5. \A i \in Transferred(at) :
              i \in Span(rows_in_mem) /\ at + i \in Span(array.numrows)
        BY <1>1, <2>3 DEF Transferred
    <2>6. Loaded(at) \in [Span(rows_in_mem) -> Values]
        BY <2>4, <2>5 DEF Loaded
    <2>7. \A i \in Transferred(at) : Loaded(at)[i] = Flushed[at + i]
        BY <2>5 DEF Loaded
    <2>8. ASSUME NEW q \in Span(first_undef_row)
          PROVE  rows[q] = IF q - at \in Span(rows_in_mem) THEN Loaded(at)[q - at]
                           ELSE Flushed[q]
        <3>1. CASE q - at \in Span(rows_in_mem)
            <4>1. q - at \in Transferred(at) /\ at + (q - at) = q
                BY <1>1, <2>3, <3>1 DEF Transferred
            <4> QED
                BY <2>4, <2>7, <3>1, <4>1
        <3>2. CASE q - at \notin Span(rows_in_mem)
            BY <2>4, <3>2
        <3> QED
            BY <3>1, <3>2
    <2> HIDE DEF r, end
    <2>9. Reached(r, start, end)
        BY <2>1, <2>2, <2>3, <2>4, <2>6, <2>7, <2>8 DEF Reached
    <2> QED
        BY <2>9 DEF r, end
<1> QED
    BY <1>2, <1>3

----------------------------------------------------------------------------
\* The buffer after the undefined rows of the strip were set to zero
\* (jmemmgr.c:820-828).
LEMMA ZeroedRows ==
    ASSUME IInv, NEW at \in Nat, NEW start \in Nat, NEW end \in Nat,
           NEW buffer \in [Span(rows_in_mem) -> Values]
    PROVE  /\ Zeroed(buffer, at, start, end) \in [Span(rows_in_mem) -> Values]
           /\ \A i \in Span(rows_in_mem) :
                 Zeroed(buffer, at, start, end)[i] =
                    IF /\ array.pre_zero
                       /\ at + i >= first_undef_row /\ at + i >= start /\ at + i < end
                    THEN Zero ELSE buffer[i]
<1>1. CASE array.pre_zero
    BY <1>1, ArrayAssumption DEF Zeroed
<1>2. CASE ~array.pre_zero
    BY <1>2 DEF Zeroed
<1> QED
    BY <1>1, <1>2

\* An initial segment of the rows.
LEMMA SpanWithin ==
    ASSUME NEW m \in Nat, NEW n \in Nat, m <= n, NEW q \in 0..(m - 1)
    PROVE  q \in 0..(n - 1) /\ q \in Nat /\ q < m
OBVIOUS

\* One action at a time: the invariant, and the step of RowStore it is.
LEMMA AccessStep ==
    ASSUME IInv, NEW start \in Nat, NEW num \in Nat \ {0}, NEW write \in BOOLEAN,
           Access(start, num, write)
    PROVE  IInv' /\ Rows!Access(start, num, write)
<1> DEFINE end == start + num
           r == Reach(start, end)
<1>1. /\ ~error /\ ~OutOfBounds(start, num)
      /\ InWindow(start, end) \/ b_s_open
      /\ ~Undefined(start, end, write)
    BY DEF Access
<1>2. /\ cur_start_row' = r.at
      /\ mem_buffer' = Zeroed(r.buffer, r.at, start, end)
      /\ file' = r.file
      /\ first_undef_row' =
            IF write /\ first_undef_row < end THEN end ELSE first_undef_row
    BY DEF Access
<1>3. /\ strip' = start..(end - 1) /\ UNCHANGED <<array, rows_in_mem>>
    BY DEF Access, size
<1>4. (dirty' <=> (write \/ r.dirty)) /\ (writable' <=> write)
    BY DEF Access
<1>5. UNCHANGED <<b_s_open, error>>
    BY DEF Access, size
<1>6. Reached(r, start, end)
    BY <1>1, ReachKeepsRows
<1>7. /\ array.numrows \in Nat \ {0} /\ array.maxaccess \in Nat \ {0}
      /\ array.pre_zero \in BOOLEAN
      /\ end \in Nat /\ start < end /\ end <= array.numrows
    BY <1>1, RequestType DEF OutOfBounds, IInv, VirtualTypeOK
<1> HIDE DEF r
<1>8. /\ first_undef_row \in Nat /\ first_undef_row' \in Nat
      /\ first_undef_row <= first_undef_row' /\ first_undef_row' <= array.numrows
      /\ write => end <= first_undef_row'
      /\ ~write => first_undef_row' = first_undef_row
    BY <1>2, <1>7 DEF IInv, VirtualTypeOK
<1> HIDE DEF end
<1>9. /\ mem_buffer' \in [Span(rows_in_mem) -> Values]
      /\ \A i \in Span(rows_in_mem) :
            mem_buffer'[i] =
               IF /\ array.pre_zero
                  /\ r.at + i >= first_undef_row /\ r.at + i >= start /\ r.at + i < end
               THEN Zero ELSE r.buffer[i]
    BY <1>2, <1>6, <1>7, ZeroedRows DEF Reached
<1>10. VirtualTypeOK'
    <2>1. /\ array' \in Requests /\ rows_in_mem' \in Nat \ {0}
          /\ mem_buffer' \in [Span(rows_in_mem') -> Values]
          /\ file' \in [Span(array'.numrows) -> Values]
        BY <1>2, <1>3, <1>6, <1>9 DEF IInv, VirtualTypeOK, Reached
    <2>2. /\ cur_start_row' \in Nat
          /\ first_undef_row' \in 0..array'.numrows
          /\ strip' \subseteq cur_start_row'..(cur_start_row' + rows_in_mem' - 1)
        BY <1>2, <1>3, <1>6, <1>7, <1>8 DEF IInv, VirtualTypeOK, Reached
    <2>3. b_s_open' \in BOOLEAN /\ error' \in BOOLEAN
        BY <1>5 DEF IInv, VirtualTypeOK
    <2>4. dirty' \in BOOLEAN /\ writable' \in BOOLEAN
        BY DEF Access
    <2> QED
        BY <2>1, <2>2, <2>3, <2>4 DEF VirtualTypeOK
<1>11. Sized'
    BY <1>2, <1>3, <1>5, <1>6 DEF IInv, Sized, Reached
<1>12. CleanIsInFile'
    <2> SUFFICES ASSUME ~dirty', NEW i \in Transferred(cur_start_row)'
                 PROVE  mem_buffer'[i] = file'[cur_start_row' + i]
        BY DEF CleanIsInFile
    <2>1. ~write /\ ~r.dirty
        BY <1>4
    <2>2. i \in Span(rows_in_mem) /\ r.at + i < first_undef_row
          /\ i \in Transferred(r.at)
        BY <1>2, <1>3, <1>8, <2>1 DEF Transferred
    <2>3. mem_buffer'[i] = r.buffer[i]
        BY <1>6, <1>8, <1>9, <2>2 DEF Reached, Span, IInv, VirtualTypeOK
    <2> QED
        BY <1>2, <1>6, <2>1, <2>2, <2>3 DEF Reached
<1>13. StripDefined'
    <2>1. strip' \subseteq Span(array'.numrows)
        BY <1>3, <1>7 DEF Span
    <2>2. ASSUME writable' PROVE dirty' /\ \A q \in strip' : q < first_undef_row'
        BY <1>3, <1>4, <1>7, <1>8, <2>2
    <2> QED
        BY <2>1, <2>2 DEF StripDefined
<1>14. ASSUME NEW q, q \in Span(first_undef_row')
       PROVE  /\ rows'[q] = IF q - r.at \in Span(rows_in_mem)
                            THEN mem_buffer'[q - r.at] ELSE r.file[q]
              /\ rows'[q] \in Values
              /\ q < first_undef_row => rows'[q] = rows[q]
              /\ q >= first_undef_row /\ array.pre_zero => rows'[q] = Zero
    <2>1. rows'[q] = IF q - r.at \in Span(rows_in_mem)
                     THEN mem_buffer'[q - r.at] ELSE r.file[q]
        BY <1>2, <1>3, <1>14 DEF rows
    <2>2. q \in Span(array.numrows) /\ q \in Nat /\ q < first_undef_row'
        <3>1. q \in 0..(first_undef_row' - 1)
            BY <1>14 DEF Span
        <3>2. first_undef_row' \in Nat /\ first_undef_row' <= array.numrows
            BY <1>8
        <3> QED
            BY <1>7, <3>1, <3>2, SpanWithin DEF Span
    <2>3. rows'[q] \in Values
        BY <1>6, <1>9, <2>1, <2>2 DEF Reached
    <2>4. ASSUME q < first_undef_row PROVE rows'[q] = rows[q]
        <3>1. q \in Span(first_undef_row)
            BY <1>8, <2>2, <2>4 DEF Span
        <3>2. CASE q - r.at \in Span(rows_in_mem)
            <4>1. mem_buffer'[q - r.at] = r.buffer[q - r.at]
                BY <1>6, <1>8, <1>9, <2>2, <2>4, <3>2 DEF Reached
            <4> QED
                BY <1>6, <2>1, <3>1, <3>2, <4>1 DEF Reached
        <3>3. CASE q - r.at \notin Span(rows_in_mem)
            BY <1>6, <2>1, <3>1, <3>3 DEF Reached
        <3> QED
            BY <3>2, <3>3
    <2>5. ASSUME q >= first_undef_row, array.pre_zero PROVE rows'[q] = Zero
        <3>1. write /\ first_undef_row' = end
            BY <1>2, <1>8, <2>2, <2>5
        <3>2. first_undef_row >= start
            BY <1>1, <1>8, <3>1 DEF Undefined
        <3>3. q - r.at \in Span(rows_in_mem) /\ r.at + (q - r.at) = q
            BY <1>6, <1>7, <1>8, <2>2, <2>5, <3>1, <3>2
               DEF Reached, Span, IInv, VirtualTypeOK
        <3>4. q < end
            BY <2>2, <3>1
        <3>5. q >= start
            BY <1>8, <2>2, <2>5, <3>2
        <3>6. mem_buffer'[q - r.at] = Zero
            BY <1>9, <2>5, <3>3, <3>4, <3>5
        <3> QED
            BY <2>1, <3>3, <3>6
    <2> QED
        BY <2>1, <2>3, <2>4, <2>5
<1>15. rows' \in [0..(first_undef_row' - 1) -> Values]
    <2>1. rows' = [q \in Span(first_undef_row') |-> rows'[q]]
        BY DEF rows
    <2> QED
        BY <1>14, <2>1 DEF Span
<1>16. view' = [q \in strip' |-> IF q < first_undef_row' THEN rows'[q] ELSE Zero]
    <2>1. view' = [q \in strip' |-> mem_buffer'[q - cur_start_row']]
        BY DEF view
    <2>2. ASSUME NEW q \in strip'
          PROVE  mem_buffer'[q - cur_start_row'] =
                    IF q < first_undef_row' THEN rows'[q] ELSE Zero
        <3>1. q \in Nat /\ start <= q /\ q < end
            BY <1>3, <1>7
        <3>2. q - r.at \in Span(rows_in_mem) /\ r.at + (q - r.at) = q
            BY <1>6, <1>7, <3>1 DEF Reached, Span, IInv, VirtualTypeOK
        <3>3. CASE q < first_undef_row'
            BY <1>2, <1>8, <1>14, <3>1, <3>2, <3>3 DEF Span
        <3>4. CASE q >= first_undef_row'
            <4>1. ~write /\ first_undef_row < end /\ q >= first_undef_row
                BY <1>7, <1>8, <3>1, <3>4
            <4>2. array.pre_zero
                BY <1>1, <4>1 DEF Undefined
            <4> QED
                BY <1>2, <1>8, <1>9, <3>1, <3>2, <3>4, <4>1, <4>2
        <3> QED
            BY <1>8, <3>1, <3>3, <3>4
    <2> QED
        BY <2>1, <2>2
<1>17. Rows!Access(start, num, write)
    <2>1. /\ start + num <= array.numrows /\ num <= array.maxaccess
        BY <1>1, <1>7 DEF OutOfBounds, IInv, VirtualTypeOK
    <2>2. /\ write => first_undef_row >= start
          /\ ~array.pre_zero /\ ~write => first_undef_row >= start + num
        BY <1>1, <1>7, <1>8 DEF Undefined, end
    <2>3. first_undef_row' = IF write THEN Rows!Grown(start + num) ELSE first_undef_row
        BY <1>2 DEF Rows!Grown, end
    <2>4. \A q \in 0..(first_undef_row' - 1) :
             IF q < first_undef_row THEN rows'[q] = rows[q]
             ELSE array.pre_zero => rows'[q] = Zero
        <3> SUFFICES ASSUME NEW q, q \in Span(first_undef_row')
                     PROVE  IF q < first_undef_row THEN rows'[q] = rows[q]
                            ELSE array.pre_zero => rows'[q] = Zero
            BY DEF Span
        <3>1. q \in Nat
            BY <1>8, SpanWithin DEF Span
        <3> QED
            BY <1>8, <1>14, <3>1
    <2>5. strip' = start..(start + num - 1)
        BY <1>3 DEF end
    <2>6. writable' = write
        BY DEF Access
    <2>7. UNCHANGED <<array, error>>
        BY <1>3, <1>5
    <2> QED
        BY <1>1, <1>15, <1>16, <2>1, <2>2, <2>3, <2>4, <2>5, <2>6, <2>7
           DEF Rows!Access
<1> QED
    BY <1>10, <1>11, <1>12, <1>13, <1>17 DEF IInv

LEMMA BadAccessStep ==
    ASSUME IInv, NEW start \in Nat, NEW num \in Nat \ {0}, NEW write \in BOOLEAN,
           BadAccess(start, num, write)
    PROVE  IInv' /\ Rows!BadAccess(start, num, write)
<1> DEFINE end == start + num
           r == Reach(start, end)
<1>1. /\ error' = TRUE /\ strip' = {} /\ writable' = FALSE
      /\ UNCHANGED <<array, rows_in_mem, b_s_open, first_undef_row>>
    BY DEF BadAccess, Fail, size
<1>2. ~error
    BY DEF BadAccess
<1>3. array.numrows \in Nat \ {0} /\ array.maxaccess \in Nat \ {0}
      /\ first_undef_row \in Nat /\ first_undef_row <= array.numrows
    BY RequestType DEF IInv, VirtualTypeOK
<1>4. view' = Rows!NoRows
    BY <1>1 DEF view, Rows!NoRows
<1>5. \/ start + num > array.numrows
      \/ num > array.maxaccess
      \/ write /\ first_undef_row < start
      \/ ~write /\ ~array.pre_zero /\ first_undef_row < start + num
    BY DEF BadAccess, OutOfBounds, Undefined
<1>6. VirtualTypeOK' /\ Sized' /\ CleanIsInFile' /\ rows' = rows
    <2>1. CASE UNCHANGED window
        <3>1. VirtualTypeOK'
            BY <1>1, <2>1 DEF IInv, VirtualTypeOK, window, Span
        <3>2. Sized' /\ CleanIsInFile' /\ rows' = rows
            BY <1>1, <2>1
               DEF IInv, Sized, CleanIsInFile, Transferred, Span, rows, window
        <3> QED
            BY <3>1, <3>2
    <2>2. CASE /\ ~OutOfBounds(start, num)
               /\ InWindow(start, end) \/ b_s_open
               /\ cur_start_row' = r.at /\ mem_buffer' = r.buffer
               /\ file' = r.file /\ dirty' = r.dirty
        <3>1. Reached(r, start, end)
            BY <2>2, ReachKeepsRows
        <3> HIDE DEF r, end
        <3>2. VirtualTypeOK'
            BY <1>1, <2>2, <3>1 DEF IInv, VirtualTypeOK, Reached, Span
        <3>3. Sized'
            BY <1>1, <2>2, <3>1 DEF IInv, Sized, Reached
        <3>4. CleanIsInFile'
            BY <1>1, <2>2, <3>1 DEF CleanIsInFile, Transferred, Span, Reached
        <3>5. rows' = rows
            <4>1. rows' = [q \in Span(first_undef_row) |->
                             IF q - r.at \in Span(rows_in_mem)
                             THEN r.buffer[q - r.at] ELSE r.file[q]]
                BY <1>1, <2>2 DEF rows
            <4> QED
                BY <3>1, <4>1 DEF Reached, rows
        <3> QED
            BY <3>2, <3>3, <3>4, <3>5
    <2> QED
        BY <2>1, <2>2 DEF BadAccess
<1>7. StripDefined'
    BY <1>1 DEF StripDefined
<1> QED
    BY <1>1, <1>2, <1>4, <1>5, <1>6, <1>7 DEF IInv, Rows!BadAccess

LEMMA StoreStep ==
    ASSUME IInv, NEW q, NEW v \in Values, Store(q, v)
    PROVE  IInv' /\ Rows!Store(q, v)
<1> USE DEF IInv, VirtualTypeOK, Span
<1>1. /\ ~error /\ writable /\ q \in strip
      /\ mem_buffer' = [mem_buffer EXCEPT ![q - cur_start_row] = v]
      /\ UNCHANGED <<array, rows_in_mem, b_s_open, file, cur_start_row, dirty,
                     first_undef_row, strip, writable, error>>
    BY DEF Store, size, access
<1>2. /\ q \in Span(first_undef_row) /\ q - cur_start_row \in Span(rows_in_mem)
      /\ dirty
    BY <1>1 DEF StripDefined
<1>3. VirtualTypeOK'
    BY <1>1
<1>4. Sized' /\ StripDefined'
    BY <1>1 DEF Sized, StripDefined
<1>5. CleanIsInFile'
    BY <1>1, <1>2 DEF CleanIsInFile
<1>6. rows' = [rows EXCEPT ![q] = v]
    <2>1. rows' = [p \in Span(first_undef_row) |->
                     IF p - cur_start_row \in Span(rows_in_mem)
                     THEN mem_buffer'[p - cur_start_row] ELSE file[p]]
        BY <1>1 DEF rows
    <2>2. ASSUME NEW p \in Span(first_undef_row)
          PROVE  (IF p - cur_start_row \in Span(rows_in_mem)
                  THEN mem_buffer'[p - cur_start_row] ELSE file[p])
                 = IF p = q THEN v ELSE rows[p]
        BY <1>1, <1>2 DEF rows
    <2> QED
        BY <1>2, <2>1, <2>2 DEF rows
<1>7. view' = [view EXCEPT ![q] = v]
    <2>1. view' = [p \in strip |-> mem_buffer'[p - cur_start_row]]
        BY <1>1 DEF view
    <2>2. ASSUME NEW p \in strip
          PROVE  mem_buffer'[p - cur_start_row] = IF p = q THEN v ELSE view[p]
        BY <1>1, <1>2 DEF view
    <2> QED
        BY <1>1, <2>1, <2>2 DEF view
<1> QED
    BY <1>1, <1>3, <1>4, <1>5, <1>6, <1>7 DEF Rows!Store

----------------------------------------------------------------------------
LEMMA NextStep ==
    ASSUME IInv, [Next]_vars
    PROVE  IInv' /\ [Rows!Next]_(Rows!vars)
<1>1. /\ array.numrows \in Nat \ {0} /\ array.maxaccess \in Nat \ {0}
      /\ Starts \subseteq Nat /\ Nums \subseteq Nat \ {0}
    BY RequestType DEF IInv, VirtualTypeOK, Starts, Nums
<1>2. ASSUME NEW start \in Starts, NEW num \in Nums, NEW write \in BOOLEAN,
             Access(start, num, write) \/ BadAccess(start, num, write)
      PROVE  IInv' /\ Rows!Next
    <2>1. start \in Nat /\ num \in Nat \ {0}
        BY <1>1
    <2>2. IInv' /\ (Rows!Access(start, num, write) \/ Rows!BadAccess(start, num, write))
        BY <1>2, <2>1, AccessStep, BadAccessStep
    <2> QED
        BY <2>2 DEF Rows!Next, Rows!Starts, Rows!Nums, Starts, Nums
<1>3. ASSUME NEW q \in Span(array.numrows), NEW v \in Values, Store(q, v)
      PROVE  IInv' /\ Rows!Next
    BY <1>3, StoreStep DEF Rows!Next, Span
<1>4. CASE UNCHANGED vars
    <2>1. UNCHANGED <<array, rows_in_mem, b_s_open, mem_buffer, file, cur_start_row,
                      dirty, first_undef_row, strip, writable, error>>
        BY <1>4 DEF vars, size, window, access
    <2>2. VirtualTypeOK'
        BY <2>1 DEF IInv, VirtualTypeOK, Span
    <2>3. Sized' /\ CleanIsInFile' /\ StripDefined'
        BY <2>1 DEF IInv, Sized, CleanIsInFile, StripDefined, Transferred, Span
    <2>4. UNCHANGED Rows!vars
        BY <2>1 DEF Rows!vars, rows, view, Span
    <2> QED
        BY <2>2, <2>3, <2>4 DEF IInv
<1> QED
    BY <1>2, <1>3, <1>4 DEF Next, access_virt_sarray, access_virt_barray

LEMMA InitStep == Init => Rows!Init
BY RequestType DEF Init, Requested, Rows!Init, Rows!NoRows, rows, view, Span

LEMMA SpecIInv == Spec => []IInv
<1>1. Init => IInv
    BY InitIInv
<1>2. IInv /\ [Next]_vars => IInv'
    BY NextStep
<1> QED
    BY <1>1, <1>2, PTL DEF Spec

\* Whatever the sizes, the strip the caller was given lies in the window and the
\* window in the array (access_virt_sarray, jmemmgr.c:756-838).
THEOREM VirtualTypeCorrect == Spec => []VirtualTypeOK
<1>1. IInv => VirtualTypeOK
    BY DEF IInv
<1> QED
    BY <1>1, SpecIInv, PTL

\* Whatever the sizes, JERR_VIRTUAL_BUG (jmemmgr.c:775) is not reached.
THEOREM VirtualBugUnreachable == Spec => []NoVirtualBug
<1>1. IInv => NoVirtualBug
    <2> SUFFICES ASSUME IInv, ~b_s_open, NEW start \in Starts, NEW num \in Nums,
                        ~OutOfBounds(start, num)
                 PROVE  InWindow(start, start + num)
        BY DEF NoVirtualBug, VirtualBug
    <2>1. array.numrows \in Nat \ {0} /\ array.maxaccess \in Nat \ {0}
        BY RequestType DEF IInv, VirtualTypeOK
    <2>2. rows_in_mem = array.numrows /\ cur_start_row = 0
        BY DEF IInv, Sized
    <2> QED
        BY <2>1, <2>2 DEF InWindow, OutOfBounds, Starts, Nums
<1> QED
    BY <1>1, SpecIInv, PTL

\* Whatever the sizes, a window that is not dirty can be left without writing it
\* out (jmemmgr.c:777-781).
THEOREM CleanWindowInFile == Spec => []CleanIsInFile
<1>1. IInv => CleanIsInFile
    BY DEF IInv
<1> QED
    BY <1>1, SpecIInv, PTL

\* Whatever the sizes and the order of the accesses, the window and the backing
\* store implement rows that keep what was stored in them.
THEOREM VirtualArrayIsRowStore == Spec => IsRowStore
<1>1. Init => Rows!Init
    BY InitStep
<1>2. IInv /\ [Next]_vars => [Rows!Next]_(Rows!vars)
    BY NextStep
<1> QED
    BY <1>1, <1>2, SpecIInv, PTL DEF Spec, IsRowStore, Rows!Spec
=============================================================================
