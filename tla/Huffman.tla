------------------------------- MODULE Huffman -------------------------------
(***************************************************************************)
(* The Huffman codes of jpeg-9a and the bits of a compressed segment:      *)
(* jchuff.c makes a table for the symbols that were counted, gives every   *)
(* symbol its code and packs codes into bytes; jdhuff.c refills a buffer   *)
(* of bits from the bytes that have arrived and finds the code in it.      *)
(***************************************************************************)
EXTENDS Integers, SequencesExt

CONSTANTS
    MAX_CLEN,           \* longest code before the limit is applied
    CodeLimit,          \* longest code of a JPEG table: 16
    HUFF_LOOKAHEAD,     \* bits of the lookahead table
    ByteSize,           \* bits of a byte: 8
    MIN_GET_BITS,       \* bits the buffer is refilled to
    Pseudo              \* the symbol that reserves a code: 256

ASSUME HuffmanAssumption ==
    /\ {MAX_CLEN, CodeLimit, HUFF_LOOKAHEAD, ByteSize, MIN_GET_BITS, Pseudo} \subseteq Nat
    /\ 0 < HUFF_LOOKAHEAD /\ HUFF_LOOKAHEAD < CodeLimit /\ CodeLimit <= MAX_CLEN

Abs(v) == IF v < 0 THEN -v ELSE v
BitsOf(v, n) == [i \in 1..n |-> (v \div 2^(n - i)) % 2]
NumberOf(bits) == FoldLeft(LAMBDA v, b : 2 * v + b, 0, bits)
\* How many bits the magnitude of a coefficient takes.
NumberOfBits(v) == CHOOSE n \in 0..15 : v < 2^n /\ (n > 0 => 2^(n - 1) <= v)

----------------------------------------------------------------------------
(* jpeg_gen_optimal_table: a table for the symbols counted in freq.        *)

InUse(freq) == {s \in DOMAIN freq : freq[s] > 0}

\* The least frequent symbol of S, and the largest of these.
Rarest(freq, S) == CHOOSE c \in S : \A d \in S \ {c} :
                      freq[c] < freq[d] \/ (freq[c] = freq[d] /\ c > d)

\* Joins the two rarest branches of the tree: every symbol in them gets a bit.
Merge(tree, n) ==
    LET c1 == Rarest(tree.freq, InUse(tree.freq))
        c2 == Rarest(tree.freq, InUse(tree.freq) \ {c1})
        both == tree.branch[c1] \cup tree.branch[c2]
    IN  [freq |-> [tree.freq EXCEPT ![c1] = @ + tree.freq[c2], ![c2] = 0],
         branch |-> [tree.branch EXCEPT ![c1] = both],
         codesize |-> [s \in DOMAIN tree.codesize |->
                          tree.codesize[s] + (IF s \in both THEN 1 ELSE 0)]]

CodeSizes(freq) ==
    LET all == [s \in InUse(freq) \cup {Pseudo} |-> IF s = Pseudo THEN 1 ELSE freq[s]]
        leaves == [freq |-> all, branch |-> [s \in DOMAIN all |-> {s}],
                   codesize |-> [s \in DOMAIN all |-> 0]]
    IN  FoldLeft(Merge, leaves, [n \in 1..Cardinality(InUse(freq)) |-> n]).codesize

CodesOfLength(codesize) ==
    [l \in 1..MAX_CLEN |-> Cardinality({s \in DOMAIN codesize : codesize[s] = l})]

\* Two codes of length i become one of i - 1 and a pair below a shorter code.
Shorten(bits, i) ==
    LET j == Max({l \in 1..(i - 2) : bits[l] > 0})
    IN  [bits EXCEPT ![i] = @ - 2, ![i - 1] = @ + 1, ![j + 1] = @ + 2, ![j] = @ - 1]

LimitLength(bits, i) ==
    FoldLeft(LAMBDA b, n : Shorten(b, i), bits, [n \in 1..(bits[i] \div 2) |-> n])

Limit(bits) ==
    FoldLeft(LimitLength, bits, [n \in 1..(MAX_CLEN - CodeLimit) |-> MAX_CLEN + 1 - n])

\* Takes the pseudo-symbol's code away from the longest ones.
Unreserve(bits) == [bits EXCEPT ![Max({l \in 1..CodeLimit : bits[l] > 0})] = @ - 1]

\* Faulty: by symbol instead of by length.
SortedBySize_Symbols(codesize) ==
    SetToSortSeq(DOMAIN codesize \ {Pseudo}, LAMBDA s, t : s < t)

SortedBySize(codesize) ==
    LET before(s, t) == codesize[s] < codesize[t] \/ (codesize[s] = codesize[t] /\ s < t)
    IN  SetToSortSeq(DOMAIN codesize \ {Pseudo}, before)

jpeg_gen_optimal_table(freq) ==
    LET codesize == CodeSizes(freq)
        bits == Unreserve(Limit(CodesOfLength(codesize)))
    IN  [bits |-> [l \in 1..CodeLimit |-> bits[l]], huffval |-> SortedBySize(codesize)]

----------------------------------------------------------------------------
(* jpeg_make_c_derived_tbl, jpeg_make_d_derived_tbl.                       *)

huffsize(htbl) == FoldLeft(LAMBDA sizes, l : sizes \o [n \in 1..htbl.bits[l] |-> l],
                           <<>>, [l \in 1..CodeLimit |-> l])

huffcode(sizes) ==
    FoldLeft(LAMBDA codes, p : Append(codes, IF p = 1 THEN 0
                 ELSE (codes[p - 1] + 1) * 2^(sizes[p] - sizes[p - 1])),
             <<>>, [p \in 1..Len(sizes) |-> p])

\* No code may be all ones: JERR_BAD_HUFF_TABLE.
BadTable(htbl) ==
    LET sizes == huffsize(htbl)
    IN  \E p \in 1..Len(sizes) : huffcode(sizes)[p] + 1 >= 2^sizes[p]

\* The bits of every symbol that has a code.
jpeg_make_c_derived_tbl(htbl) ==
    LET sizes == huffsize(htbl)
        codes == huffcode(sizes)
    IN  [s \in ToSet(htbl.huffval) |->
            LET p == CHOOSE p \in 1..Len(codes) : htbl.huffval[p] = s
            IN  BitsOf(codes[p], sizes[p])]

LookaheadEntry(htbl, sizes, codes, bits) ==
    LET fits == {p \in 1..Len(codes) :
                    /\ sizes[p] <= HUFF_LOOKAHEAD
                    /\ bits \div 2^(HUFF_LOOKAHEAD - sizes[p]) = codes[p]}
    IN  IF fits = {} THEN [nbits |-> 0, sym |-> 0]
        ELSE LET p == CHOOSE p \in fits : TRUE
             IN  [nbits |-> sizes[p], sym |-> htbl.huffval[p]]

jpeg_make_d_derived_tbl(htbl) ==
    LET sizes == huffsize(htbl)
        codes == huffcode(sizes)
        OfLength(l) == {p \in 1..Len(codes) : sizes[p] = l}
    IN  [maxcode |-> [l \in 1..CodeLimit |->
                         IF OfLength(l) = {} THEN -1 ELSE codes[Max(OfLength(l))]],
         valoffset |-> [l \in 1..CodeLimit |-> IF OfLength(l) = {} THEN 0
                           ELSE Min(OfLength(l)) - codes[Min(OfLength(l))]],
         huffval |-> htbl.huffval,
         look |-> [bits \in 0..(2^HUFF_LOOKAHEAD - 1) |->
                      LookaheadEntry(htbl, sizes, codes, bits)]]

----------------------------------------------------------------------------
(* Writing bits: put_buffer holds less than a byte, the rest is out.       *)

AllOnes == 2^ByteSize - 1
EmptyWriter == [put_buffer |-> <<>>, out |-> <<>>]

\* emit_byte for every whole byte, with a zero stuffed after one of all ones.
emit_bits(w, bits) ==
    LET all == w.put_buffer \o bits
        bytes == Len(all) \div ByteSize
        Byte(i) == NumberOf(SubSeq(all, (i - 1) * ByteSize + 1, i * ByteSize))
        Emit(out, i) == out \o (IF Byte(i) = AllOnes THEN <<Byte(i), 0>> ELSE <<Byte(i)>>)
    IN  [put_buffer |-> SubSeq(all, bytes * ByteSize + 1, Len(all)),
         out |-> FoldLeft(Emit, w.out, [i \in 1..bytes |-> i])]

\* A partial byte is filled with ones.
flush_bits(w) ==
    [put_buffer |-> <<>>,
     out |-> emit_bits(w, [i \in 1..(ByteSize - 1) |-> 1]).out]

emit_marker(w, code) == [w EXCEPT !.out = @ \o <<AllOnes, code>>]

----------------------------------------------------------------------------
(* Reading bits.  A reader rd has the bits that are left, the next byte of *)
(* the source src (the bytes that have arrived), the marker it has met (0: *)
(* none), whether it has made up bits after that (insufficient_data) and   *)
(* whether it goes on (ok) or has to suspend.                              *)

\* The end of the run of all-ones bytes at position i, 0 if src ends before it.
AfterOnes(src, i) ==
    LET ends == {j \in i..Len(src) : src[j] # AllOnes}
    IN  IF ends = {} THEN 0 ELSE Min(ends)

RECURSIVE LoadBytes(_, _)
Load(src, rd, c, next) ==
    LoadBytes(src, [rd EXCEPT !.next = next, !.get_buffer = @ \o BitsOf(c, ByteSize)])

\* The byte or marker at rd.next; j is where the all-ones bytes there end.
LoadByte(src, rd, j) ==
    IF j = 0 THEN [rd EXCEPT !.ok = FALSE]
    ELSE IF j > rd.next /\ src[j] # 0
    THEN [rd EXCEPT !.unread_marker = src[j], !.next = j + 1]
    ELSE Load(src, rd, IF j = rd.next THEN src[j] ELSE AllOnes, j + 1)

LoadBytes(src, rd) ==
    IF Len(rd.get_buffer) >= MIN_GET_BITS THEN rd
    ELSE LoadByte(src, rd, AfterOnes(src, rd.next))

\* Behind a marker there are only zeroes.
AddZeroes(rd, nbits) ==
    LET left == Len(rd.get_buffer)
    IN  IF rd.ok /\ rd.unread_marker # 0 /\ nbits > left
        THEN [rd EXCEPT !.insufficient_data = TRUE,
                  !.get_buffer = @ \o [i \in 1..(MIN_GET_BITS - left) |-> 0]]
        ELSE rd

\* Faulty: bytes behind a marker are read.
jpeg_fill_bit_buffer_Past(src, rd, nbits) == AddZeroes(LoadBytes(src, rd), nbits)

jpeg_fill_bit_buffer(src, rd, nbits) ==
    AddZeroes(IF rd.unread_marker = 0 THEN LoadBytes(src, rd) ELSE rd, nbits)

CHECK_BIT_BUFFER(src, rd, nbits) ==
    IF rd.ok /\ Len(rd.get_buffer) < nbits
    THEN jpeg_fill_bit_buffer(src, rd, nbits) ELSE rd

DROP_BITS(rd, nbits) ==
    [rd EXCEPT !.get_buffer = SubSeq(@, nbits + 1, Len(@))]

\* What was read: a number v, and the reader after it.
Got(rd, v) == [rd |-> rd, v |-> v]

PEEK_BITS(rd, nbits) == NumberOf(SubSeq(rd.get_buffer, 1, nbits))
Take(rd, nbits) ==
    IF rd.ok THEN Got(DROP_BITS(rd, nbits), PEEK_BITS(rd, nbits)) ELSE Got(rd, 0)

GET_BITS(src, rd, nbits) == Take(CHECK_BIT_BUFFER(src, rd, nbits), nbits)

\* The code has l bits so far.  One longer than any of the table's is taken as the
\* symbol 0, the safest result.
RECURSIVE LongerCode(_, _, _, _)
AppendBit(code, bit) == Got(bit.rd, 2 * code.v + bit.v)
LongerCode(src, code, tbl, l) ==
    IF ~code.rd.ok \/ l > CodeLimit THEN Got(code.rd, 0)
    ELSE IF code.v <= tbl.maxcode[l] THEN Got(code.rd, tbl.huffval[code.v + tbl.valoffset[l]])
    ELSE LongerCode(src, AppendBit(code, GET_BITS(src, code.rd, 1)), tbl, l + 1)

jpeg_huff_decode(src, rd, tbl, min_bits) ==
    LongerCode(src, GET_BITS(src, rd, min_bits), tbl, min_bits)

\* Near the end of the data there may be too few bits for the lookahead table.
Lookup(src, rd, tbl) ==
    LET entry == tbl.look[PEEK_BITS(rd, HUFF_LOOKAHEAD)]
        short == Len(rd.get_buffer) < HUFF_LOOKAHEAD
    IN  IF ~rd.ok THEN Got(rd, 0)
        ELSE IF ~short /\ entry.nbits # 0 THEN Got(DROP_BITS(rd, entry.nbits), entry.sym)
        ELSE jpeg_huff_decode(src, rd, tbl, IF short THEN 1 ELSE HUFF_LOOKAHEAD + 1)

HUFF_DECODE(src, rd, tbl) ==
    Lookup(src, IF rd.ok /\ Len(rd.get_buffer) < HUFF_LOOKAHEAD
                THEN jpeg_fill_bit_buffer(src, rd, 0) ELSE rd, tbl)

\* The value of s bits x (figure F.12).
HUFF_EXTEND(x, s) == IF x < 2^(s - 1) THEN x - (2^s - 1) ELSE x

=============================================================================
