----------------------------- MODULE HuffmanScan -----------------------------
(***************************************************************************)
(* The Huffman-coded scans of an image, from the compressor's coefficient  *)
(* blocks to the decompressor's (jchuff.c, jdhuff.c and the restart        *)
(* markers of jdmarker.c).  Of every scan the compressor counts the        *)
(* symbols, makes the tables and writes the segment; it then reaches the   *)
(* decompressor byte by byte, and an MCU whose bytes are not all there is  *)
(* begun again later.  A part of a segment may be lost on the way.         *)
(*   A block is a function of the zigzag position.  A component has one    *)
(* block in every MCU, and all of a scan use the same tables.              *)
(***************************************************************************)
EXTENDS Huffman

CONSTANTS
    Images,             \* each a sequence of MCUs, a block for every component
    Scripts,            \* each a sequence of scans; see Scan
    Intervals,          \* restart intervals, 0 for none
    Components,
    Se_max,             \* lim_Se: the last position of a block
    RunLimit,           \* zero runs are shorter than this: 16
    MAX_CORR_BITS,
    MAX_COEF_BITS,
    coef_limit,         \* for every component, how many coefficients are wanted
    LossyImages,        \* the images of which a part is lost
    MaxLost,            \* how many bytes and markers may be lost together
    M_SOF0, M_RST0, M_EOI

Band == 0..Se_max
Block == [Band -> Int]
MaxEobrun == 2^(RunLimit - 1) - 1       \* 0x7FFF
RST(n) == M_RST0 + n

Scan == [progressive : BOOLEAN, comps : Seq(Components), Ss : Band, Se : Band,
         Ah : Nat, Al : Nat]

ASSUME ScanAssumption ==
    /\ Intervals \subseteq Nat /\ MaxLost \in Nat
    /\ LossyImages \subseteq Images /\ Images \subseteq Seq([Components -> Block])
    /\ Scripts \subseteq Seq(Scan)
    /\ RunLimit \in 2..16 /\ MAX_CORR_BITS >= Se_max /\ MAX_COEF_BITS \in Nat
    /\ coef_limit \in [Components -> 0..(Se_max + 1)]
    /\ 0 < M_SOF0 /\ M_SOF0 < M_RST0 /\ M_RST0 + 7 < M_EOI /\ M_EOI < AllOnes

VARIABLES
    image, script, restart_interval,
    scan,               \* number of the scan
    pass,               \* "gather", "encode", "decode", "done" or "bad_coef"
    mcu,                \* MCUs of this pass that are done
    encoder,            \* EOBRUN, BE, last_dc_val, restarts_to_go, next_restart_num
    counts, emitted,    \* DC and AC symbols counted, and symbols written
    htbl,               \* the DC and the AC table
    writer,
    data, arrived,      \* the segment, and how many of its bytes have arrived
    decoder,            \* what the decompressor keeps between MCUs
    output,             \* its coefficients
    damaged             \* MCUs a lost part of some scan belonged to

settings == <<image, script, restart_interval>>
compressor == <<encoder, counts, emitted, htbl, writer>>
vars == <<settings, scan, pass, mcu, compressor, data, arrived, decoder, output, damaged>>

sc == script[scan]
MCUs == DOMAIN image

----------------------------------------------------------------------------
(* What an MCU is coded as: a sequence of symbols, bits and restarts.      *)

Sym(class, v) == [kind |-> class, v |-> v]
BitString(bits) == [kind |-> "bits", v |-> bits]

\* The bits of a coefficient: the complement of the magnitude if negative.
ValueBits(v) == BitString(BitsOf(IF v < 0 THEN v - 1 ELSE v, NumberOfBits(Abs(v))))

CodedDifference(v) ==
    <<Sym("dc", NumberOfBits(Abs(v)))>> \o (IF v = 0 THEN <<>> ELSE <<ValueBits(v)>>)

ZRL == (RunLimit - 1) * 16

\* r zeroes, by runs of RunLimit, and a coefficient.
CodedRun(r, v) ==
    [i \in 1..(r \div RunLimit) |-> Sym("ac", ZRL)]
    \o <<Sym("ac", (r % RunLimit) * 16 + NumberOfBits(Abs(v))), ValueBits(v)>>

\* The coefficients of positions first..last, which value maps to what is coded
\* of them: the codes, and the zeroes that are left at the end.
CodedBand(value, first, last) ==
    FoldLeft(LAMBDA coded, k :
                 IF value[k] = 0 THEN [coded EXCEPT !.r = @ + 1]
                 ELSE [toks |-> coded.toks \o CodedRun(coded.r, value[k]), r |-> 0],
             [toks |-> <<>>, r |-> 0], [i \in 1..(last - first + 1) |-> first + i - 1])

\* A shift that rounds towards zero.
PointTransform(v, Al) == IF v < 0 THEN -(Abs(v) \div 2^Al) ELSE v \div 2^Al

----------------------------------------------------------------------------
(* The MCU encoding routines.  An encoder e with what it has emitted, toks. *)

Emit(e, toks) == [e EXCEPT !.toks = @ \o toks]

\* The run of blocks without a new coefficient, and the correction bits of their
\* old ones.
emit_eobrun(e) ==
    IF e.EOBRUN = 0 THEN e
    ELSE LET nbits == NumberOfBits(e.EOBRUN) - 1
         IN  [Emit(e, <<Sym("ac", nbits * 16)>>
                      \o (IF nbits = 0 THEN <<>> ELSE <<BitString(BitsOf(e.EOBRUN, nbits))>>)
                      \o <<BitString(e.BE)>>)
                 EXCEPT !.EOBRUN = 0, !.BE = <<>>]

\* emit_restart_s, emit_restart_e.
emit_restart(e) ==
    [Emit(emit_eobrun(e), <<[kind |-> "restart", v |-> e.next_restart_num]>>)
        EXCEPT !.last_dc_val = [ci \in Components |-> 0]]

encode_mcu_DC_first(e, blocks) ==
    FoldLeft(LAMBDA en, ci :
                 LET v == blocks[ci][0] \div 2^sc.Al
                 IN  [Emit(en, CodedDifference(v - en.last_dc_val[ci]))
                         EXCEPT !.last_dc_val[ci] = v],
             e, sc.comps)

encode_mcu_AC_first(e, blocks) ==
    LET block == blocks[sc.comps[1]]
        value == [k \in sc.Ss..sc.Se |-> PointTransform(block[k], sc.Al)]
        coded == CodedBand(value, sc.Ss, sc.Se)
        before == IF coded.toks = <<>> THEN e ELSE emit_eobrun(e)
        after == [Emit(before, coded.toks)
                     EXCEPT !.EOBRUN = @ + (IF coded.r > 0 THEN 1 ELSE 0)]
    IN  IF coded.r > 0 /\ after.EOBRUN = MaxEobrun THEN emit_eobrun(after) ELSE after

encode_mcu_DC_refine(e, blocks) ==
    FoldLeft(LAMBDA en, ci : Emit(en, <<BitString(BitsOf(blocks[ci][0] \div 2^sc.Al, 1))>>),
             e, sc.comps)

\* One position of AC_refine.  c has the encoder, the zeroes r before k and the
\* correction bits BR of this block that are not out yet.
RefineZRL(c) ==
    [c EXCEPT !.e = Emit(emit_eobrun(c.e), <<Sym("ac", ZRL), BitString(c.BR)>>),
              !.r = @ - RunLimit, !.BR = <<>>]

RefinePosition(c, k, v, EOB) ==
    LET abs == Abs(v) \div 2^sc.Al
        zrls == IF k <= EOB THEN c.r \div RunLimit ELSE 0
        folded == FoldLeft(LAMBDA cc, i : RefineZRL(cc), c, [i \in 1..zrls |-> i])
        sign == IF v < 0 THEN <<0>> ELSE <<1>>
    IN  IF abs = 0 THEN [c EXCEPT !.r = @ + 1]
        ELSE IF abs > 1 THEN [folded EXCEPT !.BR = Append(@, abs % 2)]
        ELSE [e |-> Emit(emit_eobrun(folded.e), <<Sym("ac", folded.r * 16 + 1),
                         BitString(sign), BitString(folded.BR)>>),
              r |-> 0, BR |-> <<>>]

\* Faulty: the room for correction bits is not looked at.
MustEmit_Counter(e) == e.EOBRUN = MaxEobrun

\* The counter or, with the next MCU, the buffer could overflow.
MustEmit(e) == e.EOBRUN = MaxEobrun \/ Len(e.BE) > MAX_CORR_BITS - Se_max

encode_mcu_AC_refine(e, blocks) ==
    LET block == blocks[sc.comps[1]]
        new == {k \in sc.Ss..sc.Se : Abs(block[k]) \div 2^sc.Al = 1}
        EOB == IF new = {} THEN 0 ELSE Max(new)
        coded == FoldLeft(LAMBDA c, k : RefinePosition(c, k, block[k], EOB),
                          [e |-> e, r |-> 0, BR |-> <<>>],
                          [i \in 1..(sc.Se - sc.Ss + 1) |-> sc.Ss + i - 1])
        after == [coded.e EXCEPT !.EOBRUN = @ + 1, !.BE = @ \o coded.BR]
    IN  IF coded.r = 0 /\ coded.BR = <<>> THEN coded.e
        ELSE IF MustEmit(after) THEN emit_eobrun(after) ELSE after

\* encode_mcu_huff, with encode_one_block for every component.
encode_mcu_huff(e, blocks) ==
    FoldLeft(LAMBDA en, ci :
                 LET coded == CodedBand(blocks[ci], 1, Se_max)
                 IN  [Emit(en, CodedDifference(blocks[ci][0] - en.last_dc_val[ci])
                               \o coded.toks
                               \o (IF coded.r > 0 THEN <<Sym("ac", 0)>> ELSE <<>>))
                         EXCEPT !.last_dc_val[ci] = blocks[ci][0]],
             e, sc.comps)

\* JERR_BAD_DCT_COEF: a difference may have one bit more.
TooLarge(v, bits) == NumberOfBits(Abs(v)) > bits
BadCoefficient(e, blocks) ==
    LET first == sc.Ah = 0
        shift(v) == PointTransform(v, sc.Al)
    IN  \E ci \in ToSet(sc.comps) :
            \/ first /\ sc.Ss = 0
               /\ TooLarge(blocks[ci][0] \div 2^sc.Al - e.last_dc_val[ci], MAX_COEF_BITS + 1)
            \/ first /\ \E k \in (sc.Ss..sc.Se) \ {0} : TooLarge(shift(blocks[ci][k]), MAX_COEF_BITS)

encode_mcu(e, blocks) ==
    IF ~sc.progressive THEN encode_mcu_huff(e, blocks)
    ELSE IF sc.Ah = 0
    THEN IF sc.Ss = 0 THEN encode_mcu_DC_first(e, blocks) ELSE encode_mcu_AC_first(e, blocks)
    ELSE IF sc.Ss = 0 THEN encode_mcu_DC_refine(e, blocks) ELSE encode_mcu_AC_refine(e, blocks)

AtRestart(e) == restart_interval > 0 /\ e.restarts_to_go = 0

\* The restart state after an MCU.
CountMCU(e) ==
    IF restart_interval = 0 THEN e
    ELSE IF e.restarts_to_go = 0
    THEN [e EXCEPT !.restarts_to_go = restart_interval - 1,
                   !.next_restart_num = (@ + 1) % 8]
    ELSE [e EXCEPT !.restarts_to_go = @ - 1]

----------------------------------------------------------------------------
(* Counting the symbols.                                                   *)

Count(table, s) ==
    IF s \in DOMAIN table THEN [table EXCEPT ![s] = @ + 1] ELSE table @@ (s :> 1)

CountSymbols(c, toks) ==
    FoldLeft(LAMBDA cc, t : CASE t.kind = "dc" -> [cc EXCEPT !.dc = Count(@, t.v)]
                              [] t.kind = "ac" -> [cc EXCEPT !.ac = Count(@, t.v)]
                              [] OTHER -> cc,
             c, toks)

\* One block of the sequential mode: this repeats what encode_one_block does.
htest_one_block(c, block, last_dc_val) ==
    LET CountAC(acc, k) ==
            IF block[k] = 0 THEN [acc EXCEPT !.r = @ + 1]
            ELSE [r |-> 0, ac |-> Count(FoldLeft(Count, acc.ac,
                                  [i \in 1..(acc.r \div RunLimit) |-> ZRL]),
                      (acc.r % RunLimit) * 16 + NumberOfBits(Abs(block[k])))]
        coded == FoldLeft(CountAC, [r |-> 0, ac |-> c.ac], [k \in 1..Se_max |-> k])
    IN  [dc |-> Count(c.dc, NumberOfBits(Abs(block[0] - last_dc_val))),
         ac |-> IF coded.r > 0 THEN Count(coded.ac, 0) ELSE coded.ac]

\* Faulty: the run goes on over the restart.
RestartGather_Keeps(e) == [e EXCEPT !.restarts_to_go = restart_interval]

\* encode_mcu_gather: next_restart_num is not needed.
RestartGather(e) ==
    [e EXCEPT !.restarts_to_go = restart_interval,
              !.last_dc_val = [ci \in Components |-> 0]]

encode_mcu_gather(blocks) ==
    LET e == IF AtRestart(encoder) THEN RestartGather(encoder) ELSE encoder
        left == IF restart_interval > 0 THEN e.restarts_to_go - 1 ELSE e.restarts_to_go
    IN  /\ counts' = FoldLeft(LAMBDA c, ci :
                                 htest_one_block(c, blocks[ci], e.last_dc_val[ci]),
                              counts, sc.comps)
        /\ encoder' = [e EXCEPT !.restarts_to_go = left,
                           !.last_dc_val = [ci \in Components |->
                               IF ci \in ToSet(sc.comps) THEN blocks[ci][0] ELSE @[ci]]]

\* What an MCU is coded as, after a restart marker where one is due.
RestartedEncoder == IF AtRestart(encoder) THEN emit_restart(encoder) ELSE encoder
Coded(blocks) == encode_mcu(RestartedEncoder, blocks)

----------------------------------------------------------------------------
(* The compressor's passes over a scan.                                    *)

NoCounts == [dc |-> <<>>, ac |-> <<>>]

\* start_pass_huff.
StartedEncoder(interval) ==
    [EOBRUN |-> 0, BE |-> <<>>, last_dc_val |-> [ci \in Components |-> 0],
     restarts_to_go |-> interval, next_restart_num |-> 0, toks |-> <<>>]

\* start_pass_huff_decoder, with the tables the scan needs; get_sos has reset
\* next_restart_num.
NeedsDC == sc.Ss = 0 /\ sc.Ah = 0
NeedsAC == sc.Se > 0

StartedDecoder(interval, tables) ==
    [get_buffer |-> <<>>, next |-> 1, unread_marker |-> 0, insufficient_data |-> FALSE,
     ok |-> TRUE, EOBRUN |-> 0, last_dc_val |-> [ci \in Components |-> 0],
     restarts_to_go |-> interval, next_restart_num |-> 0,
     dc_derived_tbl |-> IF NeedsDC /\ tables.dc # <<>> THEN jpeg_make_d_derived_tbl(tables.dc)
                        ELSE <<>>,
     ac_derived_tbl |-> IF NeedsAC /\ tables.ac # <<>> THEN jpeg_make_d_derived_tbl(tables.ac)
                        ELSE <<>>]

Init ==
    /\ image \in Images /\ script \in Scripts /\ restart_interval \in Intervals
    /\ scan = 1 /\ pass = "gather" /\ mcu = 0
    /\ encoder = StartedEncoder(restart_interval)
    /\ counts = NoCounts /\ emitted = NoCounts
    /\ htbl = [dc |-> <<>>, ac |-> <<>>]
    /\ writer = EmptyWriter /\ data = <<>> /\ arrived = 0
    /\ decoder = StartedDecoder(restart_interval, htbl)
    /\ output = [m \in MCUs |-> [ci \in Components |-> [k \in Band |-> 0]]]
    /\ damaged = {}

Done(e) == [e EXCEPT !.toks = <<>>]

GatherMCU ==
    /\ pass = "gather" /\ mcu < Len(image)
    /\ ~BadCoefficient(RestartedEncoder, image[mcu + 1])
    /\ mcu' = mcu + 1
    /\ IF sc.progressive
       THEN \E e \in {Coded(image[mcu + 1])} :
                /\ counts' = CountSymbols(counts, e.toks)
                /\ encoder' = CountMCU(Done(e))
       ELSE encode_mcu_gather(image[mcu + 1])
    /\ UNCHANGED <<settings, scan, pass, emitted, htbl, writer, data, arrived, decoder,
                   output, damaged>>

\* JERR_BAD_DCT_COEF.
RefuseCoefficient ==
    /\ pass = "gather" /\ mcu < Len(image)
    /\ BadCoefficient(RestartedEncoder, image[mcu + 1])
    /\ pass' = "bad_coef"
    /\ UNCHANGED <<settings, scan, mcu, compressor, data, arrived, decoder, output, damaged>>

\* finish_pass_gather: the last run of blocks is counted too.  DC needs no table for
\* a refinement, AC none for a scan of DC.  start_pass_huff then checks the tables.
finish_pass_gather ==
    LET e == IF sc.progressive THEN emit_eobrun(encoder) ELSE encoder
        all == CountSymbols(counts, e.toks)
        tables == [dc |-> IF NeedsDC THEN jpeg_gen_optimal_table(all.dc) ELSE htbl.dc,
                   ac |-> IF NeedsAC THEN jpeg_gen_optimal_table(all.ac) ELSE htbl.ac]
    IN  /\ pass = "gather" /\ mcu = Len(image)
        /\ counts' = all /\ htbl' = tables
        /\ pass' = IF \/ NeedsDC /\ BadTable(tables.dc)
                      \/ NeedsAC /\ BadTable(tables.ac)
                   THEN "bad_table" ELSE "encode"
        /\ mcu' = 0 /\ encoder' = StartedEncoder(restart_interval) /\ writer' = EmptyWriter
        /\ UNCHANGED <<settings, scan, emitted, data, arrived, decoder, output, damaged>>

\* The symbols of toks have codes; if not, JERR_HUFF_MISSING_CODE.
HasCodes(toks) ==
    \A i \in DOMAIN toks :
        /\ toks[i].kind = "dc" => toks[i].v \in ToSet(htbl.dc.huffval)
        /\ toks[i].kind = "ac" => toks[i].v \in ToSet(htbl.ac.huffval)

Write(w, toks) ==
    LET ehufdc == jpeg_make_c_derived_tbl(htbl.dc)
        ehufac == jpeg_make_c_derived_tbl(htbl.ac)
    IN  FoldLeft(LAMBDA ww, t : CASE t.kind = "dc" -> emit_bits(ww, ehufdc[t.v])
                                  [] t.kind = "ac" -> emit_bits(ww, ehufac[t.v])
                                  [] t.kind = "bits" -> emit_bits(ww, t.v)
                                  [] t.kind = "restart" ->
                                        emit_marker(flush_bits(ww), RST(t.v)),
                 w, toks)

EncodeMCU ==
    /\ pass = "encode" /\ mcu < Len(image)
    /\ \E e \in {Coded(image[mcu + 1])} :
          IF HasCodes(e.toks)
          THEN /\ writer' = Write(writer, e.toks)
               /\ emitted' = CountSymbols(emitted, e.toks)
               /\ encoder' = CountMCU(Done(e)) /\ mcu' = mcu + 1 /\ UNCHANGED pass
          ELSE pass' = "missing_code" /\ UNCHANGED <<writer, emitted, encoder, mcu>>
    /\ UNCHANGED <<settings, scan, counts, htbl, data, arrived, decoder, output, damaged>>

\* finish_pass_huff.  Some marker follows: the next scan's or EOI.
finish_pass_huff ==
    LET e == IF sc.progressive THEN emit_eobrun(encoder) ELSE encoder
    IN  /\ pass = "encode" /\ mcu = Len(image)
        /\ IF HasCodes(e.toks)
           THEN /\ data' = emit_marker(flush_bits(Write(writer, e.toks)), M_EOI).out
                /\ emitted' = CountSymbols(emitted, e.toks)
                /\ pass' = "decode" /\ mcu' = 0
                /\ decoder' = StartedDecoder(restart_interval, htbl) /\ arrived' = 0
           ELSE pass' = "missing_code" /\ UNCHANGED <<data, emitted, mcu, decoder, arrived>>
        /\ encoder' = Done(e)
        /\ UNCHANGED <<settings, scan, counts, htbl, writer, output, damaged>>

----------------------------------------------------------------------------
(* On the way: a run of whole units of the segment, bytes (with the zero   *)
(* after one of all ones) and markers, may be lost.                        *)

IsOnes(i) == data[i] = AllOnes
\* Where the units begin: no data byte follows one of all ones directly.
Units == {i \in DOMAIN data : i = 1 \/ ~IsOnes(i - 1)}
IsMarker(i) == IsOnes(i) /\ data[i + 1] # 0
UnitEnd(i) == IF IsOnes(i) THEN i + 1 ELSE i

\* The restart interval that unit i belongs to; a marker begins one.
IntervalOf(i) == Cardinality({j \in Units : j <= i /\ IsMarker(j)})

Lose(first, last) ==
    LET lost == Units \cap (first..last)
    IN  /\ pass = "decode" /\ mcu = 0 /\ arrived = 0
        /\ restart_interval > 0 /\ damaged = {} /\ image \in LossyImages
        /\ last < Len(data) - 1
        /\ Cardinality(lost) \in 1..MaxLost
        /\ Cardinality({i \in lost : IsMarker(i)}) <= 2
        /\ data' = SubSeq(data, 1, first - 1) \o SubSeq(data, UnitEnd(last) + 1, Len(data))
        /\ damaged' = {m \in MCUs :
                          \E i \in lost : (m - 1) \div restart_interval = IntervalOf(i)}
        /\ UNCHANGED <<settings, scan, pass, mcu, compressor, arrived, decoder, output>>

Arrive ==
    /\ pass = "decode" /\ arrived < Len(data)
    /\ arrived' = arrived + 1
    /\ UNCHANGED <<settings, scan, pass, mcu, compressor, data, decoder, output, damaged>>

----------------------------------------------------------------------------
(* Restart markers (jdmarker.c).  d is the decompressor's state.           *)

\* Past what is not a marker: what was skipped stays skipped if this suspends.
next_marker(src, d) ==
    LET found == {i \in d.next..Len(src) :
                     /\ src[i] = AllOnes
                     /\ AfterOnes(src, i) # 0 /\ src[AfterOnes(src, i)] # 0}
        j == AfterOnes(src, Min(found))
        skipped == Min({i \in d.next..(Len(src) + 1) :
                           \A k \in i..Len(src) : src[k] = AllOnes})
    IN  IF found = {} THEN [d EXCEPT !.next = skipped, !.ok = FALSE]
        ELSE [d EXCEPT !.next = j + 1, !.unread_marker = src[j]]

IsRestart(marker) == M_RST0 <= marker /\ marker <= M_RST0 + 7

\* A marker other than the desired one: leave it for the segments it is ahead of, go
\* on to the next one if it is behind or no marker, and go on without one otherwise.
Resync(marker, desired) ==
    IF marker < M_SOF0 THEN "scan"
    ELSE IF ~IsRestart(marker) THEN "leave"
    ELSE IF marker \in {RST((desired + 1) % 8), RST((desired + 2) % 8)} THEN "leave"
    ELSE IF marker \in {RST((desired - 1) % 8), RST((desired - 2) % 8)} THEN "scan"
    ELSE "discard"

RECURSIVE jpeg_resync_to_restart(_, _)
jpeg_resync_to_restart(src, d) ==
    LET action == Resync(d.unread_marker, d.next_restart_num)
        further == next_marker(src, d)
    IN  IF action = "leave" THEN d
        ELSE IF action = "discard" THEN [d EXCEPT !.unread_marker = 0]
        ELSE IF further.ok THEN jpeg_resync_to_restart(src, further)
        ELSE further

read_restart_marker(src, d) ==
    LET met == IF d.unread_marker = 0 THEN next_marker(src, d) ELSE d
        passed == IF met.unread_marker = RST(met.next_restart_num)
                  THEN [met EXCEPT !.unread_marker = 0]
                  ELSE jpeg_resync_to_restart(src, met)
    IN  IF ~met.ok THEN met
        ELSE IF ~passed.ok THEN passed
        ELSE [passed EXCEPT !.next_restart_num = (@ + 1) % 8]

\* The bits that are left are thrown away even if this suspends.
process_restart(src, d) ==
    LET r == read_restart_marker(src, [d EXCEPT !.get_buffer = <<>>])
    IN  IF ~r.ok THEN r
        ELSE [r EXCEPT !.last_dc_val = [ci \in Components |-> 0], !.EOBRUN = 0,
                       !.restarts_to_go = restart_interval,
                       !.insufficient_data = IF r.unread_marker = 0 THEN FALSE ELSE @]

----------------------------------------------------------------------------
(* The MCU decoding routines: from a state d and the blocks of the MCU to  *)
(* those after it.  If d.ok is FALSE then, the MCU was not all there.      *)

Position(k) == IF k > Se_max THEN Se_max ELSE k     \* the end of natural_order

\* A coefficient of s bits x; 0 has none.
Extended(x, s) == Got(x.rd, IF s = 0 THEN 0 ELSE HUFF_EXTEND(x.v, s))
Coefficient(src, d, s) == Extended(GET_BITS(src, d, s), s)

DifferenceOf(src, h) == Coefficient(src, h.rd, h.v)
DcDifference(src, d) == DifferenceOf(src, HUFF_DECODE(src, d, d.dc_derived_tbl))

\* The DC value of component ci, times 2^Al, unless diff is cut off.
SetDC(acc, ci, diff) ==
    LET v == diff.v + acc.d.last_dc_val[ci]
    IN  IF ~diff.rd.ok THEN [acc EXCEPT !.d = diff.rd]
        ELSE [d |-> [diff.rd EXCEPT !.last_dc_val[ci] = v],
              blocks |-> [acc.blocks EXCEPT ![ci][0] = v * 2^sc.Al]]

decode_mcu_DC_first(src, d, blocks) ==
    FoldLeft(LAMBDA acc, ci : SetDC(acc, ci, DcDifference(src, acc.d)),
             [d |-> d, blocks |-> blocks], sc.comps)

\* The symbol of a code is a run length r and a size s.
RunOf(h) == h.v \div 16
SizeOf(h) == h.v % 16
IsZRL(h) == SizeOf(h) = 0 /\ RunOf(h) = RunLimit - 1

\* A run of blocks: 2^r of them and r bits x more.
StartRun(x, r) == [x.rd EXCEPT !.EOBRUN = 2^r + x.v]
RunOfBlocks(src, h) == StartRun(GET_BITS(src, h.rd, RunOf(h)), RunOf(h))

OneBlock(d) == [d EXCEPT !.EOBRUN = @ - 1]
SetAC(block, k, x) == IF x.rd.ok THEN [block EXCEPT ![Position(k)] = x.v * 2^sc.Al] ELSE block

RECURSIVE DecodeBand(_, _, _, _)
AfterAC(src, x, block, k) == DecodeBand(src, x.rd, SetAC(block, k, x), k + 1)
DecodeAC(src, h, block, k) ==
    IF SizeOf(h) > 0
    THEN AfterAC(src, Coefficient(src, h.rd, SizeOf(h)), block, k + RunOf(h))
    ELSE IF IsZRL(h) THEN DecodeBand(src, h.rd, block, k + RunLimit)
    ELSE [d |-> OneBlock(RunOfBlocks(src, h)), block |-> block]
DecodeBand(src, d, block, k) ==
    IF ~d.ok \/ k > sc.Se THEN [d |-> d, block |-> block]
    ELSE DecodeAC(src, HUFF_DECODE(src, d, d.ac_derived_tbl), block, k)

\* Block ci of the MCU has been decoded as r says.
SetBlock(blocks, ci, r) == [d |-> r.d, blocks |-> [blocks EXCEPT ![ci] = r.block]]

decode_mcu_AC_first(src, d, blocks) ==
    LET ci == sc.comps[1]
    IN  SetBlock(blocks, ci, IF d.EOBRUN > 0 THEN [d |-> OneBlock(d), block |-> blocks[ci]]
                             ELSE DecodeBand(src, d, blocks[ci], sc.Ss))

\* Bit Al of a coefficient, in two's complement.
HasBit(v) == (v \div 2^sc.Al) % 2 = 1

RefineDC(acc, ci, bit) ==
    [d |-> bit.rd,
     blocks |-> IF bit.v = 1 /\ ~HasBit(acc.blocks[ci][0])
                THEN [acc.blocks EXCEPT ![ci][0] = @ + 2^sc.Al] ELSE acc.blocks]

decode_mcu_DC_refine(src, d, blocks) ==
    FoldLeft(LAMBDA acc, ci : RefineDC(acc, ci, GET_BITS(src, acc.d, 1)),
             [d |-> d, blocks |-> blocks], sc.comps)

\* A correction bit, which an attempt that suspended may have added already.
Correct(v, bit) ==
    IF bit = 0 \/ HasBit(v) THEN v ELSE IF v > 0 THEN v + 2^sc.Al ELSE v - 2^sc.Al

\* From position k over r zeroes to the next, correcting what is not zero.  c has the
\* decoder, the block, the new coefficients' positions and k.
CorrectAt(c, bit) ==
    [c EXCEPT !.d = bit.rd, !.k = @ + 1,
              !.block[c.k] = IF bit.rd.ok THEN Correct(@, bit.v) ELSE @]

RECURSIVE Advance(_, _, _)
Advance(src, c, r) ==
    IF ~c.d.ok \/ c.k > sc.Se \/ (c.block[c.k] = 0 /\ r = 0) THEN c
    ELSE IF c.block[c.k] = 0 THEN Advance(src, [c EXCEPT !.k = @ + 1], r - 1)
    ELSE Advance(src, CorrectAt(c, GET_BITS(src, c.d, 1)), r)

\* At the end of a run of zeroes there is a new coefficient, if size is not 0.
SetNew(c, size, bit) ==
    IF ~c.d.ok \/ size = 0 THEN [c EXCEPT !.k = @ + 1]
    ELSE LET at == Position(c.k)
         IN  [c EXCEPT !.block[at] = IF bit = 1 THEN 2^sc.Al ELSE -(2^sc.Al),
                       !.new = @ \cup {at}, !.k = @ + 1]

\* Up to the end of the band or of its new coefficients.
RECURSIVE RefineBand(_, _)
RefineRun(src, c, h, bit) ==
    RefineBand(src, SetNew(Advance(src, [c EXCEPT !.d = bit.rd], RunOf(h)), SizeOf(h), bit.v))
RefineSymbol(src, c, h) ==
    IF SizeOf(h) > 0 \/ IsZRL(h)
    THEN RefineRun(src, c, h, IF SizeOf(h) > 0 THEN GET_BITS(src, h.rd, 1) ELSE Got(h.rd, 0))
    ELSE [c EXCEPT !.d = RunOfBlocks(src, h)]
RefineBand(src, c) ==
    IF ~c.d.ok \/ c.k > sc.Se THEN c
    ELSE RefineSymbol(src, c, HUFF_DECODE(src, c.d, c.d.ac_derived_tbl))

\* Under a run of blocks the rest of the band is only corrected.
CorrectRest(src, c) ==
    IF ~c.d.ok \/ c.d.EOBRUN = 0 THEN c ELSE Advance(src, c, Se_max + 1)
CountBlock(c) == IF c.d.ok /\ c.d.EOBRUN > 0 THEN [c EXCEPT !.d = OneBlock(@)] ELSE c
RefineBlock(src, c) ==
    CountBlock(CorrectRest(src, IF c.d.EOBRUN > 0 THEN c ELSE RefineBand(src, c)))

\* Faulty: coefficients made nonzero stay so.
Undo_Not(c) == c

\* undoit: an attempt that suspends takes its new coefficients back.
Undo(c) ==
    IF c.d.ok THEN c
    ELSE [c EXCEPT !.block = [k \in Band |-> IF k \in c.new THEN 0 ELSE @[k]]]

decode_mcu_AC_refine(src, d, blocks) ==
    LET ci == sc.comps[1]
    IN  SetBlock(blocks, ci,
            Undo(RefineBlock(src, [d |-> d, block |-> blocks[ci], new |-> {}, k |-> sc.Ss])))

\* Sequential mode: positions from limit on are only passed over.
RECURSIVE DecodeRest(_, _, _, _, _)
AfterWanted(src, x, block, k, at, limit) ==
    DecodeRest(src, x.rd, IF k < limit THEN SetAC(block, at, x) ELSE block, at + 1, limit)
DecodeWanted(src, h, block, k, limit) ==
    IF SizeOf(h) > 0
    THEN AfterWanted(src, Coefficient(src, h.rd, SizeOf(h)), block, k, k + RunOf(h), limit)
    ELSE IF IsZRL(h) THEN DecodeRest(src, h.rd, block, k + RunLimit, limit)
    ELSE [d |-> h.rd, block |-> block]
DecodeRest(src, d, block, k, limit) ==
    IF ~d.ok \/ k > Se_max THEN [d |-> d, block |-> block]
    ELSE DecodeWanted(src, HUFF_DECODE(src, d, d.ac_derived_tbl), block, k, limit)

\* decode_mcu and decode_mcu_sub.
DecodeBlock(src, acc, ci) ==
    SetBlock(acc.blocks, ci, DecodeRest(src, acc.d, acc.blocks[ci], 1, coef_limit[ci]))
decode_mcu(src, d, blocks) ==
    FoldLeft(LAMBDA acc, ci :
                 DecodeBlock(src, IF coef_limit[ci] > 0 THEN SetDC(acc, ci, DcDifference(src, acc.d))
                                  ELSE [acc EXCEPT !.d = DcDifference(src, acc.d).rd], ci),
             [d |-> d, blocks |-> blocks], sc.comps)

Decoded(src, d, blocks) ==
    IF ~sc.progressive THEN decode_mcu(src, d, blocks)
    ELSE IF sc.Ah = 0
    THEN IF sc.Ss = 0 THEN decode_mcu_DC_first(src, d, blocks)
                      ELSE decode_mcu_AC_first(src, d, blocks)
    ELSE IF sc.Ss = 0 THEN decode_mcu_DC_refine(src, d, blocks)
                      ELSE decode_mcu_AC_refine(src, d, blocks)

\* A refinement of DC changes nothing by reading zeroes, and does not ask.
NoData(d) == d.insufficient_data /\ ~(sc.progressive /\ sc.Ah > 0 /\ sc.Ss = 0)

OneLess(d) ==
    IF restart_interval = 0 THEN d ELSE [d EXCEPT !.restarts_to_go = @ - 1]

\* An attempt at the next MCU.  If it suspends, only what process_restart did stays,
\* the marker it met, and in output what the routine left there.
Permanent(d, attempt) ==
    [d EXCEPT !.unread_marker = attempt.unread_marker,
              !.insufficient_data = attempt.insufficient_data]

Source == SubSeq(data, 1, arrived)
AtMCU == IF AtRestart(decoder) THEN process_restart(Source, decoder) ELSE decoder

MCUDecoded(attempt) ==
    /\ output' = [output EXCEPT ![mcu + 1] = attempt.blocks]
    /\ attempt.d.ok
    /\ decoder' = OneLess(attempt.d) /\ mcu' = mcu + 1

MCUSuspended(d, attempt) ==
    /\ output' = [output EXCEPT ![mcu + 1] = attempt.blocks]
    /\ ~attempt.d.ok
    /\ decoder' = Permanent(d, attempt.d) /\ UNCHANGED mcu

DecodeMCU ==
    /\ pass = "decode" /\ mcu < Len(image)
    /\ \E d \in {AtMCU} :
          \/ ~d.ok /\ decoder' = [d EXCEPT !.ok = TRUE] /\ UNCHANGED <<mcu, output>>
          \/ d.ok /\ NoData(d)
             /\ decoder' = OneLess(d) /\ mcu' = mcu + 1 /\ UNCHANGED output
          \/ d.ok /\ ~NoData(d)
             /\ \E attempt \in {Decoded(Source, d, output[mcu + 1])} :
                   MCUDecoded(attempt) \/ MCUSuspended(d, attempt)
    /\ UNCHANGED <<settings, scan, pass, compressor, data, arrived, damaged>>

\* The marker behind the segment ends the scan.
NextScan ==
    /\ pass = "decode" /\ mcu = Len(image)
    /\ IF scan = Len(script)
       THEN pass' = "done" /\ UNCHANGED <<scan, mcu, encoder, counts, emitted>>
       ELSE /\ scan' = scan + 1 /\ pass' = "gather" /\ mcu' = 0
            /\ encoder' = StartedEncoder(restart_interval)
            /\ counts' = NoCounts /\ emitted' = NoCounts
    /\ UNCHANGED <<settings, htbl, writer, data, arrived, decoder, output, damaged>>

Next == \/ GatherMCU \/ RefuseCoefficient \/ finish_pass_gather
        \/ EncodeMCU \/ finish_pass_huff
        \/ \E first, last \in Units : Lose(first, last)
        \/ Arrive \/ DecodeMCU \/ NextScan

Spec == Init /\ [][Next]_vars

----------------------------------------------------------------------------
(* Properties.                                                             *)

\* Every variable has its type; between two MCUs the decoder is not in the middle of
\* one, and the correction bits of a run of blocks and those of the next MCU fit the
\* buffer (jchuff.c:885-890).
HuffmanTypeOK ==
    /\ image \in Images /\ script \in Scripts /\ restart_interval \in Intervals
    /\ scan \in DOMAIN script /\ mcu \in 0..Len(image)
    /\ pass \in {"gather", "encode", "decode", "done", "bad_coef"}
    /\ encoder.toks = <<>> /\ encoder.EOBRUN \in 0..(MaxEobrun - 1)
    /\ Len(encoder.BE) + Se_max <= MAX_CORR_BITS
    /\ decoder.ok /\ decoder.EOBRUN \in 0..MaxEobrun
    /\ arrived \in 0..Len(data) /\ decoder.next \in 1..(Len(data) + 1)
    /\ \A i \in DOMAIN data : data[i] \in 0..AllOnes
    /\ output \in [MCUs -> [Components -> Block]]
    /\ damaged \subseteq MCUs

\* The pass that counts the symbols of a scan and the one that writes them agree,
\* whatever they do differently: the restarts, the runs across MCUs, the correction
\* bits that force a run out ("This process MUST agree with the code above",
\* jchuff.c:1108).
GatherAgrees == pass \in {"decode", "done"} => emitted = counts

\* What a coefficient is after scans 1..n: what their point transforms leave of it.
Covering(ci, k, n) ==
    {i \in 1..n : ci \in ToSet(script[i].comps) /\ script[i].Ss <= k /\ k <= script[i].Se
                  /\ (script[i].progressive \/ k < coef_limit[ci])}
Approximation(v, k, Al) == 2^Al * (IF k = 0 THEN v \div 2^Al ELSE PointTransform(v, Al))
After(m, ci, k, n) ==
    LET scans == Covering(ci, k, n)
    IN  IF scans = {} THEN 0 ELSE Approximation(image[m][ci][k], k, script[Max(scans)].Al)

\* The scans whose data for MCU m has been decoded.
ScansOf(m) == IF pass = "done" \/ (pass = "decode" /\ m <= mcu) THEN scan ELSE scan - 1
Unwanted(ci, k) == k >= coef_limit[ci] /\ \E i \in DOMAIN script : ~script[i].progressive
IsExact(m) ==
    \A ci \in Components, k \in Band :
        Unwanted(ci, k) \/ output[m][ci][k] = After(m, ci, k, ScansOf(m))

\* Wherever the data is cut into arrivals, and however many attempts at an MCU had to
\* be given up in the middle, every scan leaves exactly its approximation in the
\* MCUs it has decoded, and the ones to come as they were (jdhuff.c:694-699).  After
\* the loss of data and of up to two restart markers this holds of the other
\* intervals of the scan, and of the scans after it (jdmarker.c:1330-1335).
ScansExact ==
    \A m \in MCUs \ damaged : (pass = "decode" /\ m = mcu + 1) \/ IsExact(m)

\* A table for so few symbols that no code comes near the limit is, with the
\* pseudo-symbol counted once, no longer than any other lengths of a prefix code
\* (jchuff.c:1226-1249); the pseudo-symbol has a longest code.
Cost(freq, length) == MapThenSumSet(LAMBDA s : freq[s] * length[s], DOMAIN freq)
IsPrefixCode(length) ==
    MapThenSumSet(LAMBDA s : 2^(CodeLimit - length[s]), DOMAIN length) <= 2^CodeLimit
Assigned(table, freq) ==
    LET sizes == huffsize(table)
    IN  [s \in DOMAIN freq \cup {Pseudo} |->
            IF s = Pseudo THEN sizes[Len(sizes)]
            ELSE sizes[CHOOSE p \in DOMAIN sizes : table.huffval[p] = s]]
IsOptimal(table, freq) ==
    LET all == freq @@ (Pseudo :> 1)
        own == Assigned(table, freq)
        cost == Cost(all, own)
    IN  /\ IsPrefixCode(own)
        /\ Cardinality(DOMAIN freq) < CodeLimit =>
               \A length \in [DOMAIN all -> 1..Cardinality(DOMAIN freq)] :
                   Cost(all, length) < cost => ~IsPrefixCode(length)
TablesOptimal ==
    pass = "encode" /\ mcu = 0 =>
        /\ NeedsDC => IsOptimal(htbl.dc, counts.dc)
        /\ NeedsAC => IsOptimal(htbl.ac, counts.ac)

\* Once all of a segment is there no attempt at an MCU suspends, whatever was lost of
\* it: behind the marker that ends it there are zeroes enough (jdhuff.c:534-556).
NeverStuck ==
    pass = "decode" /\ mcu < Len(image) /\ arrived = Len(data) =>
        \E d \in {AtMCU} :
            d.ok /\ (NoData(d) \/ Decoded(Source, d, output[mcu + 1]).d.ok)
=============================================================================
