----------------------------- MODULE PixelsProofs -----------------------------
(***************************************************************************)
(* Proofs about Pixels: the rows jpeg_write_scanlines has told the         *)
(* application are consumed are consumed, and all of them only when every  *)
(* iMCU row has been taken, for every image, every number of rows a call   *)
(* brings and every call the coefficient controller refuses.               *)
(*                                                                         *)
(* The counters of four routines must agree: next_scanline and row_ctr of  *)
(* jpeg_write_scanlines (jcapistd.c), cur_iMCU_row, rowgroup_ctr and       *)
(* suspended of the main controller (jcmainct.c), rows_to_go and           *)
(* next_buf_row of the preprocessor (jcprepct.c).  Compressing says how;   *)
(* it is the inductive invariant.                                          *)
(*                                                                         *)
(* With the counters the rows themselves are known: RowsKept says what the *)
(* buffers hold, and TakenExact that the iMCU rows taken are a function of *)
(* the image.                                                              *)
(*                                                                         *)
(* Reading, RowsReadExact says that what has been given to the             *)
(* application, or kept for the second pass, is the beginning of the image *)
(* that the iMCU rows hold, and where the rest of a row group waits.       *)
(*                                                                         *)
(* At full size and without dither the rows given back are the image's:    *)
(* ReadsWhole says that only a whole image is decompressed, and the colour *)
(* arithmetic that each pair of colour spaces gives a pixel back exactly   *)
(* or within the levels the 16-bit fixed point costs.                      *)
(*                                                                         *)
(* The sample a component has for a place is the rounded mean of a box of  *)
(* the image, by SamplingProofs for each method of jcsample.c: here the    *)
(* rows taken are those of its row groups, continued beyond the edges of   *)
(* the image, and the boxes of their rows are those of the component.      *)
(***************************************************************************)
EXTENDS Pixels, SamplingProofs, FiniteSetTheorems, TLAPS

-----------------------------------------------------------------------------
(* The invariant. *)

States == {"idle", "fill", "send"}

\* The counters are numbers of rows, row groups and iMCU rows.
CountersOK ==
    /\ app \in [at : States, next_scanline : Nat, row_ctr : Nat, avail : Nat]
    /\ cmain \in [cur_iMCU_row : Nat, rowgroup_ctr : 0..DCTSIZE, suspended : BOOLEAN]
    /\ prep \in [rows_to_go : Nat, next_buf_row : Nat, this_row_group : Nat,
                 next_buf_stop : Nat]

\* What the initialisation gives.
SetupOK ==
    /\ setup.height \in Nat \ {0}
    /\ setup.maxv \in Nat \ {0}
    /\ setup.context \in BOOLEAN
    /\ setup.total_iMCU_rows = Ceiling(setup.height, setup.maxv * DCTSIZE)

\* The row kept back for a refused iMCU row, and the row groups before this one.
HeldBack == IF cmain.suspended THEN 1 ELSE 0
GroupsDone == cmain.cur_iMCU_row * DCTSIZE + cmain.rowgroup_ctr

\* Between a call and the application's counters: all rows that the preprocessor
\* has seen are counted, but for the one that is kept back.
CallAgrees ==
    /\ app.next_scanline + app.row_ctr + HeldBack + prep.rows_to_go = setup.height
    /\ app.at = "idle" => app.row_ctr = 0
    /\ app.at # "idle" =>
          /\ app.avail >= 1
          /\ app.row_ctr <= app.avail
          /\ app.next_scanline + app.avail <= setup.height
    /\ cmain.suspended => cmain.rowgroup_ctr = DCTSIZE /\ app.row_ctr = 0
    /\ app.at = "idle" /\ ~cmain.suspended => cmain.rowgroup_ctr < DCTSIZE
    /\ app.at # "idle" /\ ~cmain.suspended /\ cmain.rowgroup_ctr = DCTSIZE => app.row_ctr >= 1
    /\ app.at = "send" => cmain.rowgroup_ctr = DCTSIZE

\* No iMCU row is taken that the image does not have, and none is missing once
\* the preprocessor has seen all rows and the call is over.
RowsLeft ==
    /\ cmain.cur_iMCU_row <= setup.total_iMCU_rows
    /\ cmain.cur_iMCU_row = setup.total_iMCU_rows
          => app.at = "idle" /\ ~cmain.suspended /\ prep.rows_to_go = 0
    /\ app.at = "idle" /\ ~cmain.suspended /\ prep.rows_to_go = 0
          => cmain.cur_iMCU_row = setup.total_iMCU_rows

\* The rows seen are those of the row groups done and of the one under way.
WithoutContextAgrees ==
    /\ prep.rows_to_go > 0 =>
          /\ prep.next_buf_row < setup.maxv
          /\ setup.height - prep.rows_to_go = GroupsDone * setup.maxv + prep.next_buf_row
    /\ prep.rows_to_go = 0 /\ cmain.cur_iMCU_row < setup.total_iMCU_rows
          => /\ cmain.rowgroup_ctr = DCTSIZE
             /\ cmain.cur_iMCU_row + 1 = setup.total_iMCU_rows

\* With context, the row group below is filled before this one is done.
ContextAgrees ==
    prep.rows_to_go > 0 =>
        /\ prep.next_buf_row < prep.next_buf_stop
        /\ prep.next_buf_stop <= prep.next_buf_row + 2 * setup.maxv
        /\ setup.height - prep.rows_to_go
             = (GroupsDone + 2) * setup.maxv - (prep.next_buf_stop - prep.next_buf_row)

Compressing ==
    /\ CountersOK
    /\ SetupOK
    /\ CallAgrees
    /\ RowsLeft
    /\ ~setup.context => WithoutContextAgrees
    /\ setup.context => ContextAgrees

-----------------------------------------------------------------------------
(* The setup. *)

\* The largest of a set of sampling factors is one of them.
LEMMA MaxOfFactors ==
    ASSUME NEW S \in SUBSET (1..4), S # {}
    PROVE  Max(S) \in S /\ (\A y \in S : Max(S) >= y) /\ Max(S) \in Nat \ {0}
  <1>1. PICK m \in S : \A y \in S : m >= y
    <2>1. CASE 4 \in S
      BY <2>1
    <2>2. CASE 4 \notin S /\ 3 \in S
      BY <2>2
    <2>3. CASE 4 \notin S /\ 3 \notin S /\ 2 \in S
      BY <2>3
    <2>4. CASE 4 \notin S /\ 3 \notin S /\ 2 \notin S
      <3>1. \A y \in S : y = 1
        <4>1. ASSUME NEW y \in S
              PROVE  y \in 1..4 /\ y # 4 /\ y # 3 /\ y # 2
          BY <2>4
        <4>2. \A y \in 1..4 : y # 4 /\ y # 3 /\ y # 2 => y = 1
          OBVIOUS
        <4> QED
          BY <4>1, <4>2, Zenon
      <3>2. PICK y \in S : TRUE
        OBVIOUS
      <3> QED
        BY <3>1, <3>2
    <2> QED
      BY <2>1, <2>2, <2>3, <2>4
  <1>2. Max(S) \in S /\ \A y \in S : Max(S) >= y
    BY <1>1, Zenon DEF Max
  <1>3. \A x \in S : x \in Nat \ {0}
    OBVIOUS
  <1> QED
    BY <1>2, <1>3, Zenon

\* The highest sampling factor, the image's height and its iMCU rows.
LEMMA SetupIsOK ==
    ASSUME NEW job \in Jobs, setup = initial_setup(job)
    PROVE  SetupOK
  <1> DEFINE S == {job.comps[k].v : k \in 1..Len(job.comps)}
  <1>1. job.height \in Nat \ {0} /\ job.comps \in Seq([h : 1..4, v : 1..4]) \ {<<>>}
    BY PixelsAssumption
  <1>2. S \in SUBSET (1..4) /\ S # {}
    <2>1. \A k \in 1..Len(job.comps) : job.comps[k] \in [h : 1..4, v : 1..4]
      <3> DEFINE F == [h : 1..4, v : 1..4]
      <3>1. job.comps \in Seq(F)
        BY <1>1
      <3> HIDE DEF F
      <3>2. \A k \in 1..Len(job.comps) : job.comps[k] \in F
        BY <3>1
      <3> QED
        BY <3>2 DEF F
    <2>2. 1 \in 1..Len(job.comps)
      BY <1>1
    <2> QED
      BY <2>1, <2>2
  <1>3. Max(S) \in Nat \ {0}
    <2> HIDE DEF S
    <2> QED
      BY <1>2, MaxOfFactors, Zenon
  <1>4. /\ setup.height = job.height
        /\ setup.maxv = Max(S)
        /\ setup.context \in BOOLEAN
        /\ setup.total_iMCU_rows = Ceiling(job.height, Max(S) * DCTSIZE)
    BY Zenon DEF initial_setup
  <1> QED
    BY <1>1, <1>3, <1>4, Zenon DEF SetupOK

\* How many iMCU rows the image has, said without a division.
LEMMA RowsOfImage ==
    ASSUME NEW H \in Nat \ {0}, NEW W \in Nat \ {0}, NEW m \in Nat
    PROVE  /\ Ceiling(H, W) \in Nat \ {0}
           /\ H > m * W => Ceiling(H, W) > m
           /\ H <= (m + 1) * W => Ceiling(H, W) <= m + 1
  <1> DEFINE c == (H + W - 1) \div W
  <1>1. c \in Int /\ c * W <= H + W - 1 /\ H + W - 1 < c * W + W
    BY SMTT(30)
  <1> HIDE DEF c
  <1>2. c > 0
    <2>1. SUFFICES ASSUME c <= 0
                   PROVE  FALSE
      BY <1>1
    <2>2. c * W <= 0
      BY <1>1, <2>1, SMTT(30)
    <2>3. c * W \in Int
      BY <1>1
    <2> QED
      BY <1>1, <2>2, <2>3
  <1>3. ASSUME H > m * W, c <= m
        PROVE  FALSE
    <2>1. c * W <= m * W
      BY <1>1, <1>3, SMTT(30)
    <2>2. c * W \in Int /\ m * W \in Int
      BY <1>1
    <2> QED
      BY <1>1, <1>3, <2>1, <2>2
  <1>4. ASSUME H <= (m + 1) * W, c >= m + 2
        PROVE  FALSE
    <2>1. (m + 2) * W <= c * W
      BY <1>1, <1>4, SMTT(30)
    <2>2. /\ (m + 2) * W = m * W + 2 * W /\ (m + 1) * W = m * W + W
          /\ c * W \in Int /\ m * W \in Int
      BY <1>1
    <2> QED
      BY <1>1, <1>4, <2>1, <2>2
  <1> QED
    BY <1>1, <1>2, <1>3, <1>4 DEF Ceiling, c

-----------------------------------------------------------------------------
(* The first state, and what the counters say together. *)

LEMMA InitCompressing == Init => Compressing
  <1> SUFFICES ASSUME Init
               PROVE  Compressing
    OBVIOUS
  <1>1. SetupOK
    BY SetupIsOK, Zenon DEF Init
  <1>2. /\ app = [at |-> "idle", next_scanline |-> 0, row_ctr |-> 0, avail |-> 0]
        /\ cmain = [cur_iMCU_row |-> 0, rowgroup_ctr |-> 0, suspended |-> FALSE]
        /\ prep = [rows_to_go |-> setup.height, next_buf_row |-> 0,
                   this_row_group |-> 0, next_buf_stop |-> 2 * setup.maxv]
    BY Zenon DEF Init, Idle, start_pass_main, start_pass_prep
  <1>3. setup.height \in Nat \ {0} /\ setup.maxv \in Nat \ {0} /\ DCTSIZE \in Nat \ {0}
    BY <1>1, PixelsAssumption DEF SetupOK
  <1>4. /\ setup.total_iMCU_rows = Ceiling(setup.height, setup.maxv * DCTSIZE)
        /\ setup.total_iMCU_rows \in Nat \ {0}
    <2>1. setup.maxv * DCTSIZE \in Nat \ {0}
      BY <1>3
    <2> QED
      BY <1>1, <1>3, <2>1, RowsOfImage, Zenon DEF SetupOK
  <1>5. CountersOK
    BY <1>2, <1>3 DEF CountersOK, States
  <1>6. CallAgrees
    BY <1>2, <1>3 DEF CallAgrees, HeldBack
  <1>7. RowsLeft
    BY <1>2, <1>3, <1>4 DEF RowsLeft
  <1>8. GroupsDone = 0
    BY <1>2, <1>3 DEF GroupsDone
  <1>9. WithoutContextAgrees
    BY <1>2, <1>3, <1>4, <1>8 DEF WithoutContextAgrees
  <1>10. ContextAgrees
    BY <1>2, <1>3, <1>8 DEF ContextAgrees
  <1> QED
    BY <1>1, <1>5, <1>6, <1>7, <1>9, <1>10 DEF Compressing

\* When nothing is kept back and nothing left to come, the iMCU rows are through.
LEMMA CompressingIsEnough == Compressing => DoneMeansTaken
  <1> SUFFICES ASSUME Compressing
               PROVE  DoneMeansTaken
    OBVIOUS
  <1>1. /\ app.next_scanline \in Nat /\ app.row_ctr \in Nat
        /\ prep.rows_to_go \in Nat /\ setup.height \in Nat
    BY DEF Compressing, CountersOK, SetupOK
  <1>2. app.next_scanline + app.row_ctr + HeldBack + prep.rows_to_go = setup.height
    BY DEF Compressing, CallAgrees
  <1>3. HeldBack \in {0, 1}
    BY DEF HeldBack
  <1>4. app.next_scanline + app.row_ctr <= setup.height
    BY <1>1, <1>2, <1>3
  <1>5. ASSUME app.at = "idle", app.next_scanline = setup.height
        PROVE  cmain.cur_iMCU_row = setup.total_iMCU_rows
    <2>1. HeldBack = 0 /\ prep.rows_to_go = 0
      BY ONLY <1>1, <1>2, <1>3, app.next_scanline = setup.height
    <2>2. ~cmain.suspended
      BY <2>1 DEF HeldBack
    <2> QED
      BY <1>5, <2>1, <2>2, Zenon DEF Compressing, RowsLeft
  <1> QED
    BY <1>4, <1>5 DEF DoneMeansTaken

-----------------------------------------------------------------------------
(* Steps that move no row. *)

\* The invariant reads the setup and three records of counters only.
LEMMA OthersKeepCompressing ==
    ASSUME Compressing, UNCHANGED <<setup, app, prep, cmain>>
    PROVE  Compressing'
  <1>1. setup' = setup /\ app' = app /\ prep' = prep /\ cmain' = cmain
    OBVIOUS
  <1> QED
    BY <1>1, Zenon DEF Compressing, CountersOK, SetupOK, CallAgrees, HeldBack, GroupsDone,
                       RowsLeft, WithoutContextAgrees, ContextAgrees

LEMMA SetupKept ==
    ASSUME SetupOK, setup' = setup
    PROVE  SetupOK'
  BY Zenon DEF SetupOK

\* The counters by name, and how many rows the row groups are.
LEMMA Counted ==
    ASSUME Compressing
    PROVE  /\ setup.height \in Nat \ {0} /\ setup.maxv \in Nat \ {0} /\ DCTSIZE \in Nat \ {0}
           /\ setup.total_iMCU_rows \in Nat \ {0}
           /\ app.next_scanline \in Nat /\ app.row_ctr \in Nat /\ app.avail \in Nat
           /\ prep.rows_to_go \in Nat /\ prep.next_buf_row \in Nat
           /\ prep.this_row_group \in Nat /\ prep.next_buf_stop \in Nat
           /\ cmain.cur_iMCU_row \in Nat /\ cmain.rowgroup_ctr \in 0..DCTSIZE
           /\ app.next_scanline + app.row_ctr + HeldBack + prep.rows_to_go = setup.height
  <1>1. setup.height \in Nat \ {0} /\ setup.maxv \in Nat \ {0} /\ DCTSIZE \in Nat \ {0}
    BY PixelsAssumption DEF Compressing, SetupOK
  <1>2. setup.total_iMCU_rows \in Nat \ {0}
    <2>1. setup.maxv * DCTSIZE \in Nat \ {0}
      BY <1>1
    <2> QED
      BY <1>1, <2>1, RowsOfImage, Zenon DEF Compressing, SetupOK
  <1>3. /\ app.next_scanline \in Nat /\ app.row_ctr \in Nat /\ app.avail \in Nat
        /\ prep.rows_to_go \in Nat /\ prep.next_buf_row \in Nat
        /\ prep.this_row_group \in Nat /\ prep.next_buf_stop \in Nat
        /\ cmain.cur_iMCU_row \in Nat /\ cmain.rowgroup_ctr \in 0..DCTSIZE
    BY DEF Compressing, CountersOK
  <1> QED
    BY <1>1, <1>2, <1>3, Zenon DEF Compressing, CallAgrees

\* The rows of the row groups before one, with those of its iMCU row.
LEMMA GroupRows ==
    ASSUME NEW D \in Nat \ {0}, NEW V \in Nat \ {0}, NEW cur \in Nat, NEW ctr \in 0..D
    PROVE  /\ (cur * D + ctr) * V \in Nat
           /\ (cur * D + (ctr + 1)) * V = (cur * D + ctr) * V + V
           /\ (cur * D + ctr + 2) * V = (cur * D + ctr) * V + 2 * V
           /\ (cur * D + (ctr + 1) + 2) * V = (cur * D + ctr) * V + 3 * V
           /\ cur * (V * D) <= (cur * D + ctr) * V
           /\ ctr < D => (cur * D + ctr) * V + V <= (cur + 1) * (V * D)
           /\ ctr = D => /\ (cur * D + ctr) * V = (cur + 1) * (V * D)
                         /\ (cur + 1) * D + 0 = cur * D + ctr
  <1> DEFINE base == cur * D
             rows == ctr * V
             all == base * V
  <1>1. base \in Nat /\ rows \in Nat
    BY SMTT(30)
  <1>2. all \in Nat /\ all = cur * (V * D)
    <2>1. cur * D * V = cur * (V * D)
      BY SMTT(30)
    <2> HIDE DEF base
    <2>2. all \in Nat
      BY <1>1
    <2> QED
      BY <2>1, <2>2 DEF base
  <1>3. /\ (base + ctr) * V = all + rows
        /\ (base + (ctr + 1)) * V = all + rows + V
        /\ (base + ctr + 2) * V = all + rows + 2 * V
        /\ (base + (ctr + 1) + 2) * V = all + rows + 3 * V
    <2> HIDE DEF base
    <2> QED
      BY <1>1, SMTT(30)
  <1>4. (cur + 1) * (V * D) = all + V * D /\ V * D \in Nat
    <2>1. \A w \in Nat : (cur + 1) * w = cur * w + w
      BY SMTT(30)
    <2>2. V * D \in Nat
      OBVIOUS
    <2> QED
      BY <1>2, <2>1, <2>2, Zenon
  <1>5. ctr < D => rows + V <= V * D
    <2>1. SUFFICES ASSUME ctr + 1 <= D
                   PROVE  (ctr + 1) * V <= V * D
      BY SMTT(30)
    <2> QED
      BY <2>1, SMTT(30)
  <1>6. ctr = D => rows = V * D /\ (cur + 1) * D + 0 = base + ctr
    BY SMTT(30)
  <1> HIDE DEF rows, all
  <1>7. /\ (base + ctr) * V \in Nat
        /\ cur * (V * D) <= (base + ctr) * V
        /\ ctr < D => (base + ctr) * V + V <= (cur + 1) * (V * D)
        /\ ctr = D => (base + ctr) * V = (cur + 1) * (V * D)
    <2> HIDE DEF base
    <2> QED
      BY <1>1, <1>2, <1>3, <1>4, <1>5, <1>6
  <1> QED
    BY <1>3, <1>6, <1>7, Zenon

-----------------------------------------------------------------------------
(* The steps of a call. *)

LEMMA WriteKeeps ==
    ASSUME Compressing, NEW n \in Lines, jpeg_write_scanlines(n)
    PROVE  Compressing'
  <1>1. /\ app.at = "idle" /\ app.next_scanline < setup.height
        /\ app' = [app EXCEPT !.at = "fill", !.row_ctr = 0,
                              !.avail = Smaller(n, setup.height - app.next_scanline)]
        /\ setup' = setup /\ prep' = prep /\ cmain' = cmain
    BY Zenon DEF jpeg_write_scanlines
  <1>2. n \in Nat \ {0}
    BY PixelsAssumption
  <1>3. CountersOK /\ SetupOK /\ CallAgrees /\ RowsLeft
    BY DEF Compressing
  <1>4. /\ app.row_ctr = 0 /\ HeldBack' = HeldBack /\ HeldBack \in {0, 1}
        /\ ~cmain.suspended => HeldBack = 0
    BY <1>1, <1>3 DEF CallAgrees, HeldBack
  <1> DEFINE m == Smaller(n, setup.height - app.next_scanline)
  <1>5. m \in Nat /\ m >= 1 /\ app.next_scanline + m <= setup.height
    BY <1>1, <1>2, Counted DEF Smaller
  <1> HIDE DEF m
  <1>6. /\ app'.at = "fill" /\ app'.row_ctr = 0 /\ app'.avail = m
        /\ app'.next_scanline = app.next_scanline
    BY <1>1, <1>3 DEF CountersOK, m
  <1>7. CountersOK'
    BY <1>1, <1>3, <1>5 DEF CountersOK, States, m
  <1>8. CallAgrees'
    <2>1. cmain.suspended => cmain.rowgroup_ctr = DCTSIZE
      BY <1>3 DEF CallAgrees
    <2>2. ~cmain.suspended => cmain.rowgroup_ctr # DCTSIZE
      BY <1>1, <1>3, Counted DEF CallAgrees
    <2> QED
      BY <1>1, <1>4, <1>5, <1>6, <2>1, <2>2, Counted DEF CallAgrees
  <1>9. RowsLeft'
    <2>1. cmain.cur_iMCU_row # setup.total_iMCU_rows
      <3>1. SUFFICES ASSUME cmain.cur_iMCU_row = setup.total_iMCU_rows
                     PROVE  FALSE
        OBVIOUS
      <3>2. prep.rows_to_go = 0 /\ ~cmain.suspended
        BY <1>3, <3>1, Zenon DEF RowsLeft
      <3>3. HeldBack = 0
        BY <1>4, <3>2, Zenon
      <3> QED
        BY <1>1, <1>4, <3>2, <3>3, Counted
    <2> QED
      BY <1>1, <1>3, <1>6, <2>1 DEF RowsLeft
  <1>10. GroupsDone' = GroupsDone
    BY <1>1, Zenon DEF GroupsDone
  <1>11. WithoutContextAgrees' = WithoutContextAgrees /\ ContextAgrees' = ContextAgrees
    BY <1>1, <1>10, Zenon DEF WithoutContextAgrees, ContextAgrees
  <1> QED
    BY <1>1, <1>3, <1>7, <1>8, <1>9, <1>11, SetupKept, Zenon DEF Compressing

LEMMA PreProcessedKeeps ==
    ASSUME Compressing, PreProcessed
    PROVE  Compressing'
  <1>1. /\ app.at = "fill" /\ setup' = setup /\ prep' = prep /\ cmain' = cmain
        /\ \/ cmain.rowgroup_ctr = DCTSIZE /\ app' = [app EXCEPT !.at = "send"]
           \/ /\ cmain.rowgroup_ctr < DCTSIZE /\ app.row_ctr = app.avail
              /\ setup.context => prep.rows_to_go # 0
              /\ app' = Returned(app)
    BY Zenon DEF PreProcessed
  <1>2. CountersOK /\ SetupOK /\ CallAgrees /\ RowsLeft
    BY DEF Compressing
  <1>3. HeldBack' = HeldBack /\ GroupsDone' = GroupsDone
    BY <1>1, Zenon DEF HeldBack, GroupsDone
  <1>4. WithoutContextAgrees' = WithoutContextAgrees /\ ContextAgrees' = ContextAgrees
    BY <1>1, <1>3, Zenon DEF WithoutContextAgrees, ContextAgrees
  <1>5. cmain.cur_iMCU_row # setup.total_iMCU_rows
    BY <1>1, <1>2 DEF RowsLeft
  <1>6. CASE cmain.rowgroup_ctr = DCTSIZE /\ app' = [app EXCEPT !.at = "send"]
    <2>1. /\ app'.at = "send" /\ app'.row_ctr = app.row_ctr /\ app'.avail = app.avail
          /\ app'.next_scanline = app.next_scanline
      BY <1>2, <1>6 DEF CountersOK
    <2>2. CountersOK'
      BY <1>1, <1>2, <1>6 DEF CountersOK, States
    <2>3. CallAgrees'
      BY <1>1, <1>2, <1>3, <1>6, <2>1 DEF CallAgrees
    <2>4. RowsLeft'
      BY <1>1, <1>2, <1>5, <2>1 DEF RowsLeft
    <2> QED
      BY <1>1, <1>2, <1>4, <2>2, <2>3, <2>4, SetupKept, Zenon DEF Compressing
  <1>7. CASE /\ cmain.rowgroup_ctr < DCTSIZE /\ app.row_ctr = app.avail
             /\ setup.context => prep.rows_to_go # 0
             /\ app' = Returned(app)
    <2>1. /\ app' = [at |-> "idle", next_scanline |-> app.next_scanline + app.row_ctr,
                     row_ctr |-> 0, avail |-> 0]
      BY <1>7, Zenon DEF Returned, Idle
    <2>2. CountersOK'
      BY <1>1, <1>2, <2>1, Counted DEF CountersOK, States
    <2>3. ~cmain.suspended
      BY <1>2, <1>7, Counted DEF CallAgrees
    <2>4. CallAgrees'
      BY <1>1, <1>2, <1>3, <1>7, <2>1, <2>3, Counted DEF CallAgrees
    <2>5. prep.rows_to_go # 0
      <3>1. SUFFICES ASSUME ~setup.context
                     PROVE  prep.rows_to_go # 0
        BY <1>7
      <3>2. WithoutContextAgrees
        BY <3>1, Zenon DEF Compressing
      <3>3. cmain.cur_iMCU_row < setup.total_iMCU_rows
        BY <1>2, <1>5, Counted DEF RowsLeft
      <3> QED
        BY <1>7, <3>2, <3>3, Counted DEF WithoutContextAgrees
    <2>6. RowsLeft'
      BY <1>1, <1>2, <1>5, <2>5 DEF RowsLeft
    <2> QED
      BY <1>1, <1>2, <1>4, <2>2, <2>4, <2>6, SetupKept, Zenon DEF Compressing
  <1> QED
    BY <1>1, <1>6, <1>7, Zenon

\* Rows that are left belong to another iMCU row than one that is full.
LEMMA RowsLeftMeansMore ==
    ASSUME Compressing, cmain.rowgroup_ctr = DCTSIZE, prep.rows_to_go > 0
    PROVE  cmain.cur_iMCU_row + 1 < setup.total_iMCU_rows
  <1> DEFINE V == setup.maxv
             cur == cmain.cur_iMCU_row
             seen == setup.height - prep.rows_to_go
  <1>1. V \in Nat \ {0} /\ cur \in Nat /\ seen \in Int /\ seen < setup.height
    BY Counted
  <1>2. GroupsDone = cur * DCTSIZE + DCTSIZE
    BY Zenon DEF GroupsDone
  <1> HIDE DEF V, cur, seen
  <1>3. /\ (cur * DCTSIZE + DCTSIZE) * V \in Nat
        /\ (cur * DCTSIZE + DCTSIZE + 2) * V = (cur * DCTSIZE + DCTSIZE) * V + 2 * V
        /\ (cur * DCTSIZE + DCTSIZE) * V = (cur + 1) * (V * DCTSIZE)
    <2>1. DCTSIZE \in Nat \ {0} /\ DCTSIZE \in 0..DCTSIZE
      BY PixelsAssumption
    <2> QED
      BY <1>1, <2>1, GroupRows
  <1>4. seen >= (cur * DCTSIZE + DCTSIZE) * V
    <2>1. CASE ~setup.context
      <3>1. seen = (cur * DCTSIZE + DCTSIZE) * V + prep.next_buf_row
        BY <1>2, <2>1 DEF Compressing, WithoutContextAgrees, V, seen
      <3> QED
        BY <1>1, <1>3, <3>1, Counted
    <2>2. CASE setup.context
      <3>1. /\ seen = (cur * DCTSIZE + DCTSIZE + 2) * V
                          - (prep.next_buf_stop - prep.next_buf_row)
            /\ prep.next_buf_stop <= prep.next_buf_row + 2 * V
        BY <1>2, <2>2 DEF Compressing, ContextAgrees, V, seen
      <3>2. prep.next_buf_stop \in Nat /\ prep.next_buf_row \in Nat
        BY Counted
      <3> QED
        BY <1>1, <1>3, <3>1, <3>2
    <2> QED
      BY <2>1, <2>2
  <1>5. setup.height > (cur + 1) * (V * DCTSIZE)
    BY <1>1, <1>3, <1>4, Counted
  <1>6. V * DCTSIZE \in Nat \ {0} /\ cur + 1 \in Nat
    BY <1>1, PixelsAssumption
  <1>7. setup.total_iMCU_rows = Ceiling(setup.height, V * DCTSIZE)
    BY DEF Compressing, SetupOK, V
  <1>8. Ceiling(setup.height, V * DCTSIZE) > cur + 1
    <2>1. setup.height \in Nat \ {0}
      BY Counted
    <2> DEFINE W == V * DCTSIZE
    <2>2. W \in Nat \ {0} /\ setup.height > (cur + 1) * W
      BY <1>5, <1>6
    <2> HIDE DEF W
    <2>3. Ceiling(setup.height, W) > cur + 1
      BY <1>6, <2>1, <2>2, RowsOfImage
    <2> QED
      BY <2>3 DEF W
  <1> QED
    BY <1>1, <1>7, <1>8, Counted DEF cur

LEMMA CompressDataKeeps ==
    ASSUME Compressing, compress_data
    PROVE  Compressing'
  <1> DEFINE r == app.row_ctr + HeldBack
  <1>1. /\ app.at = "send" /\ setup' = setup /\ prep' = prep
        /\ cmain' = [cur_iMCU_row |-> cmain.cur_iMCU_row + 1, rowgroup_ctr |-> 0,
                     suspended |-> FALSE]
    BY Zenon DEF compress_data
  <1>2. CountersOK /\ SetupOK /\ CallAgrees /\ RowsLeft
    BY DEF Compressing
  <1>3. /\ cmain.rowgroup_ctr = DCTSIZE
        /\ cmain.cur_iMCU_row + 1 <= setup.total_iMCU_rows
    BY <1>1, <1>2, Counted DEF CallAgrees, RowsLeft
  <1>4. r \in Nat /\ r >= 1 /\ r <= app.avail
    <2>1. CASE cmain.suspended
      <3>1. HeldBack = 1
        BY <2>1, Zenon DEF HeldBack
      <3> QED
        BY <1>1, <1>2, <2>1, <3>1, Counted DEF CallAgrees
    <2>2. CASE ~cmain.suspended
      <3>1. HeldBack = 0
        BY <2>2, Zenon DEF HeldBack
      <3> QED
        BY <1>1, <1>2, <1>3, <2>2, <3>1, Counted DEF CallAgrees
    <2> QED
      BY <2>1, <2>2, Zenon
  <1>5. /\ app.next_scanline + r + prep.rows_to_go = setup.height
        /\ app.next_scanline + app.avail <= setup.height
    BY <1>1, <1>2, Counted DEF CallAgrees, HeldBack
  <1>6. app.row_ctr + 0 = app.row_ctr
    BY Counted
  <1>7. r = IF cmain.suspended THEN app.row_ctr + 1 ELSE app.row_ctr
    BY <1>6, Zenon DEF HeldBack
  <1> HIDE DEF r
  <1>8. IF cmain.cur_iMCU_row + 1 < setup.total_iMCU_rows
        THEN app' = [at |-> "fill", next_scanline |-> app.next_scanline,
                     row_ctr |-> r, avail |-> app.avail]
        ELSE app' = [at |-> "idle", next_scanline |-> app.next_scanline + r,
                     row_ctr |-> 0, avail |-> 0]
    <2> DEFINE counted == [app EXCEPT !.row_ctr = IF cmain.suspended THEN @ + 1 ELSE @]
    <2>1. app' = IF cmain.cur_iMCU_row + 1 < setup.total_iMCU_rows
                 THEN [counted EXCEPT !.at = "fill"]
                 ELSE Returned(counted)
      BY Zenon DEF compress_data
    <2>2. counted = [app EXCEPT !.row_ctr = r]
      BY <1>7, Zenon
    <2>3. counted = [at |-> app.at, next_scanline |-> app.next_scanline,
                     row_ctr |-> r, avail |-> app.avail]
      <3> HIDE DEF counted
      <3> QED
        BY <1>2, <2>2 DEF CountersOK
    <2> HIDE DEF counted
    <2> QED
      BY <2>1, <2>3 DEF Returned, Idle
  <1>9. HeldBack' = 0
    BY <1>1 DEF HeldBack
  <1>10. GroupsDone' = GroupsDone
    <2> DEFINE cur == cmain.cur_iMCU_row
    <2>1. GroupsDone = cur * DCTSIZE + DCTSIZE /\ GroupsDone' = (cur + 1) * DCTSIZE + 0
      BY <1>1, <1>3 DEF GroupsDone
    <2>2. cur \in Nat
      BY Counted
    <2> HIDE DEF cur
    <2>3. DCTSIZE \in Nat \ {0}
      BY PixelsAssumption
    <2> QED
      BY <2>1, <2>2, <2>3, SMTT(30)
  <1>11. CountersOK'
    <2>1. CASE cmain.cur_iMCU_row + 1 < setup.total_iMCU_rows
      BY <1>1, <1>2, <1>4, <1>8, <2>1, Counted DEF CountersOK, States
    <2>2. CASE ~(cmain.cur_iMCU_row + 1 < setup.total_iMCU_rows)
      BY <1>1, <1>2, <1>4, <1>8, <2>2, Counted DEF CountersOK, States
    <2> QED
      BY <2>1, <2>2, Zenon
  <1>12. CallAgrees'
    <2>1. /\ cmain'.rowgroup_ctr = 0 /\ cmain'.suspended = FALSE /\ DCTSIZE \in Nat \ {0}
      BY <1>1, PixelsAssumption
    <2>2. CASE cmain.cur_iMCU_row + 1 < setup.total_iMCU_rows
      BY <1>1, <1>4, <1>5, <1>8, <1>9, <2>1, <2>2, Counted DEF CallAgrees
    <2>3. CASE ~(cmain.cur_iMCU_row + 1 < setup.total_iMCU_rows)
      BY <1>1, <1>4, <1>5, <1>8, <1>9, <2>1, <2>3, Counted DEF CallAgrees
    <2> QED
      BY <2>2, <2>3, Zenon
  <1>13. RowsLeft'
    <2>1. cmain.cur_iMCU_row + 1 = setup.total_iMCU_rows => prep.rows_to_go = 0
      BY <1>3, Counted, RowsLeftMeansMore
    <2>2. cmain'.cur_iMCU_row = cmain.cur_iMCU_row + 1 /\ ~cmain'.suspended
      BY <1>1
    <2>3. CASE cmain.cur_iMCU_row + 1 < setup.total_iMCU_rows
      BY <1>1, <1>3, <1>8, <2>2, <2>3, Counted DEF RowsLeft
    <2>4. CASE ~(cmain.cur_iMCU_row + 1 < setup.total_iMCU_rows)
      BY <1>1, <1>3, <1>8, <2>1, <2>2, <2>4, Counted DEF RowsLeft
    <2> QED
      BY <2>3, <2>4, Zenon
  <1>14. ~setup.context => WithoutContextAgrees'
    <2>1. SUFFICES ASSUME ~setup.context
                   PROVE  WithoutContextAgrees'
      OBVIOUS
    <2>2. WithoutContextAgrees
      BY <2>1, Zenon DEF Compressing
    <2>3. cmain'.cur_iMCU_row = cmain.cur_iMCU_row + 1
      BY <1>1
    <2> QED
      BY <1>1, <1>3, <1>10, <2>2, <2>3, Counted DEF WithoutContextAgrees
  <1>15. ContextAgrees' = ContextAgrees
    BY <1>1, <1>10, Zenon DEF ContextAgrees
  <1> QED
    BY <1>1, <1>2, <1>11, <1>12, <1>13, <1>14, <1>15, SetupKept, Zenon DEF Compressing

LEMMA SuspendsKeeps ==
    ASSUME Compressing, compress_data_suspends
    PROVE  Compressing'
  <1> DEFINE r == IF cmain.suspended THEN app.row_ctr ELSE app.row_ctr - 1
  <1>1. /\ app.at = "send" /\ setup' = setup /\ prep' = prep
        /\ cmain' = [cmain EXCEPT !.suspended = TRUE]
        /\ app' = Returned([app EXCEPT !.row_ctr = IF cmain.suspended THEN @ ELSE @ - 1])
    BY Zenon DEF compress_data_suspends
  <1>2. CountersOK /\ SetupOK /\ CallAgrees /\ RowsLeft
    BY DEF Compressing
  <1>3. cmain.rowgroup_ctr = DCTSIZE /\ cmain.cur_iMCU_row # setup.total_iMCU_rows
    BY <1>1, <1>2 DEF CallAgrees, RowsLeft
  <1>4. r \in Nat /\ app.next_scanline + r + 1 + prep.rows_to_go = setup.height
    <2>1. CASE cmain.suspended
      BY <1>1, <1>2, <1>3, <2>1, Counted DEF CallAgrees, HeldBack
    <2>2. CASE ~cmain.suspended
      BY <1>1, <1>2, <1>3, <2>2, Counted DEF CallAgrees, HeldBack
    <2> QED
      BY <2>1, <2>2, Zenon
  <1>5. app' = Returned([app EXCEPT !.row_ctr = r])
    BY <1>1, Zenon
  <1> HIDE DEF r
  <1>6. app' = [at |-> "idle", next_scanline |-> app.next_scanline + r,
                row_ctr |-> 0, avail |-> 0]
    BY <1>2, <1>5 DEF CountersOK, Returned, Idle
  <1>7. /\ cmain'.cur_iMCU_row = cmain.cur_iMCU_row /\ cmain'.rowgroup_ctr = cmain.rowgroup_ctr
        /\ cmain'.suspended = TRUE
    BY <1>1, <1>2 DEF CountersOK
  <1>8. HeldBack' = 1
    BY <1>7, Zenon DEF HeldBack
  <1>9. GroupsDone' = GroupsDone
    BY <1>7, Zenon DEF GroupsDone
  <1>10. CountersOK'
    <2>1. app' \in [at : States, next_scanline : Nat, row_ctr : Nat, avail : Nat]
      BY <1>4, <1>6, Counted DEF States
    <2>2. cmain' \in [cur_iMCU_row : Nat, rowgroup_ctr : 0..DCTSIZE, suspended : BOOLEAN]
      BY <1>1, <1>2, Zenon DEF CountersOK
    <2> QED
      BY <1>1, <1>2, <2>1, <2>2, Zenon DEF CountersOK
  <1>11. CallAgrees'
    BY <1>1, <1>3, <1>4, <1>6, <1>7, <1>8, Counted DEF CallAgrees
  <1>12. RowsLeft'
    BY <1>1, <1>2, <1>3, <1>6, <1>7, Counted DEF RowsLeft
  <1>13. WithoutContextAgrees' = WithoutContextAgrees /\ ContextAgrees' = ContextAgrees
    BY <1>1, <1>7, <1>9, Zenon DEF WithoutContextAgrees, ContextAgrees
  <1> QED
    BY <1>1, <1>2, <1>10, <1>11, <1>12, <1>13, SetupKept, Zenon DEF Compressing

LEMMA PreProcessDataKeeps ==
    ASSUME Compressing, pre_process_data
    PROVE  Compressing'
  <1> DEFINE V == setup.maxv
             numrows == Smaller(setup.maxv - prep.next_buf_row, app.avail - app.row_ctr)
             next == prep.next_buf_row + numrows
             bottom == prep.rows_to_go = numrows
             full == bottom \/ next = setup.maxv
             ctr == IF full THEN cmain.rowgroup_ctr + 1 ELSE cmain.rowgroup_ctr
             end == IF bottom THEN DCTSIZE ELSE ctr
             row == IF full THEN 0 ELSE next
  <1>1. /\ app.at = "fill" /\ ~setup.context
        /\ app.row_ctr < app.avail /\ cmain.rowgroup_ctr < DCTSIZE
        /\ setup' = setup
    BY Zenon DEF pre_process_data
  <1>2. cmain' = [cmain EXCEPT !.rowgroup_ctr = end]
    BY Zenon DEF pre_process_data
  <1>3. prep' = [prep EXCEPT !.rows_to_go = @ - numrows, !.next_buf_row = row]
    BY Zenon DEF pre_process_data
  <1>4. app' = [app EXCEPT !.row_ctr = @ + numrows]
    BY Zenon DEF pre_process_data
  <1>5. CountersOK /\ SetupOK /\ CallAgrees /\ RowsLeft /\ WithoutContextAgrees
    BY <1>1 DEF Compressing
  <1>6. ~cmain.suspended /\ HeldBack = 0
    BY <1>1, <1>5, Counted DEF CallAgrees, HeldBack
  <1>7. /\ prep.rows_to_go > 0
        /\ app.avail - app.row_ctr <= prep.rows_to_go
    BY <1>1, <1>5, <1>6, Counted DEF CallAgrees
  <1>8. /\ prep.next_buf_row < V
        /\ setup.height - prep.rows_to_go = GroupsDone * V + prep.next_buf_row
    BY <1>5, <1>7 DEF WithoutContextAgrees
  <1>9. /\ numrows \in Nat /\ numrows >= 1
        /\ prep.next_buf_row + numrows <= V
        /\ app.row_ctr + numrows <= app.avail
        /\ numrows <= prep.rows_to_go
    BY <1>1, <1>7, <1>8, Counted DEF Smaller
  <1> HIDE DEF numrows
  <1>10. next \in Nat /\ next >= 1 /\ next <= V /\ V \in Nat \ {0}
    BY <1>9, Counted
  <1>11. ctr \in 0..DCTSIZE /\ end \in 0..DCTSIZE /\ row \in Nat
    BY <1>1, <1>10, Counted
  <1>12. cmain.cur_iMCU_row # setup.total_iMCU_rows
    BY <1>1, <1>5 DEF RowsLeft
  <1>13. /\ cmain'.cur_iMCU_row = cmain.cur_iMCU_row
         /\ cmain'.rowgroup_ctr = end /\ cmain'.suspended = cmain.suspended
         /\ cmain' \in [cur_iMCU_row : Nat, rowgroup_ctr : 0..DCTSIZE, suspended : BOOLEAN]
    <2> HIDE DEF end
    <2> QED
      BY <1>2, <1>5, <1>11, Zenon DEF CountersOK
  <1>14. /\ prep'.rows_to_go = prep.rows_to_go - numrows
         /\ prep'.next_buf_row = row
         /\ prep' \in [rows_to_go : Nat, next_buf_row : Nat, this_row_group : Nat,
                       next_buf_stop : Nat]
    <2> HIDE DEF row
    <2>1. prep.rows_to_go - numrows \in Nat
      BY <1>9, Counted
    <2> QED
      BY <1>3, <1>5, <1>11, <2>1 DEF CountersOK
  <1>15. /\ app'.at = app.at /\ app'.next_scanline = app.next_scanline
         /\ app'.row_ctr = app.row_ctr + numrows /\ app'.avail = app.avail
         /\ app' \in [at : States, next_scanline : Nat, row_ctr : Nat, avail : Nat]
    BY <1>4, <1>5, <1>9, Counted DEF CountersOK
  <1>16. CountersOK'
    BY <1>13, <1>14, <1>15, Zenon DEF CountersOK
  <1>17. HeldBack' = 0
    BY <1>6, <1>13, Zenon DEF HeldBack
  <1>18. CallAgrees'
    <2> HIDE DEF end, row
    <2>1. app'.next_scanline + app'.row_ctr + HeldBack' + prep'.rows_to_go = setup.height
      BY <1>6, <1>9, <1>14, <1>15, <1>17, Counted
    <2>2. app.next_scanline + app.avail <= setup.height /\ app.avail >= 1
      BY <1>1, <1>5 DEF CallAgrees
    <2>3. app'.row_ctr <= app'.avail /\ app'.row_ctr >= 1
      BY <1>9, <1>15, Counted
    <2>4. app'.at = "fill" /\ ~cmain'.suspended
      BY <1>1, <1>6, <1>13, <1>15, Zenon
    <2> QED
      BY <1>1, <1>15, <2>1, <2>2, <2>3, <2>4 DEF CallAgrees
  \* The bottom of the image is in this iMCU row, which is the last.
  <1>19. bottom => cmain.cur_iMCU_row + 1 = setup.total_iMCU_rows
    <2>1. SUFFICES ASSUME bottom
                   PROVE  cmain.cur_iMCU_row + 1 = setup.total_iMCU_rows
      OBVIOUS
    <2> DEFINE cur == cmain.cur_iMCU_row
               old == cmain.rowgroup_ctr
               W == V * DCTSIZE
    <2>2. cur \in Nat /\ old \in 0..DCTSIZE /\ old < DCTSIZE /\ DCTSIZE \in Nat \ {0}
      BY <1>1, Counted
    <2>3. W \in Nat \ {0} /\ setup.height \in Nat \ {0}
      BY <1>10, <2>2, Counted
    <2>4. setup.height = (cur * DCTSIZE + old) * V + next
      <3>1. setup.height - numrows = (cur * DCTSIZE + old) * V + prep.next_buf_row
        BY <1>8, <2>1 DEF GroupsDone
      <3> DEFINE rows == (cur * DCTSIZE + old) * V
      <3>2. rows \in Nat
        <4> HIDE DEF cur, old, V
        <4> QED
          BY <1>10, <2>2, GroupRows, Zenon
      <3> HIDE DEF rows, cur, old, V
      <3>3. setup.height = rows + next
        <4>1. setup.height - numrows = rows + prep.next_buf_row
          BY <3>1 DEF rows
        <4> QED
          BY <1>9, <3>2, <4>1, Counted
      <3> QED
        BY <3>3 DEF rows
    <2>5. setup.total_iMCU_rows = Ceiling(setup.height, W)
      BY <1>5 DEF SetupOK
    <2> HIDE DEF cur, old, V
    <2>6. /\ (cur * DCTSIZE + old) * V \in Nat
          /\ cur * W <= (cur * DCTSIZE + old) * V
          /\ (cur * DCTSIZE + old) * V + V <= (cur + 1) * W
      BY <1>10, <2>2, GroupRows
    <2> DEFINE rows == (cur * DCTSIZE + old) * V
    <2> HIDE DEF W, rows, next
    <2>7. setup.height = rows + next /\ rows \in Nat /\ cur * W <= rows /\ rows + V <= (cur + 1) * W
      BY <2>4, <2>6 DEF rows
    <2>8. cur * W \in Nat /\ (cur + 1) * W \in Nat
      BY <2>2, <2>3
    <2>9. setup.height > cur * W /\ setup.height <= (cur + 1) * W
      BY <1>10, <2>7, <2>8
    <2>10. Ceiling(setup.height, W) > cur /\ Ceiling(setup.height, W) <= cur + 1
      BY <2>2, <2>3, <2>9, RowsOfImage
    <2>11. Ceiling(setup.height, W) \in Nat
      BY <2>3, RowsOfImage
    <2> QED
      BY <2>2, <2>5, <2>10, <2>11 DEF cur
  <1>20. WithoutContextAgrees'
    <2>1. CASE bottom
      <3>1. prep'.rows_to_go = 0 /\ end = DCTSIZE
        BY <1>9, <1>14, <2>1, Counted
      <3> HIDE DEF end
      <3> QED
        BY <1>1, <1>13, <1>19, <2>1, <3>1 DEF WithoutContextAgrees
    <2>2. CASE ~bottom
      <3>1. prep'.rows_to_go # 0 /\ prep'.rows_to_go \in Nat
        BY <1>9, <1>14, <2>2, Counted
      <3>2. setup.height - prep'.rows_to_go = GroupsDone * V + next
        <4> DEFINE rows == GroupsDone * V
        <4>1. rows \in Nat
          <5>1. /\ cmain.cur_iMCU_row \in Nat /\ cmain.rowgroup_ctr \in 0..DCTSIZE
                /\ DCTSIZE \in Nat \ {0}
            BY Counted
          <5> HIDE DEF V
          <5> QED
            BY <1>10, <5>1, GroupRows, Zenon DEF GroupsDone
        <4>2. setup.height - prep.rows_to_go = rows + prep.next_buf_row
          BY <1>8
        <4> HIDE DEF rows
        <4>3. setup.height - prep'.rows_to_go = rows + next
          <5>1. /\ setup.height \in Nat /\ prep.rows_to_go \in Nat
                /\ prep.next_buf_row \in Nat /\ numrows \in Nat
            BY <1>9, Counted
          <5>2. prep'.rows_to_go = prep.rows_to_go - numrows
            BY <1>14
          <5> QED
            BY ONLY <4>1, <4>2, <5>1, <5>2
        <4> QED
          BY <4>3 DEF rows
      <3>3. CASE next = V
        <4>1. /\ prep'.next_buf_row = 0 /\ cmain'.rowgroup_ctr = cmain.rowgroup_ctr + 1
          BY <1>13, <1>14, <2>2, <3>3
        <4>2. GroupsDone' * V = GroupsDone * V + V /\ GroupsDone * V \in Nat
          <5>1. /\ cmain.cur_iMCU_row \in Nat /\ cmain.rowgroup_ctr \in 0..DCTSIZE
                /\ DCTSIZE \in Nat \ {0}
            BY Counted
          <5>2. GroupsDone' = cmain.cur_iMCU_row * DCTSIZE + (cmain.rowgroup_ctr + 1)
            BY <1>13, <4>1, Zenon DEF GroupsDone
          <5>3. GroupsDone = cmain.cur_iMCU_row * DCTSIZE + cmain.rowgroup_ctr
            BY Zenon DEF GroupsDone
          <5> DEFINE cur == cmain.cur_iMCU_row
                     old == cmain.rowgroup_ctr
          <5> HIDE DEF V, cur, old
          <5>4. /\ (cur * DCTSIZE + (old + 1)) * V = (cur * DCTSIZE + old) * V + V
                /\ (cur * DCTSIZE + old) * V \in Nat
            <6>1. cur \in Nat /\ old \in 0..DCTSIZE
              BY <5>1 DEF cur, old
            <6> QED
              BY <1>10, <5>1, <6>1, GroupRows
          <5> QED
            BY <5>2, <5>3, <5>4, Zenon DEF cur, old
        <4>3. setup.height - prep'.rows_to_go = GroupsDone' * V + prep'.next_buf_row
          <5> DEFINE rows == GroupsDone * V
          <5>1. rows \in Nat /\ GroupsDone' * V = rows + V
            BY <4>2
          <5>2. setup.height - prep'.rows_to_go = rows + V
            BY <3>2, <3>3
          <5> HIDE DEF rows, V
          <5> QED
            BY <1>10, <4>1, <5>1, <5>2
        <4> QED
          BY <1>1, <1>10, <3>1, <4>1, <4>3 DEF WithoutContextAgrees
      <3>4. CASE next # V
        <4>1. /\ prep'.next_buf_row = next /\ cmain'.rowgroup_ctr = cmain.rowgroup_ctr
          BY <1>13, <1>14, <2>2, <3>4
        <4>2. GroupsDone' = GroupsDone
          BY <1>13, <4>1, Zenon DEF GroupsDone
        <4>3. next < V
          BY <1>10, <3>4
        <4> HIDE DEF next
        <4> QED
          BY <1>1, <3>1, <3>2, <4>1, <4>2, <4>3 DEF WithoutContextAgrees
      <3> QED
        BY <3>3, <3>4
    <2> QED
      BY <2>1, <2>2
  <1>21. RowsLeft'
    <2> HIDE DEF end, row
    <2> QED
      BY <1>1, <1>5, <1>12, <1>13, <1>15 DEF RowsLeft
  <1> QED
    BY <1>1, <1>5, <1>16, <1>18, <1>20, <1>21, SetupKept, Zenon DEF Compressing

\* The loop with context in its three cases: rows come and the group is not full,
\* rows come and it is, no rows are left and it is padded.
LEMMA PreProcessContextCases ==
    ASSUME Compressing, pre_process_context
    PROVE  /\ app.at = "fill" /\ setup.context /\ setup' = setup
           /\ cmain.rowgroup_ctr < DCTSIZE
           /\ LET numrows == Smaller(prep.next_buf_stop - prep.next_buf_row,
                                     app.avail - app.row_ctr)
                  next == prep.next_buf_row + numrows
                  counted == [prep EXCEPT !.rows_to_go = @ - numrows, !.next_buf_row = next]
                  taken == [app EXCEPT !.row_ctr = @ + numrows]
                  one == [cmain EXCEPT !.rowgroup_ctr = @ + 1]
                  padded == [prep EXCEPT !.next_buf_row = prep.next_buf_stop]
              IN  \/ /\ app.row_ctr < app.avail /\ next # prep.next_buf_stop
                     /\ app' = taken /\ prep' = counted /\ cmain' = cmain
                  \/ /\ app.row_ctr < app.avail /\ next = prep.next_buf_stop
                     /\ app' = taken /\ prep' = Advanced(counted, next) /\ cmain' = one
                  \/ /\ ~(app.row_ctr < app.avail) /\ prep.rows_to_go = 0
                     /\ app' = app /\ prep' = Advanced(padded, prep.next_buf_stop)
                     /\ cmain' = one
  <1> DEFINE numrows == Smaller(prep.next_buf_stop - prep.next_buf_row, app.avail - app.row_ctr)
             fresh == app.row_ctr < app.avail
             next == IF fresh THEN prep.next_buf_row + numrows ELSE prep.next_buf_stop
             counted == [prep EXCEPT !.rows_to_go = IF fresh THEN @ - numrows ELSE @,
                                     !.next_buf_row = next]
             one == [cmain EXCEPT !.rowgroup_ctr = @ + 1]
             padded == [prep EXCEPT !.next_buf_row = prep.next_buf_stop]
  <1>1. /\ app.at = "fill" /\ setup.context /\ setup' = setup
        /\ cmain.rowgroup_ctr < DCTSIZE
        /\ fresh \/ prep.rows_to_go = 0
    BY Zenon DEF pre_process_context
  <1>2. app' = IF fresh THEN [app EXCEPT !.row_ctr = @ + numrows] ELSE app
    BY Zenon DEF pre_process_context
  <1>3. IF next = prep.next_buf_stop
        THEN cmain' = one /\ prep' = Advanced(counted, next)
        ELSE prep' = counted /\ cmain' = cmain
    BY Zenon DEF pre_process_context
  <1>4. CASE fresh
    <2>1. next = prep.next_buf_row + numrows
      BY <1>4, Zenon
    <2>2. counted = [prep EXCEPT !.rows_to_go = @ - numrows,
                                 !.next_buf_row = prep.next_buf_row + numrows]
      BY <1>4, <2>1, Zenon
    <2>3. app' = [app EXCEPT !.row_ctr = @ + numrows]
      BY <1>2, <1>4, Zenon
    <2> HIDE DEF numrows, next, counted, one
    <2> QED
      BY <1>1, <1>3, <1>4, <2>1, <2>2, <2>3, Zenon DEF numrows, one
  <1>5. CASE ~fresh
    <2>1. next = prep.next_buf_stop /\ app' = app /\ prep.rows_to_go = 0
      BY <1>1, <1>2, <1>5, Zenon
    <2>2. counted = padded
      <3>1. prep \in [rows_to_go : Nat, next_buf_row : Nat, this_row_group : Nat,
                      next_buf_stop : Nat]
        BY DEF Compressing, CountersOK
      <3>2. counted = [prep EXCEPT !.rows_to_go = @, !.next_buf_row = prep.next_buf_stop]
        BY <1>5, <2>1, Zenon
      <3> HIDE DEF counted
      <3> QED
        BY <3>1, <3>2
    <2> HIDE DEF numrows, next, counted, padded, one
    <2> QED
      BY <1>1, <1>3, <1>5, <2>1, <2>2, Zenon DEF padded, one
  <1> QED
    BY <1>4, <1>5, Zenon

\* What a turn of the loop does to the call, whatever it does to the row groups.
LEMMA TurnAgrees ==
    ASSUME Compressing, setup' = setup, app.at = "fill", cmain.rowgroup_ctr < DCTSIZE,
           NEW n \in Nat,
           app.row_ctr + n >= 1, app.row_ctr + n <= app.avail,
           app'.at = "fill", app'.next_scanline = app.next_scanline,
           app'.row_ctr = app.row_ctr + n, app'.avail = app.avail,
           prep'.rows_to_go = prep.rows_to_go - n,
           cmain'.cur_iMCU_row = cmain.cur_iMCU_row, cmain'.suspended = cmain.suspended
    PROVE  CallAgrees' /\ RowsLeft'
  <1>1. CallAgrees /\ RowsLeft
    BY DEF Compressing
  <1>2. ~cmain.suspended /\ ~cmain'.suspended
    BY <1>1, Counted DEF CallAgrees
  <1>3. HeldBack = 0 /\ HeldBack' = 0
    BY <1>2, Zenon DEF HeldBack
  <1>4. cmain.cur_iMCU_row # setup.total_iMCU_rows
    BY <1>1 DEF RowsLeft
  <1>5. app'.next_scanline + app'.row_ctr + HeldBack' + prep'.rows_to_go = setup.height
    BY <1>3, Counted
  <1>6. CallAgrees'
    BY <1>1, <1>2, <1>5, Counted DEF CallAgrees
  <1>7. RowsLeft'
    BY <1>1, <1>4 DEF RowsLeft
  <1> QED
    BY <1>6, <1>7, Zenon

LEMMA AdvancedIs ==
    ASSUME Compressing, NEW p, NEW next \in Nat,
           p \in [rows_to_go : Nat, next_buf_row : Nat, this_row_group : Nat,
                  next_buf_stop : Nat]
    PROVE  /\ Advanced(p, next) \in [rows_to_go : Nat, next_buf_row : Nat,
                                     this_row_group : Nat, next_buf_stop : Nat]
           /\ Advanced(p, next).rows_to_go = p.rows_to_go
           /\ Advanced(p, next).next_buf_stop = Advanced(p, next).next_buf_row + setup.maxv
  <1> DEFINE V == setup.maxv
             row == IF next >= 3 * V THEN 0 ELSE next
             this == IF p.this_row_group + V >= 3 * V THEN 0 ELSE p.this_row_group + V
  <1>1. V \in Nat \ {0}
    BY Counted
  <1>2. Advanced(p, next) = [p EXCEPT !.this_row_group = this, !.next_buf_row = row,
                                      !.next_buf_stop = row + V]
    BY Zenon DEF Advanced
  <1> HIDE DEF V
  <1>3. row \in Nat /\ this \in Nat
    BY <1>1
  <1> HIDE DEF row, this
  <1>4. row + V \in Nat
    BY <1>1, <1>3
  <1>5. Advanced(p, next) = [rows_to_go |-> p.rows_to_go, next_buf_row |-> row,
                             this_row_group |-> this, next_buf_stop |-> row + V]
    BY <1>2
  <1>6. p.rows_to_go \in Nat
    OBVIOUS
  <1>7. Advanced(p, next) \in [rows_to_go : Nat, next_buf_row : Nat,
                               this_row_group : Nat, next_buf_stop : Nat]
    BY <1>3, <1>4, <1>5, <1>6
  <1>8. /\ Advanced(p, next).rows_to_go = p.rows_to_go
        /\ Advanced(p, next).next_buf_stop = Advanced(p, next).next_buf_row + V
    BY <1>5
  <1> QED
    BY <1>7, <1>8, Zenon DEF V

LEMMA PreProcessContextKeeps ==
    ASSUME Compressing, pre_process_context
    PROVE  Compressing'
  <1> DEFINE V == setup.maxv
             numrows == Smaller(prep.next_buf_stop - prep.next_buf_row, app.avail - app.row_ctr)
             next == prep.next_buf_row + numrows
             counted == [prep EXCEPT !.rows_to_go = @ - numrows, !.next_buf_row = next]
             taken == [app EXCEPT !.row_ctr = @ + numrows]
             one == [cmain EXCEPT !.rowgroup_ctr = @ + 1]
             padded == [prep EXCEPT !.next_buf_row = prep.next_buf_stop]
             Prep == [rows_to_go : Nat, next_buf_row : Nat, this_row_group : Nat,
                      next_buf_stop : Nat]
  <1>1. /\ app.at = "fill" /\ setup.context /\ setup' = setup
        /\ cmain.rowgroup_ctr < DCTSIZE
    BY PreProcessContextCases, Zenon
  <1>2. \/ /\ app.row_ctr < app.avail /\ next # prep.next_buf_stop
           /\ app' = taken /\ prep' = counted /\ cmain' = cmain
        \/ /\ app.row_ctr < app.avail /\ next = prep.next_buf_stop
           /\ app' = taken /\ prep' = Advanced(counted, next) /\ cmain' = one
        \/ /\ ~(app.row_ctr < app.avail) /\ prep.rows_to_go = 0
           /\ app' = app /\ prep' = Advanced(padded, prep.next_buf_stop)
           /\ cmain' = one
    BY PreProcessContextCases, Zenon
  <1>3. CountersOK /\ SetupOK /\ CallAgrees /\ ContextAgrees
    BY <1>1 DEF Compressing
  <1>4. ~cmain.suspended /\ HeldBack = 0
    BY <1>1, <1>3, Counted DEF CallAgrees, HeldBack
  <1>5. V \in Nat \ {0}
    BY Counted
  <1>6. /\ one.cur_iMCU_row = cmain.cur_iMCU_row /\ one.suspended = cmain.suspended
        /\ one.rowgroup_ctr = cmain.rowgroup_ctr + 1
        /\ one \in [cur_iMCU_row : Nat, rowgroup_ctr : 0..DCTSIZE, suspended : BOOLEAN]
    <2>1. cmain.rowgroup_ctr + 1 \in 0..DCTSIZE
      BY <1>1, Counted
    <2> QED
      BY <1>3, <2>1, Zenon DEF CountersOK
  <1>7. cmain \in [cur_iMCU_row : Nat, rowgroup_ctr : 0..DCTSIZE, suspended : BOOLEAN]
    BY <1>3 DEF CountersOK
  \* Rows come: the rows of the call that are left are rows of the image.
  <1>8. ASSUME app.row_ctr < app.avail
        PROVE  /\ numrows \in Nat /\ numrows >= 1 /\ next \in Nat
               /\ next <= prep.next_buf_stop
               /\ app.row_ctr + numrows <= app.avail
               /\ prep.rows_to_go > 0 /\ numrows <= prep.rows_to_go
               /\ prep.next_buf_stop <= prep.next_buf_row + 2 * V
               /\ setup.height - prep.rows_to_go
                    = (GroupsDone + 2) * V - (prep.next_buf_stop - prep.next_buf_row)
               /\ taken \in [at : States, next_scanline : Nat, row_ctr : Nat, avail : Nat]
               /\ taken.at = "fill" /\ taken.next_scanline = app.next_scanline
               /\ taken.row_ctr = app.row_ctr + numrows /\ taken.avail = app.avail
               /\ counted \in Prep /\ counted.rows_to_go = prep.rows_to_go - numrows
               /\ counted.next_buf_row = next /\ counted.next_buf_stop = prep.next_buf_stop
    <2>1. /\ prep.rows_to_go > 0
          /\ app.avail - app.row_ctr <= prep.rows_to_go
      BY <1>1, <1>3, <1>4, <1>8, Counted DEF CallAgrees
    <2>2. /\ prep.next_buf_row < prep.next_buf_stop
          /\ prep.next_buf_stop <= prep.next_buf_row + 2 * V
          /\ setup.height - prep.rows_to_go
               = (GroupsDone + 2) * V - (prep.next_buf_stop - prep.next_buf_row)
      BY <1>3, <2>1 DEF ContextAgrees
    <2>3. /\ numrows \in Nat /\ numrows >= 1
          /\ next <= prep.next_buf_stop
          /\ app.row_ctr + numrows <= app.avail
          /\ numrows <= prep.rows_to_go
      BY <1>8, <2>1, <2>2, Counted DEF Smaller
    <2> HIDE DEF numrows
    <2>4. next \in Nat /\ prep.rows_to_go - numrows \in Nat /\ app.row_ctr + numrows \in Nat
      BY <2>3, Counted
    <2> HIDE DEF next
    <2>5. /\ taken \in [at : States, next_scanline : Nat, row_ctr : Nat, avail : Nat]
          /\ taken.at = "fill" /\ taken.next_scanline = app.next_scanline
          /\ taken.row_ctr = app.row_ctr + numrows /\ taken.avail = app.avail
      BY <1>1, <1>3, <2>4 DEF CountersOK
    <2>6. /\ counted \in Prep /\ counted.rows_to_go = prep.rows_to_go - numrows
          /\ counted.next_buf_row = next /\ counted.next_buf_stop = prep.next_buf_stop
      BY <1>3, <2>4 DEF CountersOK
    <2> HIDE DEF taken, counted, Prep
    <2> QED
      BY <2>1, <2>2, <2>3, <2>4, <2>5, <2>6, Zenon
  <1> HIDE DEF one, taken, counted, numrows, next, V, Prep
  <1>9. CASE /\ app.row_ctr < app.avail /\ next # prep.next_buf_stop
             /\ app' = taken /\ prep' = counted /\ cmain' = cmain
    <2>1. CountersOK'
      BY <1>7, <1>8, <1>9, Zenon DEF CountersOK, Prep
    <2>2. CallAgrees' /\ RowsLeft'
      <3>1. app.row_ctr + numrows >= 1
        BY <1>8, <1>9, Counted
      <3> QED
        BY <1>1, <1>8, <1>9, <3>1, TurnAgrees, Zenon
    <2>3. GroupsDone' = GroupsDone
      BY <1>9, Zenon DEF GroupsDone
    <2>4. ContextAgrees'
      <3> DEFINE all == (GroupsDone + 2) * V
      <3>1. all \in Nat
        <4>1. GroupsDone \in Nat
          BY Counted DEF GroupsDone
        <4> QED
          BY <1>5, <4>1
      <3>2. setup.height - prep.rows_to_go = all - (prep.next_buf_stop - prep.next_buf_row)
        BY <1>8, <1>9
      <3> HIDE DEF all
      <3>3. setup.height - (prep.rows_to_go - numrows) = all - (prep.next_buf_stop - next)
        <4>1. /\ prep.next_buf_row \in Nat /\ prep.next_buf_stop \in Nat
              /\ prep.rows_to_go \in Nat /\ setup.height \in Nat
          BY Counted
        <4>2. numrows \in Nat
          BY <1>8, <1>9
        <4> QED
          BY ONLY <3>1, <3>2, <4>1, <4>2 DEF next
      <3>4. next < prep.next_buf_stop /\ prep.next_buf_stop <= next + 2 * V
        <4>1. /\ numrows \in Nat /\ next \in Nat /\ next <= prep.next_buf_stop
              /\ next # prep.next_buf_stop
              /\ prep.next_buf_stop <= prep.next_buf_row + 2 * V
          BY <1>8, <1>9, Zenon
        <4>2. prep.next_buf_row \in Nat /\ prep.next_buf_stop \in Nat
          BY Counted
        <4>3. next >= prep.next_buf_row
          BY <4>1, <4>2 DEF next
        <4> QED
          BY ONLY <1>5, <4>1, <4>2, <4>3
      <3> QED
        BY <1>1, <1>8, <1>9, <2>3, <3>3, <3>4 DEF ContextAgrees, V, all
    <2> QED
      BY <1>1, <1>3, <2>1, <2>2, <2>4, SetupKept, Zenon DEF Compressing
  <1>10. CASE /\ app.row_ctr < app.avail /\ next = prep.next_buf_stop
              /\ app' = taken /\ prep' = Advanced(counted, next) /\ cmain' = one
    <2>1. /\ prep' \in Prep /\ prep'.rows_to_go = prep.rows_to_go - numrows
          /\ prep'.next_buf_stop = prep'.next_buf_row + V
      <3>1. counted \in Prep /\ counted.rows_to_go = prep.rows_to_go - numrows /\ next \in Nat
        BY <1>8, <1>10, Zenon
      <3>2. /\ Advanced(counted, next) \in Prep
            /\ Advanced(counted, next).rows_to_go = counted.rows_to_go
            /\ Advanced(counted, next).next_buf_stop = Advanced(counted, next).next_buf_row + V
        BY <3>1, AdvancedIs DEF Prep, V
      <3> QED
        BY <1>10, <3>1, <3>2, Zenon
    <2>2. CountersOK'
      BY <1>6, <1>8, <1>10, <2>1, Zenon DEF CountersOK, Prep
    <2>3. CallAgrees' /\ RowsLeft'
      <3>1. app.row_ctr + numrows >= 1
        BY <1>8, <1>10, Counted
      <3> QED
        BY <1>1, <1>6, <1>8, <1>10, <2>1, <3>1, TurnAgrees, Zenon
    <2>4. ContextAgrees'
      <3> DEFINE rows == GroupsDone * V
      <3>1. /\ rows \in Nat /\ (GroupsDone + 2) * V = rows + 2 * V
            /\ (GroupsDone' + 2) * V = rows + 3 * V
        <4> DEFINE cur == cmain.cur_iMCU_row
                   old == cmain.rowgroup_ctr
        <4>1. cur \in Nat /\ old \in 0..DCTSIZE /\ DCTSIZE \in Nat \ {0}
          BY Counted
        <4>2. GroupsDone = cur * DCTSIZE + old
          BY Zenon DEF GroupsDone
        <4>3. GroupsDone' = cur * DCTSIZE + (old + 1)
          BY <1>6, <1>10, Zenon DEF GroupsDone
        <4> HIDE DEF cur, old
        <4>4. /\ (cur * DCTSIZE + old) * V \in Nat
              /\ (cur * DCTSIZE + old + 2) * V = (cur * DCTSIZE + old) * V + 2 * V
              /\ (cur * DCTSIZE + (old + 1) + 2) * V = (cur * DCTSIZE + old) * V + 3 * V
          BY <1>5, <4>1, GroupRows
        <4> QED
          BY <4>2, <4>3, <4>4, Zenon
      <3>2. setup.height - prep.rows_to_go
              = (GroupsDone + 2) * V - (prep.next_buf_stop - prep.next_buf_row)
        BY <1>8, <1>10
      <3> DEFINE before == (GroupsDone + 2) * V
                 after == (GroupsDone' + 2) * V
      <3> HIDE DEF rows, before, after
      <3>3. setup.height - prep.rows_to_go
              = (rows + 2 * V) - (prep.next_buf_stop - prep.next_buf_row)
        <4>1. before = rows + 2 * V
          BY <3>1 DEF before
        <4>2. setup.height - prep.rows_to_go
                = before - (prep.next_buf_stop - prep.next_buf_row)
          BY <3>2 DEF before
        <4> QED
          BY ONLY <4>1, <4>2, Zenon
      <3>4. setup.height - (prep.rows_to_go - numrows) = rows + 2 * V
        <4>1. /\ prep.next_buf_row \in Nat /\ prep.next_buf_stop \in Nat
              /\ prep.rows_to_go \in Nat /\ setup.height \in Nat
          BY Counted
        <4>2. numrows \in Nat /\ prep.next_buf_row + numrows = prep.next_buf_stop
          BY <1>8, <1>10, Zenon DEF next
        <4>3. rows \in Nat
          BY <3>1
        <4> QED
          BY ONLY <1>5, <3>3, <4>1, <4>2, <4>3
      <3>5. prep'.next_buf_row \in Nat
        BY <2>1 DEF Prep
      <3>6. setup.height - prep'.rows_to_go
              = (GroupsDone' + 2) * V - (prep'.next_buf_stop - prep'.next_buf_row)
        <4>1. rows + 2 * V = (rows + 3 * V) - (prep'.next_buf_stop - prep'.next_buf_row)
          BY <1>5, <2>1, <3>1, <3>5
        <4>2. after = rows + 3 * V
          BY <3>1 DEF after
        <4>3. setup.height - prep'.rows_to_go = rows + 2 * V
          BY <2>1, <3>4, Zenon
        <4>4. setup.height - prep'.rows_to_go
                = after - (prep'.next_buf_stop - prep'.next_buf_row)
          <5> DEFINE gap == prep'.next_buf_stop - prep'.next_buf_row
                     seen == setup.height - prep'.rows_to_go
          <5>1. rows \in Nat /\ V \in Nat /\ gap = V
            BY <1>5, <2>1, <3>1, <3>5
          <5>2. seen = rows + 2 * V
            BY <4>3
          <5> HIDE DEF gap, seen
          <5>3. seen = after - gap
            BY ONLY <4>2, <5>1, <5>2
          <5> QED
            BY <5>3 DEF gap, seen
        <4> QED
          BY <4>4 DEF after
      <3>7. /\ prep'.next_buf_row < prep'.next_buf_stop
            /\ prep'.next_buf_stop <= prep'.next_buf_row + 2 * V
        BY <1>5, <2>1, <3>5
      <3> QED
        BY <1>1, <3>6, <3>7, Zenon DEF ContextAgrees, V
    <2> QED
      BY <1>1, <1>3, <2>2, <2>3, <2>4, SetupKept, Zenon DEF Compressing
  <1>11. CASE /\ ~(app.row_ctr < app.avail) /\ prep.rows_to_go = 0
              /\ app' = app /\ prep' = Advanced(padded, prep.next_buf_stop)
              /\ cmain' = one
    <2>1. padded \in Prep /\ padded.rows_to_go = 0 /\ prep.next_buf_stop \in Nat
      BY <1>3, <1>11 DEF CountersOK, Prep
    <2> HIDE DEF padded
    <2>2. prep' \in Prep /\ prep'.rows_to_go = 0
      BY <1>11, <2>1, AdvancedIs, Zenon DEF Prep
    <2>3. CountersOK'
      BY <1>3, <1>6, <1>11, <2>2, Zenon DEF CountersOK, Prep
    <2>4. CallAgrees' /\ RowsLeft'
      <3>1. app.row_ctr + 0 >= 1 /\ app.row_ctr + 0 <= app.avail
        BY <1>1, <1>3, <1>11, Counted DEF CallAgrees
      <3>2. app.row_ctr = app.row_ctr + 0 /\ prep.rows_to_go = prep.rows_to_go - 0
        BY Counted
      <3>3. prep'.rows_to_go = prep.rows_to_go - 0 /\ app'.row_ctr = app.row_ctr + 0
        BY <1>11, <2>2, <3>2, Zenon
      <3>4. /\ cmain'.cur_iMCU_row = cmain.cur_iMCU_row
            /\ cmain'.suspended = cmain.suspended
        BY <1>6, <1>11, Zenon
      <3>5. /\ app'.at = "fill" /\ app'.next_scanline = app.next_scanline
            /\ app'.avail = app.avail
        BY <1>1, <1>11, Zenon
      <3>6. 0 \in Nat
        OBVIOUS
      <3> QED
        BY <1>1, <3>1, <3>3, <3>4, <3>5, <3>6, TurnAgrees, Zenon
    <2>5. ContextAgrees'
      BY <2>2 DEF ContextAgrees
    <2> QED
      BY <1>1, <1>3, <2>3, <2>4, <2>5, SetupKept, Zenon DEF Compressing
  <1> QED
    BY <1>2, <1>9, <1>10, <1>11, Zenon

-----------------------------------------------------------------------------
(* The theorems. *)

LEMMA NextKeepsCompressing == Compressing /\ [Next]_vars => Compressing'
  <1> SUFFICES ASSUME Compressing, [Next]_vars
               PROVE  Compressing'
    OBVIOUS
  <1>1. CASE \E n \in Lines : jpeg_write_scanlines(n)
    BY <1>1, WriteKeeps, Zenon
  <1>2. CASE pre_process_data
    BY <1>2, PreProcessDataKeeps, Zenon
  <1>3. CASE pre_process_context
    BY <1>3, PreProcessContextKeeps, Zenon
  <1>4. CASE PreProcessed
    BY <1>4, PreProcessedKeeps, Zenon
  <1>5. CASE compress_data
    BY <1>5, CompressDataKeeps, Zenon
  <1>6. CASE compress_data_suspends
    BY <1>6, SuspendsKeeps, Zenon
  <1>7. CASE jpeg_start_decompress
    BY <1>7, OthersKeepCompressing, Zenon DEF jpeg_start_decompress
  <1>8. CASE post_process_prepass
    BY <1>8, OthersKeepCompressing, Zenon DEF post_process_prepass, cvars
  <1>9. CASE finish_output_pass
    BY <1>9, OthersKeepCompressing, Zenon DEF finish_output_pass, cvars
  <1>10. CASE \E n \in Lines : jpeg_read_scanlines(n)
    BY <1>10, OthersKeepCompressing, Zenon DEF jpeg_read_scanlines, cvars
  <1>11. CASE Finished \/ UNCHANGED vars
    BY <1>11, OthersKeepCompressing, Zenon DEF Finished, vars, cvars
  <1> QED
    BY <1>1, <1>2, <1>3, <1>4, <1>5, <1>6, <1>7, <1>8, <1>9, <1>10, <1>11, Zenon DEF Next

(***************************************************************************)
(* The counters of a compression always agree: every row the preprocessor  *)
(* has seen is counted by next_scanline and row_ctr, but for one that is   *)
(* kept back while an iMCU row is refused (jcmainct.c:133-158), and the    *)
(* rows seen are those of the iMCU rows taken, of the row groups done and  *)
(* of the one under way, without context (jcprepct.c:129-188) and with it, *)
(* where the group below is filled first and the bottom is padded          *)
(* (jcprepct.c:196-261).                                                   *)
(***************************************************************************)
THEOREM CountersAgree == Spec => []Compressing
  BY InitCompressing, NextKeepsCompressing, PTL DEF Spec

(***************************************************************************)
(* An application that is told that all its rows are consumed has had all  *)
(* of its iMCU rows taken, for every size of image, sampling factors, rows *)
(* in a call and calls that are refused: it may finish the compression,    *)
(* although a refused call keeps one row back and gives it in the next     *)
(* (jcmainct.c:133-158), and no row is counted twice for that.             *)
(***************************************************************************)
THEOREM PixelsDone == Spec => []DoneMeansTaken
  BY CountersAgree, CompressingIsEnough, PTL

-----------------------------------------------------------------------------
(* What the rows are. *)

\* The rows of the image, which goes on beyond its edges (jcprepct.c:28-45).
RowOf(r) == Converted(IF r < 0 THEN 0 ELSE Smaller(r, setup.height - 1))

\* A row group of the image, with its context if that is asked for.
GroupOf(g) ==
    [y \in (IF setup.context THEN -1..setup.maxv ELSE Span(setup.maxv)) |->
        RowOf(g * setup.maxv + y)]

\* Row y of a component, of its row group.
GroupRow(k, g, y) == downsample(Plane(GroupOf(g), k), setup.comps[k], setup)[y]
PlaneRow(k, y) ==
    GroupRow(k, SourceRow(k, y) \div setup.comps[k].vg, SourceRow(k, y) % setup.comps[k].vg)

\* The iMCU row with number n of a component, counted from 0.
PlaneIMCU(k, n) ==
    [y \in Span(setup.comps[k].vg * DCTSIZE) |->
        PlaneRow(k, n * (setup.comps[k].vg * DCTSIZE) + y)]

TakenExact ==
    coef = [n \in 1..cmain.cur_iMCU_row |-> [k \in Components |-> PlaneIMCU(k, n - 1)]]

FactorsOK == \A k \in Components : setup.comps[k].vg \in Nat \ {0}

\* The buffer of the iMCU row has the rows of its first n row groups.
FilledTo(rows, n) ==
    /\ rows = [k \in Components |->
                 [y \in Span(setup.comps[k].vg * DCTSIZE) |-> rows[k][y]]]
    /\ \A k \in Components : \A y \in Span(setup.comps[k].vg * n) :
          rows[k][y] = PlaneIMCU(k, cmain.cur_iMCU_row)[y]

\* The preprocessor's buffer holds the rows of the group under way.
GroupBufferExact ==
    /\ DOMAIN color_buf = Span(setup.maxv)
    /\ prep.rows_to_go > 0 =>
          \A i \in Span(prep.next_buf_row) :
              color_buf[i] = RowOf(GroupsDone * setup.maxv + i)

\* With context it holds the rows from the group before on, used round.
Written == (GroupsDone + 2) * setup.maxv - (prep.next_buf_stop - prep.next_buf_row)
ContextBufferExact ==
    /\ DOMAIN color_buf = Span(3 * setup.maxv)
    /\ prep.next_buf_row < prep.next_buf_stop
    /\ prep.next_buf_stop <= prep.next_buf_row + 2 * setup.maxv
    /\ prep.next_buf_stop <= 3 * setup.maxv
    /\ prep.next_buf_row = Written % (3 * setup.maxv)
    /\ prep.this_row_group = (GroupsDone * setup.maxv) % (3 * setup.maxv)
    /\ prep.rows_to_go = 0 => Written >= setup.height
    /\ prep.rows_to_go < setup.height =>
          \A r \in (GroupsDone - 1) * setup.maxv .. Written - 1 :
              color_buf[r % (3 * setup.maxv)] = RowOf(r)

RowsKept ==
    /\ FactorsOK
    /\ phase # "compress" => app.at = "idle"
    /\ TakenExact
    /\ phase = "compress" =>
          /\ FilledTo(buffer, cmain.rowgroup_ctr)
          /\ ~setup.context => GroupBufferExact
          /\ setup.context => ContextBufferExact

-----------------------------------------------------------------------------
(* The rows of a component. *)

LEMMA FactorsAre ==
    ASSUME NEW job \in Jobs, setup = initial_setup(job)
    PROVE  FactorsOK
  <1> DEFINE maxv == Max({job.comps[k].v : k \in 1..Len(job.comps)})
             F == [h : 1..4, v : 1..4]
  <1>1. job.comps \in Seq(F)
    BY PixelsAssumption
  <1>2. Components = 1..Len(job.comps)
    BY Zenon DEF initial_setup, Components
  <1>3. ASSUME NEW k \in Components
        PROVE  setup.comps[k].vg = job.comps[k].v * ssize(maxv, job.comps[k].v, job.fancy)
    BY <1>2, <1>3 DEF initial_setup
  <1> HIDE DEF maxv
  <1>4. ASSUME NEW k \in Components
        PROVE  job.comps[k].v \in 1..4
    <2> HIDE DEF F
    <2>1. job.comps[k] \in F
      BY <1>1, <1>2
    <2> QED
      BY <2>1 DEF F
  <1>5. ASSUME NEW k \in Components
        PROVE  setup.comps[k].vg \in Nat \ {0}
    <2>1. ssize(maxv, job.comps[k].v, job.fancy) \in {1, 2}
      BY Zenon DEF ssize
    <2> QED
      BY <1>3, <1>4, <2>1
  <1> QED
    BY <1>5, Zenon DEF FactorsOK

\* A row of an iMCU row has its place in a row group.
Placed(D, v, cur, y) == cur * (v * D) + y = (cur * D + (y \div v)) * v + (y % v)

LEMMA PlaceInGroup ==
    ASSUME NEW D \in Nat \ {0}, NEW v \in Nat \ {0}, NEW cur \in Nat, NEW y \in Nat
    PROVE  /\ y \div v \in Nat /\ y % v \in Span(v)
           /\ Placed(D, v, cur, y)
           /\ cur * (v * D) + y \in Nat
           /\ \A n \in Nat : y \div v < n <=> y < v * n
  <1> DEFINE q == y \div v
             r == y % v
  <1>1. q \in Nat /\ r \in 0..(v - 1) /\ y = q * v + r
    BY Divided
  <1> HIDE DEF q, r
  <1>2. cur * (v * D) = cur * D * v
    BY SMTT(30)
  <1>3. (cur * D + q) * v = cur * D * v + q * v
    <2> DEFINE a == cur * D
    <2>1. a \in Nat
      OBVIOUS
    <2> HIDE DEF a
    <2>2. (a + q) * v = a * v + q * v
      BY <1>1, <2>1, SMTT(30)
    <2> QED
      BY <2>2 DEF a
  <1>4. cur * D * v \in Nat /\ q * v \in Nat
    <2>1. cur * D \in Nat
      OBVIOUS
    <2> QED
      BY <1>1, <2>1
  <1>5. ASSUME NEW n \in Nat
        PROVE  q < n <=> y < v * n
    <2>1. q < n => q * v + v <= v * n
      <3>1. SUFFICES ASSUME q + 1 <= n
                     PROVE  (q + 1) * v <= v * n /\ (q + 1) * v = q * v + v
        BY <1>1, SMTT(30)
      <3> QED
        BY <1>1, <3>1, SMTT(30)
    <2>2. ~(q < n) => v * n <= q * v
      BY <1>1, SMTT(30)
    <2>3. v * n \in Nat
      OBVIOUS
    <2> QED
      BY <1>1, <1>4, <2>1, <2>2, <2>3
  <1>6. cur * (v * D) + y = (cur * D + q) * v + r /\ cur * (v * D) + y \in Nat
    <2> DEFINE a == cur * (v * D)
               b == (cur * D + q) * v
               c == cur * D * v
               e == q * v
    <2>1. a = c /\ b = c + e /\ y = e + r /\ c \in Nat /\ e \in Nat /\ r \in Nat
      BY <1>1, <1>2, <1>3, <1>4
    <2> HIDE DEF a, b, c, e
    <2>2. a + y = b + r /\ a + y \in Nat
      BY <2>1
    <2> QED
      BY <2>2 DEF a, b
  <1> QED
    BY <1>1, <1>5, <1>6 DEF q, r, Span, Placed

\* The rows of a component are those of its row groups, one after the other.
LEMMA GroupInPlane ==
    ASSUME SetupOK, FactorsOK, NEW k \in Components, NEW g \in Nat,
           NEW j \in Span(setup.comps[k].vg),
           setup.context \/ g * setup.maxv < setup.height
    PROVE  PlaneRow(k, g * setup.comps[k].vg + j) = GroupRow(k, g, j)
  <1> DEFINE v == setup.comps[k].vg
             y == g * v + j
             c == Ceiling(setup.height, setup.maxv)
  <1>1. v \in Nat \ {0} /\ j \in 0..(v - 1)
    BY DEF FactorsOK, Span
  <1> HIDE DEF v
  <1>2. SourceRow(k, y) = y
    <2>1. CASE setup.context
      BY <2>1, Zenon DEF SourceRow
    <2>2. CASE ~setup.context
      <3>1. setup.height \in Nat \ {0} /\ setup.maxv \in Nat \ {0}
        BY DEF SetupOK
      <3>2. c \in Nat \ {0} /\ c > g
        <4>1. setup.height > g * setup.maxv
          BY <2>2, <3>1
        <4> QED
          BY <3>1, <4>1, RowsOfImage
      <3> HIDE DEF c
      <3>3. g * v + v <= c * v /\ g * v \in Nat /\ c * v \in Nat
        <4>1. (g + 1) * v <= c * v /\ (g + 1) * v = g * v + v
          <5>1. g + 1 <= c
            BY <3>2
          <5> QED
            BY <1>1, <3>2, <5>1, SMTT(30)
        <4> QED
          BY <1>1, <3>2, <4>1
      <3>4. y <= c * v - 1
        <4> DEFINE a == g * v
                   b == c * v
        <4>1. a \in Nat /\ b \in Nat /\ a + v <= b
          BY <3>3
        <4> HIDE DEF a, b
        <4>2. a + j <= b - 1
          BY <1>1, <4>1
        <4> QED
          BY <4>2 DEF a, b
      <3>5. Smaller(y, c * v - 1) = y
        BY <3>4, Zenon DEF Smaller
      <3> QED
        BY <2>2, <3>5, Zenon DEF SourceRow, c, v
    <2> QED
      BY <2>1, <2>2
  <1>3. y \div v = g /\ y % v = j
    BY <1>1, DividedIs
  <1> QED
    BY <1>2, <1>3, Zenon DEF PlaneRow, v

\* Without context the rows below the last row group repeat its last row.
LEMMA BottomInPlane ==
    ASSUME SetupOK, FactorsOK, ~setup.context, NEW k \in Components, NEW g \in Nat,
           g * setup.maxv < setup.height, setup.height <= (g + 1) * setup.maxv,
           NEW y \in Nat, y >= (g + 1) * setup.comps[k].vg
    PROVE  PlaneRow(k, y) = PlaneRow(k, (g + 1) * setup.comps[k].vg - 1)
  <1> DEFINE v == setup.comps[k].vg
             last == (g + 1) * v - 1
             c == Ceiling(setup.height, setup.maxv)
  <1>1. v \in Nat \ {0}
    BY DEF FactorsOK
  <1>2. setup.height \in Nat \ {0} /\ setup.maxv \in Nat \ {0}
    BY DEF SetupOK
  <1>3. c = g + 1
    <2>1. setup.height > g * setup.maxv
      BY <1>2
    <2>2. c \in Nat \ {0} /\ c > g /\ c <= g + 1
      BY <1>2, <2>1, RowsOfImage
    <2> HIDE DEF c
    <2> QED
      BY <2>2
  <1>4. last \in Int /\ ~(y <= last)
    <2>1. (g + 1) * v \in Nat
      BY <1>1
    <2> QED
      BY <2>1
  <1> HIDE DEF v, c
  <1>5. Smaller(y, last) = last /\ Smaller(last, last) = last
    <2> HIDE DEF last
    <2> QED
      BY <1>4 DEF Smaller
  <1>6. SourceRow(k, y) = last /\ SourceRow(k, last) = last
    <2>1. \A i : SourceRow(k, i) = Smaller(i, c * v - 1)
      BY Zenon DEF SourceRow, c, v
    <2> QED
      BY <1>3, <1>5, <2>1, Zenon
  <1> HIDE DEF last
  <1>7. PlaneRow(k, y) = PlaneRow(k, last)
    BY <1>6, Zenon DEF PlaneRow
  <1> QED
    BY <1>7 DEF last, v

\* A row of the iMCU row, by its row group.
LEMMA RowOfIMCU ==
    ASSUME SetupOK, FactorsOK, NEW cur \in Nat, NEW ctr \in 0..(DCTSIZE - 1),
           NEW k \in Components, NEW y \in Nat, y \div setup.comps[k].vg = ctr,
           setup.context \/ (cur * DCTSIZE + ctr) * setup.maxv < setup.height
    PROVE  /\ y \in Span(setup.comps[k].vg * DCTSIZE)
           /\ PlaneIMCU(k, cur)[y]
                 = GroupRow(k, cur * DCTSIZE + ctr, y % setup.comps[k].vg)
  <1> DEFINE v == setup.comps[k].vg
             g == cur * DCTSIZE + ctr
             j == y % v
  <1>1. v \in Nat \ {0} /\ DCTSIZE \in Nat \ {0}
    BY PixelsAssumption DEF FactorsOK
  <1>2. /\ j \in Span(v) /\ cur * (v * DCTSIZE) + y = g * v + j
        /\ ctr < DCTSIZE <=> y < v * DCTSIZE
    <2> HIDE DEF v
    <2>1. /\ y % v \in Span(v)
          /\ cur * (v * DCTSIZE) + y = (cur * DCTSIZE + (y \div v)) * v + (y % v)
          /\ y \div v < DCTSIZE <=> y < v * DCTSIZE
      <3>1. /\ v \in Nat \ {0} /\ DCTSIZE \in Nat \ {0} /\ cur \in Nat /\ y \in Nat
            /\ DCTSIZE \in Nat
        BY <1>1
      <3>2. y % v \in Span(v)
        BY ONLY <3>1, PlaceInGroup, Zenon
      <3>3. cur * (v * DCTSIZE) + y = (cur * DCTSIZE + (y \div v)) * v + (y % v)
        <4>1. Placed(DCTSIZE, v, cur, y)
          BY ONLY <3>1, PlaceInGroup, Zenon
        <4> QED
          BY <4>1 DEF Placed
      <3>4. y \div v < DCTSIZE <=> y < v * DCTSIZE
        BY ONLY <3>1, PlaceInGroup, Zenon
      <3> QED
        BY <3>2, <3>3, <3>4, Zenon
    <2>2. y \div v = ctr
      BY DEF v
    <2> QED
      BY <1>1, <2>1, <2>2
  <1>3. y \in Span(v * DCTSIZE)
    <2>1. v * DCTSIZE \in Nat /\ y < v * DCTSIZE
      BY <1>1, <1>2
    <2> QED
      BY <2>1 DEF Span
  <1>4. PlaneIMCU(k, cur)[y] = PlaneRow(k, cur * (v * DCTSIZE) + y)
    BY <1>3 DEF PlaneIMCU, v
  <1>5. g \in Nat
    BY <1>1
  <1>6. PlaneRow(k, g * v + j) = GroupRow(k, g, j)
    <2> HIDE DEF g, j
    <2> QED
      BY <1>2, <1>5, GroupInPlane DEF v, g
  <1> QED
    BY <1>2, <1>3, <1>4, <1>6, Zenon DEF v, g, j

\* Downsampling a row group fills the buffer by one more.
LEMMA Downsampled ==
    ASSUME SetupOK, FactorsOK, cmain.cur_iMCU_row \in Nat,
           cmain.rowgroup_ctr \in 0..(DCTSIZE - 1),
           FilledTo(buffer, cmain.rowgroup_ctr),
           setup.context \/ GroupsDone * setup.maxv < setup.height
    PROVE  FilledTo(sep_downsample(GroupOf(GroupsDone), cmain.rowgroup_ctr),
                    cmain.rowgroup_ctr + 1)
  <1> DEFINE ctr == cmain.rowgroup_ctr
             cur == cmain.cur_iMCU_row
             b == sep_downsample(GroupOf(GroupsDone), ctr)
  <1>1. DCTSIZE \in Nat \ {0} /\ ctr \in 0..(DCTSIZE - 1) /\ cur \in Nat
    BY PixelsAssumption
  <1>2. ASSUME NEW k \in Components
        PROVE  DOMAIN buffer[k] = Span(setup.comps[k].vg * DCTSIZE)
    <2>1. buffer = [c \in Components |->
                       [y \in Span(setup.comps[c].vg * DCTSIZE) |-> buffer[c][y]]]
      BY Zenon DEF FilledTo
    <2>2. buffer[k] = [y \in Span(setup.comps[k].vg * DCTSIZE) |-> buffer[k][y]]
      BY ONLY <2>1, <1>2
    <2> QED
      BY ONLY <2>2
  <1>3. b = [k \in Components |-> [y \in Span(setup.comps[k].vg * DCTSIZE) |->
               IF y \div setup.comps[k].vg = ctr
               THEN GroupRow(k, GroupsDone, y % setup.comps[k].vg) ELSE buffer[k][y]]]
    BY <1>2 DEF sep_downsample, GroupRow
  <1> HIDE DEF b
  <1>4. b = [k \in Components |-> [y \in Span(setup.comps[k].vg * DCTSIZE) |-> b[k][y]]]
    BY ONLY <1>3
  <1>5. ASSUME NEW k \in Components, NEW y \in Span(setup.comps[k].vg * (ctr + 1))
        PROVE  b[k][y] = PlaneIMCU(k, cur)[y]
    <2> DEFINE v == setup.comps[k].vg
    <2>1. v \in Nat \ {0}
      BY DEF FactorsOK
    <2> HIDE DEF v
    <2>2. y \in Nat /\ y < v * (ctr + 1)
      <3>1. v * (ctr + 1) \in Nat /\ y \in Span(v * (ctr + 1))
        BY <1>1, <1>5, <2>1 DEF v
      <3> QED
        BY <3>1 DEF Span
    <2>3. /\ y \div v \in Nat /\ y \div v < ctr + 1
          /\ y \div v < ctr <=> y < v * ctr
          /\ y < v * DCTSIZE
      <3>1. \A n \in Nat : y \div v < n <=> y < v * n
        BY <1>1, <2>1, <2>2, PlaceInGroup
      <3>2. y \div v \in Nat
        BY <1>1, <2>1, <2>2, PlaceInGroup, Zenon
      <3> QED
        BY <1>1, <2>2, <3>1, <3>2
    <2>4. y \in Span(v * DCTSIZE) /\ v * ctr \in Nat
      <3>1. v * DCTSIZE \in Nat /\ v * ctr \in Nat
        BY <1>1, <2>1
      <3> QED
        BY <2>2, <2>3, <3>1 DEF Span
    <2>5. CASE y \div v = ctr
      <3>1. b[k][y] = GroupRow(k, GroupsDone, y % v)
        BY ONLY <1>3, <1>5, <2>4, <2>5 DEF v
      <3>2. y \div setup.comps[k].vg = ctr
        BY <2>5 DEF v
      <3>3. setup.context \/ (cur * DCTSIZE + ctr) * setup.maxv < setup.height
        BY Zenon DEF GroupsDone
      <3> HIDE DEF cur, ctr
      <3>4. PlaneIMCU(k, cur)[y] = GroupRow(k, cur * DCTSIZE + ctr, y % setup.comps[k].vg)
        BY <1>1, <1>5, <2>2, <3>2, <3>3, RowOfIMCU
      <3> QED
        BY <3>1, <3>4, Zenon DEF GroupsDone, cur, ctr, v
    <2>6. CASE y \div v # ctr
      <3>1. b[k][y] = buffer[k][y]
        BY ONLY <1>3, <1>5, <2>4, <2>6 DEF v
      <3>2. y \in Span(v * ctr)
        <4>1. y < v * ctr
          BY <1>1, <2>3, <2>6
        <4> QED
          BY <2>2, <2>4, <4>1 DEF Span
      <3> QED
        BY <1>5, <3>1, <3>2, Zenon DEF FilledTo, v
    <2> QED
      BY <2>5, <2>6
  <1> QED
    BY <1>4, <1>5, Zenon DEF FilledTo, b

\* At the bottom of the image the rest of the buffer repeats the last row.
LEMMA FilledToBottom ==
    ASSUME SetupOK, FactorsOK, ~setup.context, cmain.cur_iMCU_row \in Nat,
           cmain.rowgroup_ctr \in 0..(DCTSIZE - 1),
           GroupsDone * setup.maxv < setup.height,
           setup.height <= (GroupsDone + 1) * setup.maxv,
           NEW b, FilledTo(b, cmain.rowgroup_ctr + 1)
    PROVE  FilledTo([k \in Components |->
                        expand_bottom_edge(b[k], (cmain.rowgroup_ctr + 1) * setup.comps[k].vg)],
                    DCTSIZE)
  <1> DEFINE ctr == cmain.rowgroup_ctr
             cur == cmain.cur_iMCU_row
             Rows(k) == Span(setup.comps[k].vg * DCTSIZE)
             From(k) == (ctr + 1) * setup.comps[k].vg
             e == [k \in Components |-> expand_bottom_edge(b[k], From(k))]
  <1>1. DCTSIZE \in Nat \ {0} /\ ctr \in 0..(DCTSIZE - 1) /\ cur \in Nat
    BY PixelsAssumption
  <1>2. \A k \in Components : DOMAIN b[k] = Rows(k)
    <2>1. b = [c \in Components |-> [y \in Rows(c) |-> b[c][y]]]
      BY Zenon DEF FilledTo
    <2> HIDE DEF Rows
    <2>2. \A k \in Components : b[k] = [y \in Rows(k) |-> b[k][y]]
      BY ONLY <2>1
    <2> QED
      BY ONLY <2>2
  <1>3. e = [k \in Components |-> [y \in Rows(k) |->
               IF y < From(k) THEN b[k][y] ELSE b[k][From(k) - 1]]]
    BY <1>2 DEF expand_bottom_edge
  <1> HIDE DEF e
  <1>4. e = [k \in Components |-> [y \in Rows(k) |-> e[k][y]]]
    BY ONLY <1>3
  <1>5. ASSUME NEW k \in Components, NEW y \in Rows(k)
        PROVE  e[k][y] = PlaneIMCU(k, cur)[y]
    <2> DEFINE v == setup.comps[k].vg
               last == From(k) - 1
               P(i) == PlaneRow(k, cur * (v * DCTSIZE) + i)
    <2>1. v \in Nat \ {0}
      BY DEF FactorsOK
    <2>2. \A i \in Rows(k) : PlaneIMCU(k, cur)[i] = P(i)
      BY DEF PlaneIMCU
    <2>3. From(k) = v * (ctr + 1) /\ From(k) \in Nat \ {0} /\ From(k) <= v * DCTSIZE
      <3> HIDE DEF v
      <3>1. v * (ctr + 1) \in Nat \ {0} /\ (ctr + 1) * v = v * (ctr + 1)
        BY <1>1, <2>1, SMTT(30)
      <3>2. v * (ctr + 1) <= v * DCTSIZE
        BY <1>1, <2>1, SMTT(30)
      <3> QED
        BY <3>1, <3>2 DEF v
    <2>4. v * DCTSIZE \in Nat
      BY <1>1, <2>1
    <2> HIDE DEF v, From
    <2>5. last \in Span(v * (ctr + 1)) /\ last \in Rows(k)
      <3> DEFINE s == v * (ctr + 1)
                 t == v * DCTSIZE
      <3>1. From(k) = s /\ s \in Nat \ {0} /\ s <= t /\ t \in Nat
        BY <2>3, <2>4
      <3> HIDE DEF s, t
      <3>2. last \in 0..(s - 1) /\ last \in 0..(t - 1)
        BY <3>1
      <3> QED
        BY <3>2 DEF Span, s, t, v
    <2>6. \A i \in Span(v * (ctr + 1)) : i \in Rows(k) => b[k][i] = P(i)
      BY <1>5, <2>2, Zenon DEF FilledTo, v
    <2>7. y \in 0..(v * DCTSIZE - 1)
      BY <1>5 DEF Span, v
    <2>8. CASE y < From(k)
      <3>1. y \in Span(v * (ctr + 1))
        <4> DEFINE s == v * (ctr + 1)
        <4>1. y \in Nat /\ y < s /\ s \in Nat
          BY <2>3, <2>4, <2>7, <2>8
        <4> HIDE DEF s
        <4>2. y \in 0..(s - 1)
          BY <4>1
        <4> QED
          BY <4>2 DEF Span, s
      <3>2. e[k][y] = b[k][y]
        BY ONLY <1>3, <1>5, <2>8
      <3> HIDE DEF P
      <3> QED
        BY <1>5, <2>2, <2>6, <3>1, <3>2, Zenon
    <2>9. CASE ~(y < From(k))
      <3>1. e[k][y] = b[k][last]
        BY ONLY <1>3, <1>5, <2>9
      <3>2. P(y) = P(last)
        <4> DEFINE g == cur * DCTSIZE + ctr
                   w == cur * (v * DCTSIZE)
        <4>1. g \in Nat /\ g = GroupsDone
          BY <1>1 DEF GroupsDone
        <4>2. (g + 1) * v = w + v * (ctr + 1) /\ w \in Nat /\ v * (ctr + 1) \in Nat
          <5> DEFINE a == cur * DCTSIZE
          <5>1. a \in Nat /\ w = a * v
            <6>1. cur * (v * DCTSIZE) = cur * DCTSIZE * v
              BY <1>1, <2>1, SMTT(30)
            <6> QED
              BY <1>1, <6>1
          <5> HIDE DEF a
          <5>2. (a + ctr + 1) * v = a * v + v * (ctr + 1) /\ a * v \in Nat
            BY <1>1, <2>1, <5>1, SMTT(30)
          <5>3. v * (ctr + 1) \in Nat
            BY <2>3
          <5> QED
            BY <5>1, <5>2, <5>3 DEF a
        <4> HIDE DEF g, w
        <4>3. w + y \in Nat /\ w + y >= (g + 1) * v
          <5> DEFINE s == v * (ctr + 1)
          <5>1. y \in Nat /\ y >= s /\ s \in Nat
            BY <2>3, <2>4, <2>7, <2>9
          <5>2. (g + 1) * v = w + s
            BY <4>2
          <5> HIDE DEF s
          <5> QED
            BY <4>2, <5>1, <5>2
        <4>4. (g + 1) * v - 1 = w + last
          <5> DEFINE s == v * (ctr + 1)
          <5>1. last = s - 1 /\ s \in Nat
            BY <2>3
          <5>2. (g + 1) * v = w + s
            BY <4>2
          <5> HIDE DEF s, last
          <5> QED
            BY <4>2, <5>1, <5>2
        <4>5. PlaneRow(k, w + y) = PlaneRow(k, (g + 1) * v - 1)
          BY <1>5, <4>1, <4>3, BottomInPlane DEF v
        <4> QED
          BY <4>4, <4>5 DEF w
      <3> HIDE DEF P, last
      <3> QED
        BY <1>5, <2>2, <2>5, <2>6, <3>1, <3>2, Zenon
    <2> QED
      BY <2>8, <2>9
  <1> QED
    BY <1>4, <1>5, Zenon DEF FilledTo, e

-----------------------------------------------------------------------------
(* Steps that leave the rows alone. *)

\* What is made of the image depends on the setup alone.
LEMMA PlanesKept ==
    ASSUME setup' = setup
    PROVE  /\ \A r : RowOf(r)' = RowOf(r)
           /\ \A k, n : PlaneIMCU(k, n)' = PlaneIMCU(k, n)
           /\ Components' = Components
           /\ FactorsOK' = FactorsOK
  <1>1. Components' = Components
    BY DEF Components
  <1>2. \A r : RowOf(r)' = RowOf(r)
    BY DEF RowOf, Converted, Scanline
  <1>3. \A g : GroupOf(g)' = GroupOf(g)
    BY <1>2 DEF GroupOf
  <1>4. \A k, g, y : GroupRow(k, g, y)' = GroupRow(k, g, y)
    BY <1>3 DEF GroupRow, Plane
  <1>5. \A k, y : SourceRow(k, y)' = SourceRow(k, y)
    BY DEF SourceRow
  <1>6. \A k, y : PlaneRow(k, y)' = PlaneRow(k, y)
    BY <1>4, <1>5, Zenon DEF PlaneRow
  <1>7. \A k, n : PlaneIMCU(k, n)' = PlaneIMCU(k, n)
    BY <1>6 DEF PlaneIMCU
  <1>8. FactorsOK' = FactorsOK
    BY <1>1 DEF FactorsOK
  <1> QED
    BY <1>1, <1>2, <1>7, <1>8, Zenon

LEMMA TakenKept ==
    ASSUME TakenExact, UNCHANGED <<setup, coef>>,
           cmain'.cur_iMCU_row = cmain.cur_iMCU_row
    PROVE  TakenExact'
  <1>1. \A n : [k \in Components |-> PlaneIMCU(k, n - 1)]'
                  = [k \in Components |-> PlaneIMCU(k, n - 1)]
    BY PlanesKept
  <1> QED
    BY <1>1, Zenon DEF TakenExact

LEMMA FilledNext ==
    ASSUME setup' = setup, cmain'.cur_iMCU_row = cmain.cur_iMCU_row,
           NEW b, NEW n, FilledTo(b, n), buffer' = b, cmain'.rowgroup_ctr = n
    PROVE  FilledTo(buffer, cmain.rowgroup_ctr)'
  <1>1. /\ b = [k \in Components |->
                  [y \in Span(setup.comps[k].vg * DCTSIZE) |-> b[k][y]]]
        /\ \A k \in Components : \A y \in Span(setup.comps[k].vg * n) :
              b[k][y] = PlaneIMCU(k, cmain.cur_iMCU_row)[y]
    BY Zenon DEF FilledTo
  <1>2. /\ \A k, m : PlaneIMCU(k, m)' = PlaneIMCU(k, m)
        /\ Components' = Components
    BY PlanesKept, Zenon
  <1>3. \A k : PlaneIMCU(k, cmain.cur_iMCU_row)' = PlaneIMCU(k, cmain.cur_iMCU_row)
    BY <1>2, PlanesKept DEF PlaneIMCU
  <1>4. buffer' = [k \in Components' |->
                     [y \in Span(setup'.comps[k].vg * DCTSIZE) |-> buffer'[k][y]]]
    BY <1>1, <1>2, Zenon
  <1>5. \A k \in Components' : \A y \in Span(setup'.comps[k].vg * cmain'.rowgroup_ctr) :
           buffer'[k][y] = PlaneIMCU(k, cmain.cur_iMCU_row)[y]
    BY <1>1, <1>2, Zenon
  <1>6. \A k \in Components' : \A y \in Span(setup'.comps[k].vg * cmain'.rowgroup_ctr) :
           buffer'[k][y] = PlaneIMCU(k, cmain.cur_iMCU_row)'[y]
    BY ONLY <1>3, <1>5, Zenon
  <1> QED
    BY ONLY <1>4, <1>6, Zenon DEF FilledTo

-----------------------------------------------------------------------------
(* The loop without context. *)

\* The rows of the call that are converted are the next rows of the image.
LEMMA ConvertedRows ==
    ASSUME Compressing, app.at = "fill", cmain.rowgroup_ctr < DCTSIZE,
           NEW at \in Nat, NEW n \in Nat, n <= prep.rows_to_go, NEW i \in at..(at + n - 1)
    PROVE  /\ Converted(app.next_scanline + app.row_ctr + i - at)
                 = RowOf((setup.height - prep.rows_to_go) + (i - at))
           /\ (setup.height - prep.rows_to_go) + (i - at) \in 0..(setup.height - 1)
  <1> DEFINE r == (setup.height - prep.rows_to_go) + (i - at)
  <1>1. HeldBack = 0
    BY Counted DEF Compressing, CallAgrees, HeldBack
  <1>2. app.next_scanline + app.row_ctr = setup.height - prep.rows_to_go
    BY <1>1, Counted
  <1>3. i - at \in Nat /\ i - at < n
    OBVIOUS
  <1>4. app.next_scanline + app.row_ctr + i - at = r
    BY <1>2, <1>3, Counted
  <1>5. r \in 0..(setup.height - 1)
    BY <1>2, <1>3, Counted
  <1> HIDE DEF r
  <1>6. (IF r < 0 THEN 0 ELSE Smaller(r, setup.height - 1)) = r
    BY <1>5, Counted DEF Smaller
  <1>7. RowOf(r) = Converted(r)
    BY <1>6, Zenon DEF RowOf
  <1> QED
    BY <1>4, <1>5, <1>7, Zenon DEF r

\* The rows below the image are its last row.
LEMMA RowsBelow ==
    ASSUME SetupOK, NEW r \in Int, NEW s \in Int,
           r >= setup.height - 1, s >= setup.height - 1
    PROVE  RowOf(r) = RowOf(s)
  <1>1. setup.height \in Nat \ {0}
    BY DEF SetupOK
  <1>2. /\ (IF r < 0 THEN 0 ELSE Smaller(r, setup.height - 1)) = setup.height - 1
        /\ (IF s < 0 THEN 0 ELSE Smaller(s, setup.height - 1)) = setup.height - 1
    BY <1>1 DEF Smaller
  <1> QED
    BY <1>2, Zenon DEF RowOf

\* A turn of the loop by its parts.
TurnRows == Smaller(setup.maxv - prep.next_buf_row, app.avail - app.row_ctr)
TurnNext == prep.next_buf_row + TurnRows
TurnBottom == prep.rows_to_go = TurnRows
TurnBuf == ColorConverted(color_buf, prep.next_buf_row, TurnRows)
TurnGroup == IF TurnBottom THEN expand_bottom_edge(TurnBuf, TurnNext) ELSE TurnBuf

LEMMA TurnCounts ==
    ASSUME Compressing, ~setup.context, app.at = "fill",
           app.row_ctr < app.avail, cmain.rowgroup_ctr < DCTSIZE
    PROVE  /\ prep.rows_to_go > 0
           /\ TurnRows \in Nat \ {0} /\ TurnRows <= prep.rows_to_go
           /\ TurnNext \in 1..setup.maxv
           /\ GroupsDone * setup.maxv \in Nat
           /\ setup.height - prep.rows_to_go = GroupsDone * setup.maxv + prep.next_buf_row
           /\ TurnBottom => setup.height = GroupsDone * setup.maxv + TurnNext
           /\ GroupsDone * setup.maxv < setup.height
           /\ GroupsDone * setup.maxv + setup.maxv = (GroupsDone + 1) * setup.maxv
  <1> DEFINE all == GroupsDone * setup.maxv
  <1>1. HeldBack = 0
    BY Counted DEF Compressing, CallAgrees, HeldBack
  <1>2. prep.rows_to_go > 0 /\ app.avail - app.row_ctr <= prep.rows_to_go
    BY <1>1, Counted DEF Compressing, CallAgrees
  <1>3. /\ prep.next_buf_row < setup.maxv
        /\ setup.height - prep.rows_to_go = all + prep.next_buf_row
    BY <1>2 DEF Compressing, WithoutContextAgrees
  <1>4. /\ TurnRows \in Nat \ {0} /\ TurnRows <= prep.rows_to_go
        /\ TurnNext \in 1..setup.maxv
    BY <1>2, <1>3, Counted DEF TurnRows, TurnNext, Smaller
  <1>5. all \in Nat /\ all + setup.maxv = (GroupsDone + 1) * setup.maxv
    <2>1. GroupsDone \in Nat /\ setup.maxv \in Nat
      BY Counted DEF GroupsDone
    <2> QED
      BY <2>1, SMTT(30)
  <1> HIDE DEF all
  <1>6. TurnBottom => setup.height = all + TurnNext
    BY <1>3, <1>4, <1>5, Counted DEF TurnBottom, TurnNext
  <1>7. all < setup.height
    BY <1>2, <1>3, <1>5, Counted
  <1> QED
    BY <1>2, <1>3, <1>4, <1>5, <1>6, <1>7 DEF all

LEMMA TurnConverts ==
    ASSUME Compressing, ~setup.context, app.at = "fill",
           app.row_ctr < app.avail, cmain.rowgroup_ctr < DCTSIZE,
           GroupBufferExact
    PROVE  /\ DOMAIN TurnGroup = Span(setup.maxv)
           /\ \A i \in Span(TurnNext) :
                 TurnGroup[i] = RowOf(GroupsDone * setup.maxv + i)
           /\ TurnBottom \/ TurnNext = setup.maxv => TurnGroup = GroupOf(GroupsDone)
  <1> DEFINE all == GroupsDone * setup.maxv
             V == setup.maxv
             N == TurnNext
  <1>1. /\ prep.rows_to_go > 0
        /\ TurnRows \in Nat \ {0} /\ TurnRows <= prep.rows_to_go
        /\ N \in 1..V /\ all \in Nat
        /\ setup.height - prep.rows_to_go = all + prep.next_buf_row
        /\ TurnBottom => setup.height = all + N
    BY TurnCounts, Zenon
  <1>2. /\ prep.next_buf_row \in Nat /\ V \in Nat \ {0} /\ setup.height \in Nat
        /\ prep.rows_to_go \in Nat
    BY Counted
  <1>3. DOMAIN color_buf = Span(V)
    BY Zenon DEF GroupBufferExact
  <1>4. TurnBuf = [i \in Span(V) |->
                     IF i \in prep.next_buf_row..(prep.next_buf_row + TurnRows - 1)
                     THEN Converted(app.next_scanline + app.row_ctr + i - prep.next_buf_row)
                     ELSE color_buf[i]]
    BY <1>3, Zenon DEF TurnBuf, ColorConverted
  <1>5. ASSUME NEW i \in Span(N)
        PROVE  TurnBuf[i] = RowOf(all + i)
    <2>1. i \in Span(V) /\ i \in Nat /\ i < N
      BY <1>1, <1>2, <1>5 DEF Span
    <2>2. CASE i >= prep.next_buf_row
      <3>1. i \in prep.next_buf_row..(prep.next_buf_row + TurnRows - 1)
        BY <1>1, <1>2, <2>1, <2>2 DEF TurnNext
      <3>2. TurnBuf[i] = Converted(app.next_scanline + app.row_ctr + i - prep.next_buf_row)
        BY ONLY <1>4, <2>1, <3>1
      <3>3. Converted(app.next_scanline + app.row_ctr + i - prep.next_buf_row)
              = RowOf((setup.height - prep.rows_to_go) + (i - prep.next_buf_row))
        BY <1>1, <1>2, <3>1, ConvertedRows
      <3>4. (setup.height - prep.rows_to_go) + (i - prep.next_buf_row) = all + i
        <4> HIDE DEF all
        <4> QED
          BY <1>1, <1>2, <2>1
      <3> HIDE DEF all
      <3> QED
        BY <3>2, <3>3, <3>4, Zenon
    <2>3. CASE ~(i >= prep.next_buf_row)
      <3>1. i \notin prep.next_buf_row..(prep.next_buf_row + TurnRows - 1)
        BY <1>2, <2>1, <2>3
      <3>2. TurnBuf[i] = color_buf[i]
        BY ONLY <1>4, <2>1, <3>1
      <3>3. i \in Span(prep.next_buf_row)
        BY <1>2, <2>1, <2>3 DEF Span
      <3> QED
        BY <1>1, <3>2, <3>3, Zenon DEF GroupBufferExact
    <2> QED
      BY <2>2, <2>3
  <1>6. TurnBottom => TurnGroup = [i \in Span(V) |-> IF i < N THEN TurnBuf[i]
                                                              ELSE TurnBuf[N - 1]]
    <2>1. DOMAIN TurnBuf = Span(V)
      BY ONLY <1>4
    <2> QED
      BY <2>1, Zenon DEF TurnGroup, expand_bottom_edge
  <1>7. ~TurnBottom => TurnGroup = TurnBuf
    BY Zenon DEF TurnGroup
  <1>8. \A i \in Span(V) : TurnBottom => TurnGroup[i] = RowOf(all + i)
    <2>1. SUFFICES ASSUME NEW i \in Span(V), TurnBottom
                   PROVE  TurnGroup[i] = RowOf(all + i)
      OBVIOUS
    <2>2. i \in Nat /\ N \in Nat
      BY <1>1, <1>2 DEF Span
    <2>3. CASE i < N
      <3>1. i \in Span(N)
        BY <2>2, <2>3 DEF Span
      <3>2. TurnGroup[i] = TurnBuf[i]
        BY ONLY <1>6, <2>1, <2>3
      <3> QED
        BY <1>5, <3>1, <3>2, Zenon
    <2>4. CASE ~(i < N)
      <3>1. N - 1 \in Span(N)
        BY <1>1, <2>2 DEF Span
      <3>2. TurnGroup[i] = TurnBuf[N - 1]
        BY ONLY <1>6, <2>1, <2>4
      <3>3. RowOf(all + i) = RowOf(all + (N - 1))
        <4> HIDE DEF all, N
        <4>1. /\ all + i \in Int /\ all + (N - 1) \in Int
              /\ all + i >= setup.height - 1 /\ all + (N - 1) >= setup.height - 1
          BY <1>1, <1>2, <2>1, <2>2, <2>4
        <4>2. SetupOK
          BY DEF Compressing
        <4> QED
          BY <4>1, <4>2, RowsBelow, Zenon
      <3> HIDE DEF all, N
      <3> QED
        BY <1>5, <3>1, <3>2, <3>3, Zenon
    <2> QED
      BY <2>3, <2>4
  <1>9. DOMAIN TurnGroup = Span(V)
    BY ONLY <1>4, <1>6, <1>7
  <1>10. ASSUME NEW i \in Span(N)
         PROVE  TurnGroup[i] = RowOf(all + i)
    <2>1. i \in Span(V)
      BY <1>1, <1>2, <1>10 DEF Span
    <2> HIDE DEF all, V, N
    <2> QED
      BY <1>5, <1>7, <1>8, <1>10, <2>1, Zenon
  <1>11. ASSUME TurnBottom \/ N = V
         PROVE  TurnGroup = GroupOf(GroupsDone)
    <2>1. \A i \in Span(V) : TurnGroup[i] = RowOf(all + i)
      BY <1>8, <1>10, <1>11, Zenon
    <2>2. GroupOf(GroupsDone) = [i \in Span(V) |-> RowOf(all + i)]
      BY Zenon DEF GroupOf
    <2>3. TurnGroup = [i \in Span(V) |-> TurnGroup[i]]
      BY ONLY <1>4, <1>6, <1>7
    <2> HIDE DEF all, V, N
    <2> QED
      BY ONLY <2>1, <2>2, <2>3
  <1> QED
    BY <1>9, <1>10, <1>11, Zenon

\* A turn of the loop without context keeps what the buffers hold.
LEMMA PreProcessDataRows ==
    ASSUME Compressing, FactorsOK, GroupBufferExact,
           FilledTo(buffer, cmain.rowgroup_ctr), pre_process_data
    PROVE  GroupBufferExact' /\ FilledTo(buffer, cmain.rowgroup_ctr)'
  <1> DEFINE V == setup.maxv
             full == TurnBottom \/ TurnNext = V
             old == cmain.rowgroup_ctr
             ctr == IF full THEN old + 1 ELSE old
             end == IF TurnBottom THEN DCTSIZE ELSE ctr
             row == IF full THEN 0 ELSE TurnNext
             filled == IF full THEN sep_downsample(TurnGroup, old) ELSE buffer
             b == IF TurnBottom
                  THEN [k \in Components |->
                           expand_bottom_edge(filled[k], ctr * setup.comps[k].vg)]
                  ELSE filled
  <1>1. /\ app.at = "fill" /\ ~setup.context
        /\ app.row_ctr < app.avail /\ old < DCTSIZE
        /\ setup' = setup
    BY Zenon DEF pre_process_data
  <1>2. /\ color_buf' = TurnGroup
        /\ cmain' = [cmain EXCEPT !.rowgroup_ctr = end]
        /\ prep' = [prep EXCEPT !.rows_to_go = @ - TurnRows, !.next_buf_row = row]
    BY Zenon DEF pre_process_data, TurnGroup, TurnBuf, TurnBottom, TurnNext, TurnRows
  <1>3. buffer' = b
    BY Zenon DEF pre_process_data, TurnGroup, TurnBuf, TurnBottom, TurnNext, TurnRows
  <1>4. /\ prep.rows_to_go > 0
        /\ TurnRows \in Nat \ {0} /\ TurnRows <= prep.rows_to_go
        /\ TurnNext \in 1..V
        /\ TurnBottom => setup.height = GroupsDone * V + TurnNext
        /\ GroupsDone * V < setup.height
        /\ GroupsDone * V \in Nat
        /\ GroupsDone * V + V = (GroupsDone + 1) * V
    BY <1>1, TurnCounts, Zenon
  <1>5. /\ DOMAIN TurnGroup = Span(V)
        /\ \A i \in Span(TurnNext) : TurnGroup[i] = RowOf(GroupsDone * V + i)
        /\ full => TurnGroup = GroupOf(GroupsDone)
    BY <1>1, TurnConverts, Zenon
  <1>6. old \in 0..(DCTSIZE - 1) /\ DCTSIZE \in Nat \ {0} /\ cmain.cur_iMCU_row \in Nat
    BY <1>1, Counted
  <1>7. /\ cmain'.cur_iMCU_row = cmain.cur_iMCU_row /\ cmain'.rowgroup_ctr = end
        /\ prep'.rows_to_go = prep.rows_to_go - TurnRows /\ prep'.next_buf_row = row
    <2> HIDE DEF end, row
    <2> QED
      BY <1>2 DEF Compressing, CountersOK
  <1>8. SetupOK
    BY DEF Compressing
  <1>9. FilledTo(filled, ctr)
    <2>1. CASE full
      <3>1. setup.context \/ GroupsDone * setup.maxv < setup.height
        BY <1>4
      <3>2. FilledTo(sep_downsample(GroupOf(GroupsDone), old), old + 1)
        BY <1>6, <1>8, <3>1, Downsampled
      <3> QED
        BY <1>5, <2>1, <3>2, Zenon
    <2>2. CASE ~full
      BY <2>2, Zenon
    <2> QED
      BY <2>1, <2>2, Zenon
  <1>10. FilledTo(b, end)
    <2>1. CASE TurnBottom
      <3>1. ctr = old + 1
        BY <2>1
      <3>2. setup.height <= (GroupsDone + 1) * V
        <4> DEFINE all == GroupsDone * V
                   more == (GroupsDone + 1) * V
        <4>1. setup.height = all + TurnNext /\ all + V = more /\ all \in Nat
          BY <1>4, <2>1
        <4> HIDE DEF all, more
        <4>2. setup.height <= more
          BY <1>4, <4>1, Counted
        <4> QED
          BY <4>2 DEF more
      <3>3. b = [k \in Components |->
                    expand_bottom_edge(filled[k], (cmain.rowgroup_ctr + 1) * setup.comps[k].vg)]
        BY <2>1, <3>1
      <3>4. FilledTo(filled, cmain.rowgroup_ctr + 1)
        BY <1>9, <3>1
      <3>5. end = DCTSIZE
        BY <2>1
      <3> HIDE DEF filled, b, end
      <3>6. FilledTo([k \in Components |->
                    expand_bottom_edge(filled[k], (cmain.rowgroup_ctr + 1) * setup.comps[k].vg)],
                     DCTSIZE)
        BY <1>1, <1>4, <1>6, <1>8, <3>2, <3>4, FilledToBottom, Zenon
      <3> QED
        BY <3>3, <3>5, <3>6, Zenon
    <2>2. CASE ~TurnBottom
      <3>1. b = filled /\ end = ctr
        BY <2>2, Zenon
      <3> HIDE DEF b, end, filled, ctr
      <3> QED
        BY <1>9, <3>1, Zenon
    <2> QED
      BY <2>1, <2>2, Zenon
  <1>11. FilledTo(buffer, cmain.rowgroup_ctr)'
    <2> HIDE DEF b, end
    <2> QED
      BY <1>1, <1>3, <1>7, <1>10, FilledNext, Zenon
  <1>12. GroupBufferExact'
    <2>1. DOMAIN color_buf' = Span(setup'.maxv)
      BY <1>1, <1>2, <1>5
    <2>2. \A r : RowOf(r)' = RowOf(r)
      BY <1>1, PlanesKept, Zenon
    <2>3. ASSUME prep'.rows_to_go > 0, NEW i \in Span(prep'.next_buf_row)
          PROVE  color_buf'[i] = RowOf(GroupsDone * setup.maxv + i)'
      <3>1. ~TurnBottom
        BY <1>4, <1>7, <2>3, Counted DEF TurnBottom
      <3>2. CASE full
        <4>1. i \in Span(0)
          BY <1>7, <2>3, <3>2
        <4> QED
          BY <4>1 DEF Span
      <3>3. CASE ~full
        <4>1. prep'.next_buf_row = TurnNext /\ cmain'.rowgroup_ctr = old
          BY <1>7, <3>1, <3>3
        <4>2. GroupsDone' = GroupsDone
          BY <1>7, <4>1, Zenon DEF GroupsDone
        <4>3. color_buf'[i] = RowOf(GroupsDone * V + i)
          BY <1>2, <1>5, <2>3, <4>1
        <4>4. RowOf(GroupsDone * setup.maxv + i)' = RowOf(GroupsDone * setup.maxv + i)
          BY <1>1, <4>2 DEF RowOf, Converted, Scanline
        <4> QED
          BY <4>3, <4>4
      <3> QED
        BY <3>2, <3>3
    <2> QED
      BY <2>1, <2>3, Zenon DEF GroupBufferExact
  <1> QED
    BY <1>11, <1>12, Zenon

-----------------------------------------------------------------------------
(* The loop with context. *)

\* Rows of the image in a buffer of three groups, used round; n more, put there
\* from a place on.
InRound(rows, V, from, to) == \A r \in from..to : rows[r % (3 * V)] = RowOf(r)
PutBehind(old, new, V, W, row, n) ==
    /\ new = [i \in Span(3 * V) |-> IF i \in row..(row + n - 1) THEN new[i] ELSE old[i]]
    /\ \A j \in 0..(n - 1) : new[row + j] = RowOf(W + j)

\* Rows that are put behind the last ones leave those of three groups in place.
LEMMA WindowMoves ==
    ASSUME NEW V \in Nat \ {0}, NEW g \in Nat, NEW W \in Nat, NEW row \in Nat, NEW n \in Nat,
           row = W % (3 * V), row + n <= 3 * V, W + n <= g * V + 2 * V,
           NEW old, NEW new, PutBehind(old, new, V, W, row, n),
           InRound(old, V, g * V - V, W - 1)
    PROVE  InRound(new, V, g * V - V, W + n - 1)
  <1> DEFINE m == 3 * V
             from == g * V - V
  <1>1. m \in Nat \ {0} /\ from \in Int /\ g * V + 2 * V = from + m
    <2>1. g * V \in Nat
      OBVIOUS
    <2> QED
      BY <2>1
  <1>2. /\ row = W % m /\ row + n <= m /\ W + n <= from + m
        /\ new = [i \in Span(m) |-> IF i \in row..(row + n - 1) THEN new[i] ELSE old[i]]
        /\ \A j \in 0..(n - 1) : new[row + j] = RowOf(W + j)
        /\ \A r \in from..(W - 1) : old[r % m] = RowOf(r)
    BY <1>1 DEF PutBehind, InRound
  <1> HIDE DEF m, from
  <1>3. SUFFICES ASSUME NEW r \in from..(W + n - 1)
                 PROVE  new[r % m] = RowOf(r)
    BY Zenon DEF m, from, InRound
  <1>4. r \in Int /\ r % m \in 0..(m - 1) /\ r % m \in Span(m)
    <2>1. r \in Int
      BY <1>1
    <2> QED
      BY <1>1, <2>1, Divided DEF Span
  <1>5. CASE r >= W
    <2>1. PICK j \in 0..(n - 1) : r = W + j
      <3>1. r - W \in 0..(n - 1) /\ r = W + (r - W)
        BY <1>1, <1>3, <1>5
      <3> QED
        BY <3>1
    <2>2. (W + j) % m = row + j
      <3>1. (W % m) + j <= m /\ (W % m) + j # m /\ j \in Nat /\ W \in Int
        <4> DEFINE u == W % m
        <4> HIDE DEF u
        <4>1. u = row /\ W \in Int
          BY <1>1, <1>2 DEF u
        <4>2. u + j <= m /\ u + j # m /\ j \in Nat
          BY <1>1, <1>2, <2>1, <4>1
        <4> QED
          BY <4>1, <4>2 DEF u
      <3>2. (W + j) % m = IF (W % m) + j = m THEN 0 ELSE (W % m) + j
        BY <1>1, <3>1, RoundNext, Zenon
      <3> QED
        BY <1>2, <3>1, <3>2
    <2> QED
      BY <1>2, <2>1, <2>2
  <1>6. CASE ~(r >= W)
    <2>1. r \in from..(W - 1)
      BY <1>1, <1>3, <1>6
    <2>2. r % m \notin row..(row + n - 1)
      <3>1. SUFFICES ASSUME NEW i \in row..(row + n - 1), r % m = i
                     PROVE  FALSE
        OBVIOUS
      <3>2. PICK j \in 0..(n - 1) : i = row + j
        <4>1. i - row \in 0..(n - 1) /\ i = row + (i - row)
          BY <3>1
        <4> QED
          BY <4>1
      <3>3. (W + j) % m = i
        <4>1. (W % m) + j <= m /\ (W % m) + j # m /\ j \in Nat /\ W \in Int
          <5> DEFINE u == W % m
          <5> HIDE DEF u
          <5>1. u = row /\ W \in Int
            BY <1>1, <1>2 DEF u
          <5>2. u + j <= m /\ u + j # m /\ j \in Nat
            BY <1>1, <1>2, <3>2, <5>1
          <5> QED
            BY <5>1, <5>2 DEF u
        <4>2. (W + j) % m = IF (W % m) + j = m THEN 0 ELSE (W % m) + j
          BY <1>1, <4>1, RoundNext, Zenon
        <4> QED
          BY <1>2, <3>2, <4>1, <4>2
      <3>4. W + j \in Int /\ r < W + j /\ (W + j) - r < m
        BY <1>1, <1>2, <1>4, <2>1, <3>2
      <3>5. r % m # (W + j) % m
        BY <1>1, <1>4, <3>4, RoundApart, Zenon
      <3> QED
        BY <3>1, <3>3, <3>5, Zenon
    <2>3. new[r % m] = old[r % m]
      BY ONLY <1>2, <1>4, <2>2
    <2> QED
      BY <1>2, <2>1, <2>3, Zenon
  <1> QED
    BY <1>5, <1>6

\* A turn of the loop by its parts.
FreshTurn == app.row_ctr < app.avail
FreshRows == Smaller(prep.next_buf_stop - prep.next_buf_row, app.avail - app.row_ctr)
ContextNext == IF FreshTurn THEN prep.next_buf_row + FreshRows ELSE prep.next_buf_stop
FreshBuf == ColorConverted(color_buf, prep.next_buf_row, FreshRows)
ContextRows ==
    CASE FreshTurn /\ prep.rows_to_go = setup.height -> PaddedTop(FreshBuf)
      [] FreshTurn /\ prep.rows_to_go # setup.height -> FreshBuf
      [] OTHER -> PaddedBottom(color_buf, prep.next_buf_row, prep.next_buf_stop)
NewRows == ContextNext - prep.next_buf_row

LEMMA ContextCounts ==
    ASSUME Compressing, setup.context, app.at = "fill", cmain.rowgroup_ctr < DCTSIZE,
           FreshTurn \/ prep.rows_to_go = 0, ContextBufferExact
    PROVE  /\ GroupsDone \in Nat /\ GroupsDone * setup.maxv \in Nat
           /\ (GroupsDone + 2) * setup.maxv = GroupsDone * setup.maxv + 2 * setup.maxv
           /\ Written \in Nat /\ Written >= GroupsDone * setup.maxv
           /\ Written + (prep.next_buf_stop - prep.next_buf_row)
                 = GroupsDone * setup.maxv + 2 * setup.maxv
           /\ NewRows \in Nat /\ ContextNext = prep.next_buf_row + NewRows
           /\ ContextNext \in Nat /\ ContextNext <= prep.next_buf_stop
           /\ FreshTurn => /\ prep.rows_to_go > 0 /\ NewRows = FreshRows
                           /\ FreshRows \in Nat \ {0} /\ FreshRows <= prep.rows_to_go
                           /\ setup.height - prep.rows_to_go = Written
           /\ ~FreshTurn => /\ ContextNext = prep.next_buf_stop
                            /\ prep.rows_to_go = 0 /\ Written >= setup.height
           /\ FreshTurn /\ prep.rows_to_go = setup.height
                 => GroupsDone = 0 /\ Written = 0 /\ FreshRows <= 2 * setup.maxv
  <1> DEFINE all == GroupsDone * setup.maxv
             V == setup.maxv
  <1>1. /\ V \in Nat \ {0} /\ prep.next_buf_stop \in Nat /\ prep.next_buf_row \in Nat
        /\ prep.rows_to_go \in Nat /\ app.row_ctr \in Nat /\ app.avail \in Nat
        /\ setup.height \in Nat \ {0} /\ app.next_scanline \in Nat
    BY Counted
  <1>2. GroupsDone \in Nat
    BY Counted DEF GroupsDone
  <1>3. all \in Nat /\ (GroupsDone + 2) * V = all + 2 * V
    <2>1. \A a \in Nat, c \in Nat : a * c \in Nat /\ (a + 2) * c = a * c + 2 * c
      BY ONLY SMTT(30)
    <2> QED
      BY <1>1, <1>2, <2>1, Zenon
  <1>4. /\ prep.next_buf_row < prep.next_buf_stop
        /\ prep.next_buf_stop <= prep.next_buf_row + 2 * V
        /\ prep.rows_to_go = 0 => Written >= setup.height
    BY Zenon DEF ContextBufferExact
  <1>5. Written = (all + 2 * V) - (prep.next_buf_stop - prep.next_buf_row)
    BY <1>3 DEF Written
  <1>6. HeldBack = 0
    BY Counted DEF Compressing, CallAgrees, HeldBack
  <1>7. FreshTurn => /\ prep.rows_to_go > 0 /\ FreshRows \in Nat \ {0}
                     /\ FreshRows <= prep.rows_to_go
                     /\ FreshRows <= prep.next_buf_stop - prep.next_buf_row
    <2>1. SUFFICES ASSUME app.row_ctr < app.avail
                   PROVE  /\ prep.rows_to_go > 0 /\ FreshRows \in Nat \ {0}
                          /\ FreshRows <= prep.rows_to_go
                          /\ FreshRows <= prep.next_buf_stop - prep.next_buf_row
      BY DEF FreshTurn
    <2>2. app.avail - app.row_ctr <= prep.rows_to_go
      BY <1>6, <2>1, Counted DEF Compressing, CallAgrees
    <2> QED
      BY <1>1, <1>4, <2>1, <2>2 DEF FreshRows, Smaller
  <1>8. FreshTurn => setup.height - prep.rows_to_go = Written
    <2>1. FreshTurn => setup.height - prep.rows_to_go
                          = (GroupsDone + 2) * V - (prep.next_buf_stop - prep.next_buf_row)
      BY <1>7 DEF Compressing, ContextAgrees
    <2> QED
      BY <2>1, Zenon DEF Written
  <1> HIDE DEF all, V
  <1>9. /\ Written \in Nat /\ Written >= all
        /\ Written + (prep.next_buf_stop - prep.next_buf_row) = all + 2 * V
    BY <1>1, <1>3, <1>4, <1>5
  <1>10. /\ NewRows \in Nat /\ ContextNext = prep.next_buf_row + NewRows
         /\ ContextNext \in Nat /\ ContextNext <= prep.next_buf_stop
         /\ FreshTurn => NewRows = FreshRows
         /\ ~FreshTurn => ContextNext = prep.next_buf_stop
    <2>1. CASE FreshTurn
      <3>1. ContextNext = prep.next_buf_row + FreshRows
        BY <2>1, Zenon DEF ContextNext
      <3> QED
        BY <1>1, <1>7, <2>1, <3>1 DEF NewRows
    <2>2. CASE ~FreshTurn
      <3>1. ContextNext = prep.next_buf_stop
        BY <2>2, Zenon DEF ContextNext
      <3> QED
        BY <1>1, <1>4, <2>2, <3>1 DEF NewRows
    <2> QED
      BY <2>1, <2>2
  <1>11. ~FreshTurn => prep.rows_to_go = 0 /\ Written >= setup.height
    BY <1>4
  <1>12. ASSUME FreshTurn, prep.rows_to_go = setup.height
         PROVE  GroupsDone = 0 /\ Written = 0 /\ FreshRows <= 2 * V
    <2>1. Written = 0 /\ all = 0
      BY <1>1, <1>3, <1>8, <1>9, <1>12
    <2>2. GroupsDone = 0
      <3>1. GroupsDone * V = 0
        BY <2>1 DEF all, V
      <3>2. GroupsDone >= 1 => GroupsDone * V >= V
        BY <1>1, <1>2, SMTT(30)
      <3> QED
        BY <1>1, <1>2, <3>1, <3>2
    <2> QED
      BY <1>1, <1>4, <1>7, <1>12, <2>1, <2>2
  <1> QED
    BY <1>2, <1>3, <1>7, <1>8, <1>9, <1>10, <1>11, <1>12 DEF all, V

\* Whether rows come or the bottom is padded, the buffer has all rows up to there.
LEMMA ContextConverts ==
    ASSUME Compressing, setup.context, app.at = "fill", cmain.rowgroup_ctr < DCTSIZE,
           FreshTurn \/ prep.rows_to_go = 0, ContextBufferExact
    PROVE  /\ DOMAIN ContextRows = Span(3 * setup.maxv)
           /\ InRound(ContextRows, setup.maxv, GroupsDone * setup.maxv - setup.maxv,
                      Written + NewRows - 1)
  <1> DEFINE V == setup.maxv
             m == 3 * V
             g == GroupsDone
             row == prep.next_buf_row
             n == NewRows
             W == Written
             from == g * V - V
  <1>1. /\ V \in Nat \ {0} /\ row \in Nat /\ prep.next_buf_stop \in Nat
        /\ setup.height \in Nat \ {0} /\ prep.rows_to_go \in Nat
    BY Counted
  <1>2. /\ g \in Nat /\ g * V \in Nat /\ W \in Nat /\ W >= g * V
        /\ W + (prep.next_buf_stop - row) = g * V + 2 * V
        /\ n \in Nat /\ ContextNext = row + n /\ ContextNext <= prep.next_buf_stop
        /\ FreshTurn => /\ prep.rows_to_go > 0 /\ n = FreshRows
                        /\ FreshRows \in Nat \ {0} /\ FreshRows <= prep.rows_to_go
                        /\ setup.height - prep.rows_to_go = W
        /\ ~FreshTurn => /\ ContextNext = prep.next_buf_stop
                         /\ prep.rows_to_go = 0 /\ W >= setup.height
        /\ FreshTurn /\ prep.rows_to_go = setup.height => g = 0 /\ W = 0 /\ FreshRows <= 2 * V
    BY ContextCounts, Zenon
  <1>3. /\ DOMAIN color_buf = Span(m)
        /\ row = W % m /\ prep.next_buf_stop <= m
        /\ prep.rows_to_go < setup.height =>
              \A r \in (g - 1) * V .. W - 1 : color_buf[r % m] = RowOf(r)
    BY Zenon DEF ContextBufferExact
  <1>4. (g - 1) * V = from /\ from \in Int
    <2>1. \A a \in Nat, c \in Nat : (a - 1) * c = a * c - c /\ a * c - c \in Int
      BY ONLY SMTT(30)
    <2> QED
      BY <1>1, <1>2, <2>1, Zenon
  <1>5. /\ row + n <= m /\ W + n <= g * V + 2 * V
        /\ row \in Nat /\ n \in Nat /\ m \in Nat
    <2> DEFINE all == g * V
               stop == prep.next_buf_stop
    <2>1. /\ all \in Nat /\ W + (stop - row) = all + 2 * V
          /\ row + n <= stop /\ stop <= m
          /\ row \in Nat /\ n \in Nat /\ stop \in Nat /\ W \in Nat /\ V \in Nat
      BY <1>1, <1>2, <1>3
    <2> HIDE DEF all, V, n, W, row, m, stop
    <2>2. row + n <= stop /\ stop <= m /\ m = 3 * V
      BY <2>1, Zenon DEF m
    <2>3. row + n <= m /\ W + n <= all + 2 * V
      BY ONLY <2>1, <2>2
    <2> QED
      BY <1>1, <2>1, <2>3 DEF all, n, row, m, V
  <1>6. FreshTurn =>
           /\ FreshBuf = [i \in Span(m) |-> IF i \in row..(row + n - 1)
                                            THEN FreshBuf[i] ELSE color_buf[i]]
           /\ \A j \in 0..(n - 1) : FreshBuf[row + j] = RowOf(W + j)
    <2>1. SUFFICES ASSUME FreshTurn
                   PROVE  /\ FreshBuf = [i \in Span(m) |-> IF i \in row..(row + n - 1)
                                                           THEN FreshBuf[i] ELSE color_buf[i]]
                          /\ \A j \in 0..(n - 1) : FreshBuf[row + j] = RowOf(W + j)
      OBVIOUS
    <2>2. FreshBuf = [i \in Span(m) |-> IF i \in row..(row + n - 1)
                         THEN Converted(app.next_scanline + app.row_ctr + i - row)
                         ELSE color_buf[i]]
      BY <1>2, <1>3, <2>1, Zenon DEF FreshBuf, ColorConverted
    <2>3. ASSUME NEW j \in 0..(n - 1)
          PROVE  FreshBuf[row + j] = RowOf(W + j)
      <3> DEFINE i == row + j
      <3>1. i \in row..(row + n - 1) /\ i \in Span(m) /\ i - row = j
        <4>1. row \in Nat /\ n \in Nat /\ j \in 0..(n - 1) /\ row + n <= m /\ m \in Nat
          BY <1>5, <2>3, Zenon
        <4> HIDE DEF row, n, m
        <4> QED
          BY ONLY <4>1 DEF Span, i
      <3> HIDE DEF i
      <3>2. FreshBuf[i] = Converted(app.next_scanline + app.row_ctr + i - row)
        BY ONLY <2>2, <3>1
      <3>3. Converted(app.next_scanline + app.row_ctr + i - row)
              = RowOf((setup.height - prep.rows_to_go) + (i - row))
        BY <1>1, <1>2, <2>1, <3>1, ConvertedRows
      <3> HIDE DEF W, row
      <3> QED
        BY <1>2, <2>1, <3>1, <3>2, <3>3 DEF i
    <2>4. FreshBuf = [i \in Span(m) |-> IF i \in row..(row + n - 1)
                                        THEN FreshBuf[i] ELSE color_buf[i]]
      <3> HIDE DEF m, row, n
      <3> QED
        BY ONLY <2>2
    <2> QED
      BY <2>3, <2>4
  <1>7. CASE FreshTurn /\ prep.rows_to_go # setup.height
    <2>1. ContextRows = FreshBuf
      BY <1>7, Zenon DEF ContextRows
    <2>2. prep.rows_to_go < setup.height
      <3>1. setup.height - prep.rows_to_go = W /\ W \in Nat
        BY <1>2, <1>7
      <3> HIDE DEF W
      <3> QED
        BY <1>1, <1>7, <3>1
    <2>3. DOMAIN FreshBuf = Span(m)
      <3> HIDE DEF m, row, n
      <3> QED
        BY ONLY <1>6, <1>7
    <2>4. \A r \in from..(W - 1) : color_buf[r % m] = RowOf(r)
      BY <1>3, <1>4, <2>2
    <2>5. /\ V \in Nat \ {0} /\ g \in Nat /\ W \in Nat /\ row \in Nat /\ n \in Nat
          /\ row = W % (3 * V) /\ row + n <= 3 * V /\ W + n <= g * V + 2 * V
      BY <1>1, <1>2, <1>3, <1>5
    <2>6. /\ PutBehind(color_buf, FreshBuf, V, W, row, n)
          /\ InRound(color_buf, V, g * V - V, W - 1)
      BY <1>6, <1>7, <2>4 DEF PutBehind, InRound
    <2> HIDE DEF W, row, n, g, V
    <2>7. InRound(FreshBuf, V, g * V - V, W + n - 1)
      BY ONLY <2>5, <2>6, WindowMoves, Zenon
    <2> QED
      BY <2>1, <2>3, <2>7 DEF W, n, g, V
  <1>8. CASE FreshTurn /\ prep.rows_to_go = setup.height
    <2> DEFINE old == [i \in Span(m) |-> IF i \in 2 * V .. 3 * V - 1 THEN RowOf(0)
                                                                     ELSE color_buf[i]]
    <2>1. ContextRows = PaddedTop(FreshBuf)
      BY <1>8, Zenon DEF ContextRows
    <2>2. g = 0 /\ W = 0 /\ n <= 2 * V /\ n \in Nat \ {0}
      BY <1>2, <1>8
    <2>3. row = 0
      BY <1>1, <1>3, <2>2
    <2>4. FreshBuf[0] = RowOf(0)
      <3>1. 0 \in 0..(n - 1) /\ row + 0 = 0 /\ W + 0 = 0
        BY <2>2, <2>3
      <3> HIDE DEF W, row, n
      <3> QED
        BY <1>6, <1>8, <3>1, Zenon
    <2>5. DOMAIN FreshBuf = Span(m)
      <3> HIDE DEF m, row, n
      <3> QED
        BY ONLY <1>6, <1>8
    <2>6. ContextRows = [i \in Span(m) |-> IF i \in 2 * V .. 3 * V - 1 THEN RowOf(0)
                                                                      ELSE FreshBuf[i]]
      BY <2>1, <2>4, <2>5, Zenon DEF PaddedTop
    <2>7. ASSUME NEW i \in 0..(n - 1)
          PROVE  i \in Span(m) /\ i \notin 2 * V .. 3 * V - 1
      BY <1>1, <2>2, <2>7 DEF Span
    <2>8. ContextRows = [i \in Span(m) |-> IF i \in row..(row + n - 1)
                                           THEN ContextRows[i] ELSE old[i]]
      <3>1. row + n - 1 = n - 1
        BY <2>2, <2>3
      <3>2. FreshBuf = [i \in Span(m) |-> IF i \in 0..(n - 1)
                                          THEN FreshBuf[i] ELSE color_buf[i]]
        BY <1>6, <1>8, <2>3, <3>1
      <3>3. ContextRows = [i \in Span(m) |-> IF i \in 0..(n - 1)
                                             THEN ContextRows[i] ELSE old[i]]
        <4> HIDE DEF m, row, n, V
        <4> QED
          BY ONLY <2>6, <3>2
      <3> QED
        BY <2>3, <3>1, <3>3
    <2>9. \A j \in 0..(n - 1) : ContextRows[row + j] = RowOf(W + j)
      <3>1. SUFFICES ASSUME NEW j \in 0..(n - 1)
                     PROVE  ContextRows[row + j] = RowOf(W + j)
        OBVIOUS
      <3>2. ContextRows[j] = FreshBuf[j]
        BY ONLY <2>6, <2>7, <3>1
      <3>3. row + j = j
        BY <2>2, <2>3
      <3> HIDE DEF W, row, n
      <3> QED
        BY <1>6, <1>8, <3>1, <3>2, <3>3
    <2>10. \A r \in (g * V - V)..(W - 1) : old[r % (3 * V)] = RowOf(r)
      <3>1. SUFFICES ASSUME NEW r \in (-V)..(-1)
                     PROVE  old[r % (3 * V)] = RowOf(r)
        <4>1. g * V - V = -V /\ W - 1 = -1
          BY <1>1, <2>2
        <4> QED
          BY <4>1
      <3>2. r \in Int /\ r < 0 /\ r >= -V
        BY <1>1, <3>1
      <3>3. r % m = r + m
        <4>1. r = (-1) * m + (r + m) /\ r + m \in 0..(m - 1) /\ m \in Nat \ {0}
          BY <1>1, <3>2
        <4>2. ((-1) * m + (r + m)) % m = r + m
          <5> HIDE DEF m
          <5>1. -1 \in Int
            OBVIOUS
          <5> QED
            BY <4>1, <5>1, DividedIs
        <4> QED
          BY <4>1, <4>2, Zenon
      <3>4. r + m \in 2 * V .. 3 * V - 1 /\ r + m \in Span(m)
        BY <1>1, <3>2 DEF Span
      <3>5. old[r % m] = RowOf(0)
        <4> DEFINE p == r + m
        <4>1. p \in 2 * V .. 3 * V - 1 /\ p \in Span(m)
          BY <3>4
        <4> HIDE DEF p
        <4>2. old[p] = RowOf(0)
          BY <4>1
        <4> QED
          BY <3>3, <4>2 DEF p
      <3>6. RowOf(r) = RowOf(0)
        <4>1. (IF r < 0 THEN 0 ELSE Smaller(r, setup.height - 1)) = 0
          BY <3>2
        <4>2. (IF 0 < 0 THEN 0 ELSE Smaller(0, setup.height - 1)) = 0
          BY <1>1 DEF Smaller
        <4> QED
          BY <4>1, <4>2, Zenon DEF RowOf
      <3> QED
        BY <3>5, <3>6
    <2>11. DOMAIN ContextRows = Span(m)
      <3> HIDE DEF m
      <3> QED
        BY ONLY <2>6
    <2>12. /\ V \in Nat \ {0} /\ g \in Nat /\ W \in Nat /\ row \in Nat /\ n \in Nat
          /\ row = W % (3 * V) /\ row + n <= 3 * V /\ W + n <= g * V + 2 * V
      BY <1>1, <1>2, <1>3, <1>5
    <2>13. /\ PutBehind(old, ContextRows, V, W, row, n)
           /\ InRound(old, V, g * V - V, W - 1)
      <3> HIDE DEF W, row, n, g, old
      <3> QED
        BY <2>8, <2>9, <2>10, Zenon DEF PutBehind, InRound
    <2> HIDE DEF W, row, n, g, V, old
    <2>14. InRound(ContextRows, V, g * V - V, W + n - 1)
      BY ONLY <2>12, <2>13, WindowMoves, Zenon
    <2> QED
      BY <2>11, <2>14 DEF W, n, g, V
  <1>9. CASE ~FreshTurn
    <2>1. ContextRows = PaddedBottom(color_buf, row, prep.next_buf_stop)
      BY <1>9, Zenon DEF ContextRows
    <2>2. row + n - 1 = prep.next_buf_stop - 1 /\ W >= setup.height /\ prep.rows_to_go = 0
      BY <1>1, <1>2, <1>9
    <2>3. ContextRows = [i \in Span(m) |-> IF i \in row..(row + n - 1)
                            THEN color_buf[(row - 1) % m] ELSE color_buf[i]]
      BY <1>3, <2>1, <2>2, Zenon DEF PaddedBottom, create_context_buffer
    <2>4. \A r \in from..(W - 1) : color_buf[r % m] = RowOf(r)
      BY <1>1, <1>3, <1>4, <2>2
    <2>5. color_buf[(row - 1) % m] = RowOf(W - 1)
      <3>1. (row + (-1)) % m = (W + (-1)) % m
        <4>1. m \in Nat \ {0} /\ W \in Int /\ -1 \in Int
          BY <1>1, <1>2
        <4>2. ((W % m) + (-1)) % m = (W + (-1)) % m
          BY <4>1, RoundFrom
        <4> QED
          BY <1>3, <4>2
      <3>2. row + (-1) = row - 1 /\ W + (-1) = W - 1
        BY <1>1, <1>2
      <3>3. W - 1 \in from..(W - 1)
        <4> DEFINE all == g * V
        <4>1. all \in Nat /\ W >= all /\ W \in Nat
          BY <1>2
        <4> HIDE DEF all, W
        <4>2. all - V <= W - 1
          BY <1>1, <4>1
        <4> QED
          BY <1>4, <4>1, <4>2 DEF all
      <3> HIDE DEF m, from
      <3> QED
        BY <2>4, <3>1, <3>2, <3>3
    <2>6. \A j \in 0..(n - 1) : ContextRows[row + j] = RowOf(W + j)
      <3>1. SUFFICES ASSUME NEW j \in 0..(n - 1)
                     PROVE  ContextRows[row + j] = RowOf(W + j)
        OBVIOUS
      <3>2. row + j \in row..(row + n - 1) /\ row + j \in Span(m)
        <4>1. row \in Nat /\ n \in Nat /\ j \in 0..(n - 1) /\ row + n <= m /\ m \in Nat
          BY <1>5, <3>1, Zenon
        <4> HIDE DEF row, n, m
        <4> QED
          BY ONLY <4>1 DEF Span
      <3>3. ContextRows[row + j] = RowOf(W - 1)
        <4> DEFINE i == row + j
        <4>1. i \in row..(row + n - 1) /\ i \in Span(m)
          BY <3>2
        <4> HIDE DEF i, m, n, row
        <4>2. ContextRows[i] = color_buf[(row - 1) % m]
          BY ONLY <2>3, <4>1
        <4> QED
          BY <2>5, <4>2 DEF i
      <3>4. RowOf(W - 1) = RowOf(W + j)
        <4>1. /\ W - 1 \in Int /\ W + j \in Int
              /\ W - 1 >= setup.height - 1 /\ W + j >= setup.height - 1
          BY <1>1, <1>2, <2>2
        <4>2. SetupOK
          BY DEF Compressing
        <4> QED
          BY <4>1, <4>2, RowsBelow, Zenon
      <3> QED
        BY <3>3, <3>4
    <2>7. ContextRows = [i \in Span(m) |-> IF i \in row..(row + n - 1)
                                           THEN ContextRows[i] ELSE color_buf[i]]
      <3> HIDE DEF m, row, n
      <3> QED
        BY ONLY <2>3
    <2>8. DOMAIN ContextRows = Span(m)
      <3> HIDE DEF m
      <3> QED
        BY ONLY <2>3
    <2>9. /\ V \in Nat \ {0} /\ g \in Nat /\ W \in Nat /\ row \in Nat /\ n \in Nat
          /\ row = W % (3 * V) /\ row + n <= 3 * V /\ W + n <= g * V + 2 * V
      BY <1>1, <1>2, <1>3, <1>5
    <2>10. /\ PutBehind(color_buf, ContextRows, V, W, row, n)
           /\ InRound(color_buf, V, g * V - V, W - 1)
      <3> HIDE DEF W, row, n, g
      <3> QED
        BY <2>4, <2>6, <2>7, Zenon DEF PutBehind, InRound
    <2> HIDE DEF W, row, n, g, V
    <2>11. InRound(ContextRows, V, g * V - V, W + n - 1)
      BY ONLY <2>9, <2>10, WindowMoves, Zenon
    <2> QED
      BY <2>8, <2>11 DEF W, n, g, V
  <1> QED
    BY <1>7, <1>8, <1>9

\* The group that is downsampled is that of the image, with a row above and below.
LEMMA ContextGroup ==
    ASSUME Compressing, setup.context, ContextBufferExact, NEW rows,
           InRound(rows, setup.maxv, GroupsDone * setup.maxv - setup.maxv,
                   GroupsDone * setup.maxv + 2 * setup.maxv - 1)
    PROVE  WithContext(rows, prep.this_row_group) = GroupOf(GroupsDone)
  <1> DEFINE V == setup.maxv
             m == 3 * V
             all == GroupsDone * V
             this == prep.this_row_group
  <1>1. V \in Nat \ {0} /\ m \in Nat \ {0} /\ all \in Nat
    <2>1. V \in Nat \ {0} /\ GroupsDone \in Nat
      BY Counted DEF GroupsDone
    <2>2. \A a \in Nat, c \in Nat \ {0} : a * c \in Nat /\ 3 * c \in Nat \ {0}
      BY ONLY SMTT(30)
    <2> QED
      BY <2>1, <2>2, Zenon
  <1>2. this = all % m
    BY Zenon DEF ContextBufferExact
  <1>3. \A r \in (all - V)..(all + 2 * V - 1) : rows[r % m] = RowOf(r)
    BY Zenon DEF InRound
  <1>4. WithContext(rows, this) = [y \in -1..V |-> rows[(this + y) % m]]
    BY Zenon DEF WithContext, create_context_buffer
  <1>5. GroupOf(GroupsDone) = [y \in -1..V |-> RowOf(all + y)]
    BY Zenon DEF GroupOf
  <1> HIDE DEF all, m, V, this
  <1>6. ASSUME NEW y \in -1..V
        PROVE  rows[(this + y) % m] = RowOf(all + y)
    <2>1. y \in Int /\ all + y \in (all - V)..(all + 2 * V - 1)
      BY <1>1
    <2>2. (this + y) % m = (all + y) % m
      <3>1. ((all % m) + y) % m = (all + y) % m
        <4>1. all \in Int
          BY <1>1
        <4> QED
          BY <1>1, <2>1, <4>1, RoundFrom
      <3> QED
        BY <1>2, <3>1
    <2> QED
      BY <1>3, <2>1, <2>2, Zenon
  <1> QED
    BY <1>4, <1>5, <1>6 DEF this

\* A turn of the loop with context keeps what the buffers hold.
LEMMA PreProcessContextRows ==
    ASSUME Compressing, FactorsOK, ContextBufferExact,
           FilledTo(buffer, cmain.rowgroup_ctr), pre_process_context
    PROVE  ContextBufferExact' /\ FilledTo(buffer, cmain.rowgroup_ctr)'
  <1> DEFINE V == setup.maxv
             m == 3 * V
             g == GroupsDone
             all == g * V
             old == cmain.rowgroup_ctr
             next == ContextNext
             n == NewRows
             W == Written
             stop == prep.next_buf_stop
             full == next = stop
             counted == [prep EXCEPT !.rows_to_go = IF FreshTurn THEN @ - FreshRows ELSE @,
                                     !.next_buf_row = next]
             ctr == IF full THEN old + 1 ELSE old
             b == IF full THEN sep_downsample(WithContext(ContextRows, prep.this_row_group), old)
                          ELSE buffer
             row == IF full /\ next >= m THEN 0 ELSE next
             left == IF FreshTurn THEN prep.rows_to_go - FreshRows ELSE prep.rows_to_go
             end == IF full THEN row + V ELSE stop
             this == IF full THEN IF prep.this_row_group + V >= m
                                  THEN 0 ELSE prep.this_row_group + V
                             ELSE prep.this_row_group
  <1>1. /\ app.at = "fill" /\ setup.context /\ old < DCTSIZE
        /\ FreshTurn \/ prep.rows_to_go = 0
        /\ setup' = setup
    BY Zenon DEF pre_process_context, FreshTurn
  <1>2. color_buf' = ContextRows
    BY Zenon DEF pre_process_context, ContextRows, FreshBuf, FreshRows, FreshTurn
  <1>3. buffer' = b /\ cmain' = IF full THEN [cmain EXCEPT !.rowgroup_ctr = @ + 1] ELSE cmain
    BY Zenon DEF pre_process_context, ContextRows, FreshBuf, FreshRows, FreshTurn, ContextNext
  <1>4. prep' = IF full THEN Advanced(counted, next) ELSE counted
    BY Zenon DEF pre_process_context, FreshRows, FreshTurn, ContextNext
  <1>5. /\ V \in Nat \ {0} /\ prep.next_buf_row \in Nat /\ stop \in Nat
        /\ setup.height \in Nat \ {0} /\ prep.rows_to_go \in Nat
        /\ prep.this_row_group \in Nat
        /\ old \in 0..(DCTSIZE - 1) /\ DCTSIZE \in Nat \ {0} /\ cmain.cur_iMCU_row \in Nat
    BY <1>1, Counted
  <1>6. /\ g \in Nat /\ all \in Nat
        /\ (g + 2) * V = all + 2 * V
        /\ W \in Nat /\ W >= all
        /\ W + (stop - prep.next_buf_row) = all + 2 * V
        /\ n \in Nat /\ next = prep.next_buf_row + n
        /\ next \in Nat /\ next <= stop
    BY <1>1, ContextCounts, Zenon
  <1>7. /\ FreshTurn => /\ prep.rows_to_go > 0 /\ n = FreshRows
                        /\ FreshRows \in Nat \ {0} /\ FreshRows <= prep.rows_to_go
                        /\ setup.height - prep.rows_to_go = W
        /\ ~FreshTurn => full /\ prep.rows_to_go = 0 /\ W >= setup.height
    BY <1>1, ContextCounts, Zenon
  <1>8. /\ prep.next_buf_row < stop /\ stop <= prep.next_buf_row + 2 * V
        /\ stop <= m /\ prep.next_buf_row = W % m
        /\ prep.this_row_group = all % m
    BY Zenon DEF ContextBufferExact
  <1>9. /\ DOMAIN ContextRows = Span(m)
        /\ InRound(ContextRows, V, all - V, W + n - 1)
    BY <1>1, ContextConverts, Zenon
  <1>10. /\ prep'.rows_to_go = left /\ prep'.next_buf_row = row
         /\ prep'.next_buf_stop = end /\ prep'.this_row_group = this
    <2>1. prep \in [rows_to_go : Nat, next_buf_row : Nat, this_row_group : Nat,
                    next_buf_stop : Nat]
      BY DEF Compressing, CountersOK
    <2>2. prep' = IF full THEN [counted EXCEPT
                                  !.this_row_group = IF @ + V >= 3 * V THEN 0 ELSE @ + V,
                                  !.next_buf_row = IF next >= 3 * V THEN 0 ELSE next,
                                  !.next_buf_stop = (IF next >= 3 * V THEN 0 ELSE next) + V]
                  ELSE counted
      BY <1>4, Zenon DEF Advanced
    <2> HIDE DEF next, V
    <2>3. /\ counted.rows_to_go = left /\ counted.next_buf_row = next
          /\ counted.next_buf_stop = stop
          /\ counted.this_row_group = prep.this_row_group
          /\ counted = [rows_to_go |-> left, next_buf_row |-> next,
                        this_row_group |-> prep.this_row_group, next_buf_stop |-> stop]
      <3>1. counted = [prep EXCEPT !.rows_to_go = left, !.next_buf_row = next]
        <4>1. CASE FreshTurn
          BY <4>1, Zenon
        <4>2. CASE ~FreshTurn
          BY <4>2, Zenon
        <4> QED
          BY <4>1, <4>2
      <3> HIDE DEF counted, left
      <3> QED
        BY ONLY <2>1, <3>1 DEF stop
    <2> HIDE DEF counted, stop, left
    <2> QED
      BY <2>2, <2>3
  <1>11. /\ cmain'.cur_iMCU_row = cmain.cur_iMCU_row /\ cmain'.rowgroup_ctr = ctr
    <2>1. cmain \in [cur_iMCU_row : Nat, rowgroup_ctr : 0..DCTSIZE, suspended : BOOLEAN]
      BY DEF Compressing, CountersOK
    <2> HIDE DEF full
    <2> QED
      BY <1>3, <2>1
  \* Places in the buffer.
  <1>12. W + n \in Nat /\ (W + n) % m = row /\ (full => W + n = all + 2 * V)
    <2>1. m \in Nat \ {0} /\ W \in Int /\ n \in Nat /\ (W % m) + n = next /\ next <= m
      <3> DEFINE r == W % m
      <3>1. r = prep.next_buf_row
        BY <1>8
      <3> HIDE DEF r, W, n, next
      <3> QED
        BY <1>5, <1>6, <1>8, <3>1 DEF r
    <2>2. (W + n) % m = IF (W % m) + n = m THEN 0 ELSE (W % m) + n
      <3> HIDE DEF m, W, n, next
      <3> QED
        BY <2>1, RoundNext, Zenon
    <2>3. full => W + n = all + 2 * V
      <3> HIDE DEF W, n, all, next, V
      <3> QED
        BY <1>5, <1>6
    <2>4. (IF next = m THEN 0 ELSE next) = row
      <3>1. ~full => next # m
        <4> HIDE DEF next, stop, m
        <4> QED
          BY <1>5, <1>6, <1>8, <2>1
      <3> HIDE DEF m, next
      <3> QED
        BY <1>6, <2>1, <3>1
    <2> HIDE DEF m, next, row
    <2> QED
      BY <1>6, <2>1, <2>2, <2>3, <2>4
  <1>13. g' = IF full THEN g + 1 ELSE g
    <2>1. g' = cmain'.cur_iMCU_row * DCTSIZE + cmain'.rowgroup_ctr
      BY Zenon DEF GroupsDone
    <2>2. g = cmain.cur_iMCU_row * DCTSIZE + old
      BY Zenon DEF GroupsDone
    <2>3. \A a \in Nat, c \in Nat : a * DCTSIZE + (c + 1) = (a * DCTSIZE + c) + 1
      BY <1>5, SMTT(30)
    <2> HIDE DEF g, full
    <2> QED
      BY <1>5, <1>11, <2>1, <2>2, <2>3
  <1>14. /\ g' * V = IF full THEN all + V ELSE all
         /\ (g' + 2) * V = IF full THEN all + 3 * V ELSE all + 2 * V
         /\ (g' - 1) * V = IF full THEN all ELSE all - V
    <2>1. \A a \in Nat, c \in Nat :
             /\ (a + 1) * c = a * c + c /\ (a + 1 + 2) * c = a * c + 3 * c
             /\ (a + 2) * c = a * c + 2 * c /\ (a - 1) * c = a * c - c
             /\ (a + 1 - 1) * c = a * c
      BY ONLY SMTT(30)
    <2> HIDE DEF g, V, full
    <2> QED
      BY <1>5, <1>6, <1>13, <2>1
  <1>15. Written' = W + n
    <2>1. Written' = (g' + 2) * V - (prep'.next_buf_stop - prep'.next_buf_row)
      BY <1>1, Zenon DEF Written
    <2>2. CASE full
      <3>1. Written' = (all + 3 * V) - ((row + V) - row)
        BY <1>10, <1>14, <2>1, <2>2
      <3>2. row \in Nat
        BY <1>6
      <3> HIDE DEF row, all, V, n, W
      <3> QED
        BY <1>5, <1>6, <1>12, <2>2, <3>1, <3>2
    <2>3. CASE ~full
      <3>1. Written' = (all + 2 * V) - (stop - next)
        BY <1>10, <1>14, <2>1, <2>3
      <3> HIDE DEF all, V, n, W, next, stop
      <3> QED
        BY <1>5, <1>6, <3>1
    <2> QED
      BY <2>2, <2>3
  <1>16. /\ row < end /\ end <= row + 2 * V /\ end <= m
         /\ this = (g' * V) % m
    <2>1. CASE full
      <3>1. end = row + V /\ row \in Nat
        BY <1>6, <2>1
      <3>2. row + V <= m
        <4>1. row = ((g + 2) * V) % m
          BY <1>6, <1>12, <2>1
        <4>2. g + 2 \in Nat
          BY <1>6
        <4>3. (((g + 2) * V) % (3 * V)) + V <= 3 * V
          <5> HIDE DEF g, V
          <5> QED
            BY <1>5, <4>2, RoundGroups, Zenon
        <4> QED
          BY <4>1, <4>3
      <3>3. this = (g' * V) % m
        <4>1. ((g + 1) * V) % (3 * V) = IF ((g * V) % (3 * V)) + V >= 3 * V
                                        THEN 0 ELSE ((g * V) % (3 * V)) + V
          <5> HIDE DEF g, V
          <5> QED
            BY <1>5, <1>6, RoundGroups, Zenon
        <4>2. g' = g + 1
          BY <1>13, <2>1
        <4>3. this = IF (all % m) + V >= m THEN 0 ELSE (all % m) + V
          BY <1>8, <2>1
        <4> QED
          BY <4>1, <4>2, <4>3, Zenon
      <3> HIDE DEF row, end, this, m
      <3> QED
        BY <1>5, <3>1, <3>2, <3>3
    <2>2. CASE ~full
      <3>1. row = next /\ end = stop /\ this = prep.this_row_group /\ g' = g
        BY <1>13, <2>2
      <3>2. next < stop /\ stop <= next + 2 * V
        <4> HIDE DEF next, stop, V, n
        <4> QED
          BY <1>5, <1>6, <1>8, <2>2
      <3> QED
        BY <1>8, <3>1, <3>2
    <2> QED
      BY <2>1, <2>2
  <1>17. left = 0 => W + n >= setup.height
    <2>1. CASE FreshTurn
      <3> HIDE DEF W, n
      <3> QED
        BY <1>5, <1>6, <1>7, <2>1
    <2>2. CASE ~FreshTurn
      <3> HIDE DEF W, n
      <3> QED
        BY <1>5, <1>6, <1>7, <2>2
    <2> QED
      BY <2>1, <2>2
  <1>18. ContextBufferExact'
    <2>1. \A r \in (g' - 1) * V .. W + n - 1 : color_buf'[r % m] = RowOf(r)
      <3>1. (g' - 1) * V \in Int /\ (g' - 1) * V >= all - V /\ all - V \in Int
        <4> HIDE DEF all, V, full, g
        <4> QED
          BY <1>5, <1>6, <1>14
      <3>2. \A r \in (all - V)..(W + n - 1) : ContextRows[r % m] = RowOf(r)
        BY <1>9, Zenon DEF InRound
      <3> HIDE DEF all, V, g, m, W, n
      <3> QED
        BY <1>2, <1>12, <3>1, <3>2
    <2>2. \A r : RowOf(r)' = RowOf(r)
      BY <1>1, PlanesKept, Zenon
    <2>3. DOMAIN color_buf' = Span(m)
      BY <1>2, <1>9
    <2>4. /\ prep'.next_buf_row < prep'.next_buf_stop
          /\ prep'.next_buf_stop <= prep'.next_buf_row + 2 * V
          /\ prep'.next_buf_stop <= m
          /\ prep'.next_buf_row = Written' % m
          /\ prep'.this_row_group = (g' * V) % m
          /\ prep'.rows_to_go = 0 => Written' >= setup.height
      <3> HIDE DEF row, end, this, left, W, n, m, V, g
      <3> QED
        BY <1>10, <1>12, <1>15, <1>16, <1>17, Zenon
    <2>5. \A r \in (g' - 1) * V .. Written' - 1 : color_buf'[r % m] = RowOf(r)'
      <3>1. Written' - 1 = W + n - 1
        <4> HIDE DEF W, n
        <4> QED
          BY <1>6, <1>15
      <3> HIDE DEF W, n, V, m, g
      <3> QED
        BY <2>1, <2>2, <3>1
    <2> QED
      BY <1>1, <2>3, <2>4, <2>5, Zenon DEF ContextBufferExact
  <1>19. FilledTo(b, ctr)
    <2>1. CASE full
      <3>1. WithContext(ContextRows, prep.this_row_group) = GroupOf(GroupsDone)
        <4>1. InRound(ContextRows, setup.maxv, GroupsDone * setup.maxv - setup.maxv,
                      GroupsDone * setup.maxv + 2 * setup.maxv - 1)
          <5>1. W + n - 1 = all + 2 * V - 1
            <6>1. W + n = all + 2 * V
              BY <1>12, <2>1
            <6> HIDE DEF W, n, all, V
            <6> QED
              BY <1>5, <1>6, <6>1
          <5> QED
            BY <1>9, <5>1
        <4> QED
          BY <1>1, <4>1, ContextGroup, Zenon
      <3>2. SetupOK
        BY DEF Compressing
      <3>3. FilledTo(sep_downsample(GroupOf(GroupsDone), old), old + 1)
        BY <1>1, <1>5, <3>2, Downsampled
      <3> QED
        BY <2>1, <3>1, <3>3, Zenon
    <2>2. CASE ~full
      BY <2>2, Zenon
    <2> QED
      BY <2>1, <2>2
  <1>20. FilledTo(buffer, cmain.rowgroup_ctr)'
    <2> HIDE DEF b, ctr
    <2> QED
      BY <1>1, <1>3, <1>11, <1>19, FilledNext, Zenon
  <1> QED
    BY <1>18, <1>20, Zenon

-----------------------------------------------------------------------------
(* The first state, and the other steps. *)

LEMMA InitRows == Init => RowsKept
  <1> SUFFICES ASSUME Init
               PROVE  RowsKept
    OBVIOUS
  <1>1. Compressing
    BY InitCompressing
  <1>2. setup.height \in Nat \ {0} /\ setup.maxv \in Nat \ {0} /\ DCTSIZE \in Nat \ {0}
    BY <1>1, Counted
  <1>3. FactorsOK
    BY FactorsAre, Zenon DEF Init
  <1>4. /\ app.at = "idle"
        /\ cmain.cur_iMCU_row = 0 /\ cmain.rowgroup_ctr = 0
        /\ prep.rows_to_go = setup.height /\ prep.next_buf_row = 0
        /\ prep.this_row_group = 0 /\ prep.next_buf_stop = 2 * setup.maxv
    BY DEF Init, Idle, start_pass_main, start_pass_prep
  <1>5. TakenExact
    <2>1. coef = <<>>
      BY Zenon DEF Init
    <2>2. [n \in 1..0 |-> [k \in Components |-> PlaneIMCU(k, n - 1)]] = <<>>
      OBVIOUS
    <2> QED
      BY <1>4, <2>1, <2>2, Zenon DEF TakenExact
  <1>6. FilledTo(buffer, cmain.rowgroup_ctr)
    <2>1. buffer = [k \in Components |->
                      [y \in Span(setup.comps[k].vg * DCTSIZE) |-> Blank]]
      BY Zenon DEF Init, NoRow, BlankRows, Components
    <2>2. buffer = [k \in Components |->
                      [y \in Span(setup.comps[k].vg * DCTSIZE) |-> buffer[k][y]]]
      BY ONLY <2>1
    <2>3. ASSUME NEW k \in Components, NEW y \in Span(setup.comps[k].vg * 0)
          PROVE  FALSE
      <3>1. setup.comps[k].vg * 0 = 0
        BY <1>3, <2>3 DEF FactorsOK
      <3> QED
        BY <2>3, <3>1 DEF Span
    <2> QED
      BY <1>4, <2>2, <2>3, Zenon DEF FilledTo
  <1>7. GroupsDone = 0
    BY <1>2, <1>4 DEF GroupsDone
  <1>8. ~setup.context => GroupBufferExact
    <2>1. SUFFICES ASSUME ~setup.context
                   PROVE  GroupBufferExact
      OBVIOUS
    <2>2. color_buf = [i \in Span(setup.maxv) |-> Blank]
      BY <2>1, Zenon DEF Init, BlankRows
    <2>3. DOMAIN color_buf = Span(setup.maxv)
      BY ONLY <2>2
    <2>4. \A i \in Span(prep.next_buf_row) : FALSE
      BY <1>4 DEF Span
    <2> QED
      BY <2>3, <2>4, Zenon DEF GroupBufferExact
  <1>9. setup.context => ContextBufferExact
    <2>1. SUFFICES ASSUME setup.context
                   PROVE  ContextBufferExact
      OBVIOUS
    <2>2. color_buf = [i \in Span(3 * setup.maxv) |-> Blank]
      BY <2>1, Zenon DEF Init, BlankRows
    <2>3. DOMAIN color_buf = Span(3 * setup.maxv)
      BY ONLY <2>2
    <2>4. Written = 0
      BY <1>2, <1>4, <1>7 DEF Written
    <2>5. 0 % (3 * setup.maxv) = 0 /\ GroupsDone * setup.maxv = 0
      BY <1>2, <1>7
    <2>6. ~(prep.rows_to_go = 0) /\ ~(prep.rows_to_go < setup.height)
      BY <1>2, <1>4
    <2>7. /\ prep.next_buf_row < prep.next_buf_stop
          /\ prep.next_buf_stop <= prep.next_buf_row + 2 * setup.maxv
          /\ prep.next_buf_stop <= 3 * setup.maxv
      BY <1>2, <1>4
    <2> QED
      BY <1>4, <2>3, <2>4, <2>5, <2>6, <2>7, Zenon DEF ContextBufferExact
  <1> QED
    BY <1>3, <1>4, <1>5, <1>6, <1>8, <1>9, Zenon DEF RowsKept

\* The buffers mean the same while the row groups counted are the same.
LEMMA BuffersKept ==
    ASSUME UNCHANGED <<setup, prep, color_buf>>, GroupsDone' = GroupsDone
    PROVE  /\ GroupBufferExact => GroupBufferExact'
           /\ ContextBufferExact => ContextBufferExact'
  <1>1. \A r : RowOf(r)' = RowOf(r)
    BY PlanesKept, Zenon
  <1>2. Written' = Written
    BY DEF Written
  <1>3. GroupBufferExact => GroupBufferExact'
    <2>1. SUFFICES ASSUME GroupBufferExact
                   PROVE  GroupBufferExact'
      OBVIOUS
    <2>2. ASSUME NEW i \in Span(prep.next_buf_row)
          PROVE  RowOf(GroupsDone * setup.maxv + i)' = RowOf(GroupsDone * setup.maxv + i)
      BY DEF RowOf, Converted, Scanline
    <2> QED
      BY <2>1, <2>2, Zenon DEF GroupBufferExact
  <1>4. ContextBufferExact => ContextBufferExact'
    BY <1>1, <1>2, Zenon DEF ContextBufferExact
  <1> QED
    BY <1>3, <1>4

\* Steps that neither fill nor take the buffer.
LEMMA CallsKeepRows ==
    ASSUME RowsKept, UNCHANGED <<setup, phase, prep, color_buf, buffer, coef>>,
           cmain'.cur_iMCU_row = cmain.cur_iMCU_row,
           cmain'.rowgroup_ctr = cmain.rowgroup_ctr,
           phase = "compress" \/ app'.at = "idle"
    PROVE  RowsKept'
  <1>1. GroupsDone' = GroupsDone
    BY Zenon DEF GroupsDone
  <1>2. TakenExact'
    BY TakenKept, Zenon DEF RowsKept
  <1>3. FactorsOK'
    BY PlanesKept, Zenon DEF RowsKept
  <1>4. phase = "compress" => FilledTo(buffer, cmain.rowgroup_ctr)'
    BY FilledNext, Zenon DEF RowsKept
  <1>5. phase = "compress" => /\ ~setup.context => GroupBufferExact'
                              /\ setup.context => ContextBufferExact'
    BY <1>1, BuffersKept, Zenon DEF RowsKept
  <1> QED
    BY <1>2, <1>3, <1>4, <1>5, Zenon DEF RowsKept

\* The iMCU row that is taken is that of the image.
LEMMA CompressDataRows ==
    ASSUME Compressing, RowsKept, compress_data
    PROVE  RowsKept'
  <1> DEFINE cur == cmain.cur_iMCU_row
             Row(n) == [k \in Components |-> PlaneIMCU(k, n - 1)]
  <1>1. /\ app.at = "send" /\ coef' = Append(coef, buffer)
        /\ cmain' = [cur_iMCU_row |-> cur + 1, rowgroup_ctr |-> 0, suspended |-> FALSE]
        /\ UNCHANGED <<setup, phase, prep, color_buf, buffer>>
    BY Zenon DEF compress_data
  <1>2. phase = "compress"
    BY <1>1 DEF RowsKept
  <1>3. cmain.rowgroup_ctr = DCTSIZE /\ DCTSIZE \in Nat \ {0} /\ cur \in Nat
    BY <1>1, Counted DEF Compressing, CallAgrees
  <1>4. cmain'.cur_iMCU_row = cur + 1 /\ cmain'.rowgroup_ctr = 0
    BY <1>1
  <1>5. GroupsDone' = GroupsDone
    <2>1. cmain'.cur_iMCU_row * DCTSIZE + cmain'.rowgroup_ctr
            = cmain.cur_iMCU_row * DCTSIZE + cmain.rowgroup_ctr
      <3>1. \A a \in Nat, c \in Nat : (a + 1) * c + 0 = a * c + c
        BY ONLY SMTT(30)
      <3> QED
        BY <1>3, <1>4, <3>1
    <2> QED
      BY <2>1, Zenon DEF GroupsDone
  <1>6. FilledTo(buffer, cmain.rowgroup_ctr) /\ TakenExact /\ FactorsOK
    BY <1>2, Zenon DEF RowsKept
  <1>7. buffer = Row(cur + 1)
    <2>1. buffer = [k \in Components |->
                      [y \in Span(setup.comps[k].vg * DCTSIZE) |-> buffer[k][y]]]
      BY <1>6, Zenon DEF FilledTo
    <2>2. \A k \in Components : \A y \in Span(setup.comps[k].vg * DCTSIZE) :
             buffer[k][y] = PlaneIMCU(k, cur)[y]
      BY <1>3, <1>6, Zenon DEF FilledTo
    <2>3. ASSUME NEW k \in Components
          PROVE  [y \in Span(setup.comps[k].vg * DCTSIZE) |-> buffer[k][y]]
                    = PlaneIMCU(k, cur)
      <3>1. PlaneIMCU(k, cur) = [y \in Span(setup.comps[k].vg * DCTSIZE) |->
                                    PlaneIMCU(k, cur)[y]]
        BY DEF PlaneIMCU
      <3> HIDE DEF cur
      <3> QED
        BY ONLY <2>2, <2>3, <3>1
    <2>4. (cur + 1) - 1 = cur
      BY <1>3
    <2> HIDE DEF cur
    <2>5. buffer = [k \in Components |-> PlaneIMCU(k, cur)]
      BY ONLY <2>1, <2>3
    <2> QED
      BY <2>4, <2>5
  <1>8. Row(1)' = Row(1) /\ \A n : Row(n)' = Row(n)
    BY <1>1, PlanesKept
  <1>9. TakenExact'
    <2>1. coef = [n \in 1..cur |-> Row(n)]
      BY <1>6, Zenon DEF TakenExact
    <2>2. Append(coef, buffer) = [n \in 1..(cur + 1) |-> Row(n)]
      <3> DEFINE S == {Row(n) : n \in 1..(cur + 1)}
      <3>1. coef \in Seq(S) /\ Len(coef) = cur
        <4> HIDE DEF Row, cur
        <4>1. \A n \in 1..cur : Row(n) \in S
          BY <1>3
        <4> HIDE DEF S
        <4> QED
          BY <1>3, <2>1, <4>1
      <3>2. buffer \in S
        <4>1. cur + 1 \in 1..(cur + 1)
          BY <1>3
        <4> QED
          BY <1>7, <4>1
      <3>3. \A n \in 1..cur : coef[n] = Row(n)
        BY ONLY <2>1
      <3> HIDE DEF S, Row, cur
      <3>4. /\ Append(coef, buffer) \in Seq(S) /\ Len(Append(coef, buffer)) = cur + 1
            /\ \A n \in 1..(cur + 1) : Append(coef, buffer)[n]
                                         = IF n = cur + 1 THEN buffer ELSE coef[n]
        BY <3>1, <3>2
      <3>5. \A n \in 1..(cur + 1) : Append(coef, buffer)[n] = Row(n)
        BY <1>3, <1>7, <3>3, <3>4
      <3>6. Append(coef, buffer) = [n \in 1..(cur + 1) |-> Append(coef, buffer)[n]]
        <4>1. ASSUME NEW T, NEW s \in Seq(T)
              PROVE  s = [n \in 1..Len(s) |-> s[n]]
          OBVIOUS
        <4> QED
          BY <3>4, <4>1, Zenon
      <3> QED
        BY ONLY <3>5, <3>6
    <2> HIDE DEF cur
    <2>3. coef' = [n \in 1..cmain'.cur_iMCU_row |-> Row(n)]
      BY <1>1, <1>4, <2>2
    <2> QED
      BY <1>8, <2>3, Zenon DEF TakenExact
  <1>10. FilledTo(buffer, cmain.rowgroup_ctr)'
    <2>1. FactorsOK' /\ Components' = Components
      BY <1>1, <1>6, PlanesKept, Zenon
    <2>2. buffer' = [k \in Components' |->
                      [y \in Span(setup'.comps[k].vg * DCTSIZE) |-> buffer'[k][y]]]
      BY <1>1, <1>6, <2>1, Zenon DEF FilledTo
    <2>3. ASSUME NEW k \in Components', NEW y \in Span(setup'.comps[k].vg * cmain'.rowgroup_ctr)
          PROVE  FALSE
      <3>1. setup.comps[k].vg * 0 = 0
        BY <1>6, <2>1, <2>3 DEF FactorsOK
      <3> QED
        BY <1>1, <1>4, <2>3, <3>1 DEF Span
    <2> QED
      BY <2>2, <2>3, Zenon DEF FilledTo
  <1>11. /\ ~setup.context => GroupBufferExact'
         /\ setup.context => ContextBufferExact'
    BY <1>1, <1>2, <1>5, BuffersKept, Zenon DEF RowsKept
  <1> QED
    BY <1>1, <1>2, <1>6, <1>9, <1>10, <1>11, PlanesKept, Zenon DEF RowsKept

-----------------------------------------------------------------------------
(* The rows at every moment. *)

\* A turn of the loop without context.
LEMMA PreProcessDataKeepsRows ==
    ASSUME Compressing, RowsKept, pre_process_data
    PROVE  RowsKept'
  <1>1. /\ app.at = "fill" /\ ~setup.context /\ UNCHANGED <<setup, phase, coef>>
        /\ cmain'.cur_iMCU_row = cmain.cur_iMCU_row
    BY DEF pre_process_data, Compressing, CountersOK
  <1>2. phase = "compress"
    BY <1>1 DEF RowsKept
  <1>3. GroupBufferExact' /\ FilledTo(buffer, cmain.rowgroup_ctr)'
    BY <1>1, <1>2, PreProcessDataRows, Zenon DEF RowsKept
  <1> QED
    BY <1>1, <1>2, <1>3, TakenKept, PlanesKept, Zenon DEF RowsKept

\* And with it.
LEMMA PreProcessContextKeepsRows ==
    ASSUME Compressing, RowsKept, pre_process_context
    PROVE  RowsKept'
  <1>1. /\ app.at = "fill" /\ setup.context /\ UNCHANGED <<setup, phase, coef>>
    BY Zenon DEF pre_process_context
  <1>2. cmain'.cur_iMCU_row = cmain.cur_iMCU_row
    <2>1. cmain' = cmain \/ cmain' = [cmain EXCEPT !.rowgroup_ctr = @ + 1]
      BY PreProcessContextCases, Zenon
    <2> QED
      BY <2>1 DEF Compressing, CountersOK
  <1>3. phase = "compress"
    BY <1>1 DEF RowsKept
  <1>4. ContextBufferExact' /\ FilledTo(buffer, cmain.rowgroup_ctr)'
    BY <1>1, <1>3, PreProcessContextRows, Zenon DEF RowsKept
  <1> QED
    BY <1>1, <1>2, <1>3, <1>4, TakenKept, PlanesKept, Zenon DEF RowsKept

\* The steps of a decompression, and those that do nothing.
LEMMA OthersKeepRows ==
    ASSUME RowsKept, UNCHANGED <<setup, app, cmain, coef>>,
           phase' # "compress" \/ UNCHANGED <<phase, prep, color_buf, buffer>>,
           phase' # "compress" => app.at = "idle"
    PROVE  RowsKept'
  <1>1. TakenExact' /\ FactorsOK'
    BY TakenKept, PlanesKept, Zenon DEF RowsKept
  <1>2. CASE phase' # "compress"
    BY <1>1, <1>2, Zenon DEF RowsKept
  <1>3. CASE UNCHANGED <<phase, prep, color_buf, buffer>>
    <2>1. phase = "compress" \/ app'.at = "idle"
      BY DEF RowsKept
    <2> QED
      BY <1>3, <2>1, CallsKeepRows, Zenon
  <1> QED
    BY <1>2, <1>3

LEMMA NextKeepsRows == Compressing /\ RowsKept /\ [Next]_vars => RowsKept'
  <1> SUFFICES ASSUME Compressing, RowsKept, [Next]_vars
               PROVE  RowsKept'
    OBVIOUS
  <1>1. CASE \E n \in Lines : jpeg_write_scanlines(n)
    BY <1>1, CallsKeepRows, Zenon DEF jpeg_write_scanlines
  <1>2. CASE pre_process_data
    BY <1>2, PreProcessDataKeepsRows, Zenon
  <1>3. CASE pre_process_context
    BY <1>3, PreProcessContextKeepsRows, Zenon
  <1>4. CASE PreProcessed
    <2>1. phase = "compress"
      BY <1>4 DEF PreProcessed, RowsKept
    <2> QED
      BY <1>4, <2>1, CallsKeepRows, Zenon DEF PreProcessed
  <1>5. CASE compress_data
    BY <1>5, CompressDataRows, Zenon
  <1>6. CASE compress_data_suspends
    <2>1. phase = "compress"
      BY <1>6 DEF compress_data_suspends, RowsKept
    <2>2. /\ cmain'.cur_iMCU_row = cmain.cur_iMCU_row
          /\ cmain'.rowgroup_ctr = cmain.rowgroup_ctr
      BY <1>6 DEF compress_data_suspends, Compressing, CountersOK
    <2> QED
      BY <1>6, <2>1, <2>2, CallsKeepRows, Zenon DEF compress_data_suspends
  <1>7. CASE jpeg_start_decompress
    <2>1. phase' # "compress" /\ app.at = "idle"
      BY <1>7 DEF jpeg_start_decompress
    <2> QED
      BY <1>7, <2>1, OthersKeepRows, Zenon DEF jpeg_start_decompress
  <1>8. CASE post_process_prepass
    <2>1. phase' = phase /\ phase # "compress" /\ app.at = "idle"
      BY <1>8 DEF post_process_prepass, RowsKept
    <2> QED
      BY <1>8, <2>1, OthersKeepRows, Zenon DEF post_process_prepass, cvars
  <1>9. CASE finish_output_pass
    <2>1. phase' # "compress" /\ app.at = "idle"
      BY <1>9 DEF finish_output_pass, RowsKept
    <2> QED
      BY <1>9, <2>1, OthersKeepRows, Zenon DEF finish_output_pass, cvars
  <1>10. CASE \E n \in Lines : jpeg_read_scanlines(n)
    <2>1. phase' = phase /\ phase # "compress" /\ app.at = "idle"
      BY <1>10 DEF jpeg_read_scanlines, RowsKept
    <2> QED
      BY <1>10, <2>1, OthersKeepRows, Zenon DEF jpeg_read_scanlines, cvars
  <1>11. CASE Finished \/ UNCHANGED vars
    <2>1. UNCHANGED vars
      BY <1>11, Zenon DEF Finished
    <2>2. phase' # "compress" => app.at = "idle"
      BY <2>1 DEF vars, RowsKept
    <2> QED
      BY <2>1, <2>2, OthersKeepRows, Zenon DEF vars, cvars
  <1> QED
    BY <1>1, <1>2, <1>3, <1>4, <1>5, <1>6, <1>7, <1>8, <1>9, <1>10, <1>11, Zenon DEF Next

(***************************************************************************)
(* What the buffers between the application and the coefficient controller *)
(* hold is always a function of the image: the row groups that are done    *)
(* are in the iMCU row under way (jcmainct.c:114-158), and the             *)
(* preprocessor's buffer has the rows of the group that is being filled    *)
(* (jcprepct.c:128-187) or, with context, all rows from the group before   *)
(* on, although its three row groups are used round and the first and last *)
(* rows are copied into it (jcprepct.c:196-261).                           *)
(***************************************************************************)
THEOREM BuffersHold == Spec => []RowsKept
  BY CountersAgree, InitRows, NextKeepsRows, PTL DEF Spec

(***************************************************************************)
(* The iMCU rows that the coefficient controller takes are those of the    *)
(* image, each downsampled from row groups of its rows, with the image     *)
(* continued by its first and last row, in order and each once: they do    *)
(* not depend on how many rows each jpeg_write_scanlines call brings       *)
(* (jcapistd.c:78-112), nor on the iMCU rows that are refused and offered  *)
(* again (jcmainct.c:133-158), for every size of image, sampling factors   *)
(* and method of downsampling.                                             *)
(***************************************************************************)
THEOREM PortionsDoNotMatter == Spec => []TakenExact
  <1>1. RowsKept => TakenExact
    BY Zenon DEF RowsKept
  <1> QED
    BY <1>1, BuffersHold, PTL

-----------------------------------------------------------------------------
(* Reading: the rows upsampled so far. *)

\* What the initialisation gives the upsamplers.
UpsamplerFits(comp) ==
    /\ comp.hg \in Nat \ {0} /\ comp.vg \in Nat \ {0}
    /\ comp.up \in {"noop", "fullsize", "h2v1", "h2v2", "int"}
    /\ comp.up = "fullsize" => setup.maxh = comp.hg /\ setup.maxv = comp.vg
    /\ comp.up = "h2v1" => setup.maxh = 2 * comp.hg /\ setup.maxv = comp.vg
    /\ comp.up = "h2v2" => setup.maxh = 2 * comp.hg /\ setup.maxv = 2 * comp.vg
    /\ comp.up = "int" => setup.maxh % comp.hg = 0 /\ setup.maxv % comp.vg = 0

MergedFits ==
    /\ Components = 1..3 /\ setup.dconv = "ycc_rgb"
    /\ setup.maxh = 2 /\ setup.maxv \in {1, 2}
    /\ setup.comps[1].hg = 2 /\ setup.comps[1].vg = setup.maxv
    /\ \A k \in 2..3 : setup.comps[k].hg = 1 /\ setup.comps[k].vg = 1

ReadSetup ==
    /\ setup.height \in Nat \ {0} /\ setup.width \in Nat \ {0}
    /\ setup.maxh \in Nat \ {0} /\ setup.maxv \in Nat \ {0}
    /\ setup.merged \in BOOLEAN
    /\ setup.quant \in {"none", "1pass", "2pass"}
    /\ Components = 1..Len(setup.comps) /\ Len(setup.comps) \in Nat \ {0}
    /\ \A k \in Components :
          /\ UpsamplerFits(setup.comps[k])
          /\ setup.comps[k].up = "noop"
                => k \notin component_needed(setup.dconv, Len(setup.comps))
    /\ setup.merged => MergedFits

\* The row groups that are used up, and the rows given of the one under way.
GroupsRead ==
    IF dmain.buffer_full THEN (dmain.row - 1) * DCTSIZE + dmain.rowgroup_ctr
                         ELSE dmain.row * DCTSIZE
RowsWithin ==
    IF setup.merged THEN IF setup.maxv = 2 /\ ups.spare_full THEN 1 ELSE 0
    ELSE IF ups.next_row_out < setup.maxv THEN ups.next_row_out ELSE 0
RowsRead == GroupsRead * setup.maxv + RowsWithin

\* The main controller has the iMCU row it says it has.
MainReads ==
    /\ dmain \in [buffer_full : BOOLEAN, rowgroup_ctr : 0..(DCTSIZE - 1), row : Nat,
                  buffer : {dmain.buffer}]
    /\ dmain.buffer_full => dmain.row >= 1 /\ dmain.buffer = decompress_data(dmain.row)
    /\ ~dmain.buffer_full => dmain.rowgroup_ctr = 0 /\ RowsWithin = 0

\* The rest of a row group is in color_buf, or in the spare row.
SepReads ==
    /\ ups \in [next_row_out : 0..setup.maxv, rows_to_go : Nat]
    /\ ups.rows_to_go = setup.height - RowsRead
    /\ ups.next_row_out < setup.maxv =>
          /\ dmain.buffer_full
          /\ conv = [k \in Components |-> upsample(dmain.buffer, k, dmain.rowgroup_ctr)]
MergedReads ==
    /\ ups \in [spare_full : BOOLEAN, rows_to_go : Nat]
    /\ ups.rows_to_go = setup.height - RowsRead
    /\ ups.spare_full =>
          conv = h2v2_merged_upsample(dmain.buffer, dmain.rowgroup_ctr, setup.width)[2]

Reading ==
    /\ MainReads
    /\ RowsRead <= setup.height
    /\ ~setup.merged => SepReads
    /\ setup.merged /\ setup.maxv = 2 => MergedReads

\* The full image of two-pass quantization has its first n rows.
PostAt == post.starting_row + post.next_row
WholeHas(n) ==
    /\ DOMAIN whole = Span(Ceiling(setup.height, setup.maxv) * setup.maxv)
    /\ \A r \in Span(n) : whole[r] = BoxFiltered(r)
PostOK == post \in [starting_row : Nat, next_row : Span(setup.maxv)]

\* What has become of the rows.
NotStarted ==
    /\ dmain = [buffer_full |-> FALSE, rowgroup_ctr |-> 0, row |-> 0, buffer |-> Blank]
    /\ out = <<>>
Prescanning ==
    /\ setup.quant = "2pass" /\ out = <<>>
    /\ PostOK /\ PostAt = RowsRead /\ WholeHas(RowsRead)
OnePass == out = [r \in 1..RowsRead |-> out[r]]
Unquantized == out = [r \in 1..RowsRead |-> BoxFiltered(r - 1)]
SecondPass ==
    /\ PostOK /\ Len(out) \in Nat /\ out = [r \in 1..Len(out) |-> out[r]] /\ PostAt = Len(out)
    /\ WholeHas(setup.height)
    /\ \A r \in 1..Smaller(Len(out), setup.height) :
          out[r] = pass2_no_dither(BoxFiltered(r - 1))
    /\ setup.maxv <= 2 => Len(out) <= setup.height
    /\ Len(out) < setup.height + setup.maxv

RowsReadExact ==
    /\ ReadSetup
    /\ phase \in {"compress", "prescan", "read"}
    /\ phase = "compress" => NotStarted
    /\ phase # "compress" => Reading
    /\ phase = "prescan" => Prescanning
    /\ phase = "read" /\ setup.quant = "none" => Unquantized
    /\ phase = "read" /\ setup.quant = "1pass" => OnePass
    /\ phase = "read" /\ setup.quant = "2pass" => SecondPass

-----------------------------------------------------------------------------
(* The setup of the upsamplers. *)

\* The largest factors of all components are factors of one of them.
LEMMA LargestFactors ==
    ASSUME NEW job \in Jobs, setup = initial_setup(job)
    PROVE  LET count == Len(job.comps)
           IN  /\ count \in Nat \ {0} /\ Components = 1..count /\ Len(setup.comps) = count
               /\ \A k \in 1..count : job.comps[k].h \in 1..4 /\ job.comps[k].v \in 1..4
               /\ setup.maxh \in Nat \ {0} /\ setup.maxv \in Nat \ {0}
               /\ setup.maxh \in {job.comps[k].h : k \in 1..count}
               /\ setup.maxv \in {job.comps[k].v : k \in 1..count}
               /\ \A k \in 1..count :
                     setup.maxh >= job.comps[k].h /\ setup.maxv >= job.comps[k].v
  <1> DEFINE count == Len(job.comps)
             F == [h : 1..4, v : 1..4]
             H == {job.comps[k].h : k \in 1..count}
             V == {job.comps[k].v : k \in 1..count}
  <1>1. job.comps \in Seq(F) /\ count \in Nat \ {0}
    <2>1. job.comps \in Seq(F) \ {<<>>}
      BY PixelsAssumption
    <2> HIDE DEF F
    <2> QED
      BY <2>1
  <1>2. Components = 1..count /\ Len(setup.comps) = count
    <2>1. setup.comps = [k \in 1..count |-> setup.comps[k]]
      BY Zenon DEF initial_setup
    <2>2. DOMAIN setup.comps = 1..count
      BY <2>1, Zenon
    <2>3. Len(setup.comps) = count
      BY <1>1, <2>1
    <2> QED
      BY <2>2, <2>3, Zenon DEF Components
  <1>3. \A k \in 1..count : job.comps[k] \in F
    <2> HIDE DEF F
    <2> QED
      BY <1>1
  <1>4. \A k \in 1..count : job.comps[k].h \in 1..4 /\ job.comps[k].v \in 1..4
    BY <1>3
  <1>5. H \in SUBSET (1..4) /\ H # {} /\ V \in SUBSET (1..4) /\ V # {}
    <2>1. 1 \in 1..count
      BY <1>1
    <2> QED
      BY <1>4, <2>1
  <1>6. setup.maxh = Max(H) /\ setup.maxv = Max(V)
    BY Zenon DEF initial_setup
  <1>7. Max(H) \in H /\ (\A y \in H : Max(H) >= y) /\ Max(H) \in Nat \ {0}
    <2> HIDE DEF H
    <2> QED
      BY <1>5, MaxOfFactors, Zenon
  <1>8. Max(V) \in V /\ (\A y \in V : Max(V) >= y) /\ Max(V) \in Nat \ {0}
    <2> HIDE DEF V
    <2> QED
      BY <1>5, MaxOfFactors, Zenon
  <1>9. \A k \in 1..count : job.comps[k].h \in H /\ job.comps[k].v \in V
    OBVIOUS
  <1>10. \A k \in 1..count : setup.maxh >= job.comps[k].h /\ setup.maxv >= job.comps[k].v
    <2> HIDE DEF H, V
    <2> QED
      BY <1>6, <1>7, <1>8, <1>9, Zenon
  <1>11. setup.maxh \in H /\ setup.maxv \in V
    <2> HIDE DEF H, V
    <2> QED
      BY <1>6, <1>7, <1>8, Zenon
  <1>12. setup.maxh \in Nat \ {0} /\ setup.maxv \in Nat \ {0}
    <2> HIDE DEF H, V
    <2> QED
      BY <1>6, <1>7, <1>8, Zenon
  <1> QED
    BY <1>1, <1>2, <1>4, <1>10, <1>11, <1>12, Zenon

\* The component with number k.
LEMMA ComponentIs ==
    ASSUME NEW job \in Jobs, setup = initial_setup(job), NEW k \in Components
    PROVE  LET c == job.comps[k]
               comp == setup.comps[k]
           IN  /\ comp.hg = c.h * ssize(setup.maxh, c.h, job.fancy)
               /\ comp.vg = c.v * ssize(setup.maxv, c.v, job.fancy)
               /\ comp.cols = Ceiling(setup.width * c.h, setup.maxh * DCTSIZE)
                                 * DCTSIZE * ssize(setup.maxh, c.h, job.fancy)
               /\ comp.hg \in Nat \ {0} /\ comp.vg \in Nat \ {0}
               /\ \E s : /\ s.hg = comp.hg /\ s.vg = comp.vg
                         /\ comp.up = jinit_upsampler(s, setup.maxh, setup.maxv,
                               k \in component_needed(setup.dconv, Len(setup.comps)))
                         /\ comp.down = jinit_downsampler(s, setup.maxh, setup.maxv,
                               job.smoothing)
  <1> DEFINE c == job.comps[k]
             maxh == Max({job.comps[i].h : i \in 1..Len(job.comps)})
             maxv == Max({job.comps[i].v : i \in 1..Len(job.comps)})
             s == [hg |-> c.h * ssize(maxh, c.h, job.fancy),
                   vg |-> c.v * ssize(maxv, c.v, job.fancy),
                   cols |-> Ceiling(job.width * c.h, maxh * DCTSIZE)
                          * DCTSIZE * ssize(maxh, c.h, job.fancy)]
             need == k \in component_needed(setup.dconv, Len(job.comps))
  <1>1. setup.maxh = maxh /\ setup.maxv = maxv /\ setup.width = job.width
    BY Zenon DEF initial_setup
  <1>2. k \in 1..Len(job.comps) /\ Len(setup.comps) = Len(job.comps)
    BY LargestFactors, Zenon
  <1>3. /\ setup.comps[k].hg = s.hg /\ setup.comps[k].vg = s.vg
        /\ setup.comps[k].cols = s.cols
        /\ setup.comps[k].up = jinit_upsampler(s, maxh, maxv, need)
        /\ setup.comps[k].down = jinit_downsampler(s, maxh, maxv, job.smoothing)
    BY <1>2 DEF initial_setup
  <1>4. s.hg = c.h * ssize(maxh, c.h, job.fancy) /\ s.vg = c.v * ssize(maxv, c.v, job.fancy)
        /\ s.cols = Ceiling(job.width * c.h, maxh * DCTSIZE)
                          * DCTSIZE * ssize(maxh, c.h, job.fancy)
    OBVIOUS
  <1>5. c.h \in 1..4 /\ c.v \in 1..4
    BY <1>2, LargestFactors, Zenon
  <1>6. ssize(maxh, c.h, job.fancy) \in {1, 2} /\ ssize(maxv, c.v, job.fancy) \in {1, 2}
    BY Zenon DEF ssize
  <1>7. s.hg \in Nat \ {0} /\ s.vg \in Nat \ {0}
    <2> HIDE DEF s, maxh, maxv
    <2> QED
      BY <1>4, <1>5, <1>6
  <1> HIDE DEF s, maxh, maxv
  <1> QED
    BY <1>1, <1>2, <1>3, <1>4, <1>7, Zenon

LEMMA UpsamplersFit ==
    ASSUME NEW job \in Jobs, setup = initial_setup(job), Supported(setup), NEW k \in Components
    PROVE  /\ UpsamplerFits(setup.comps[k])
           /\ setup.comps[k].up = "noop"
                 => k \notin component_needed(setup.dconv, Len(setup.comps))
  <1> DEFINE comp == setup.comps[k]
             need == k \in component_needed(setup.dconv, Len(setup.comps))
  <1>1. PICK s : /\ s.hg = comp.hg /\ s.vg = comp.vg
                 /\ comp.up = jinit_upsampler(s, setup.maxh, setup.maxv, need)
    BY ComponentIs, Zenon
  <1>2. comp.hg \in Nat \ {0} /\ comp.vg \in Nat \ {0}
    BY ComponentIs, Zenon
  <1>3. comp.up # "error"
    BY Zenon DEF Supported, Components
  <1> HIDE DEF comp, need
  <1>4. setup.maxh \in Nat \ {0} /\ setup.maxv \in Nat \ {0}
    BY LargestFactors, Zenon
  <1>5. CASE ~need
    <2>1. comp.up = "noop"
      BY <1>1, <1>5 DEF jinit_upsampler
    <2> QED
      BY <1>2, <1>5, <2>1 DEF UpsamplerFits, comp, need
  <1>6. CASE need
    <2>1. comp.up = CASE comp.hg = setup.maxh /\ comp.vg = setup.maxv -> "fullsize"
                      [] comp.hg * 2 = setup.maxh /\ comp.vg = setup.maxv -> "h2v1"
                      [] comp.hg * 2 = setup.maxh /\ comp.vg * 2 = setup.maxv -> "h2v2"
                      [] OTHER -> IF setup.maxh % comp.hg = 0 /\ setup.maxv % comp.vg = 0
                                  THEN "int" ELSE "error"
      <3>1. CASE comp.hg = setup.maxh /\ comp.vg = setup.maxv
        BY <1>1, <1>2, <1>4, <1>6, <3>1 DEF jinit_upsampler
      <3>2. CASE comp.hg * 2 = setup.maxh /\ comp.vg = setup.maxv
        BY <1>1, <1>2, <1>4, <1>6, <3>2 DEF jinit_upsampler
      <3>3. CASE comp.hg * 2 = setup.maxh /\ comp.vg * 2 = setup.maxv
        BY <1>1, <1>2, <1>4, <1>6, <3>3 DEF jinit_upsampler
      <3>4. CASE /\ ~(comp.hg = setup.maxh /\ comp.vg = setup.maxv)
                 /\ ~(comp.hg * 2 = setup.maxh /\ comp.vg = setup.maxv)
                 /\ ~(comp.hg * 2 = setup.maxh /\ comp.vg * 2 = setup.maxv)
        BY <1>1, <1>2, <1>4, <1>6, <3>4 DEF jinit_upsampler
      <3> QED
        BY <3>1, <3>2, <3>3, <3>4, Zenon
    <2>2. UpsamplerFits(comp)
      BY <1>2, <1>3, <1>4, <2>1 DEF UpsamplerFits
    <2>3. comp.up # "noop"
      BY <1>2, <1>3, <1>4, <2>1
    <2> QED
      BY <2>2, <2>3, Zenon DEF comp
  <1> QED
    BY <1>5, <1>6, Zenon

LEMMA SetupReads ==
    ASSUME NEW job \in Jobs, setup = initial_setup(job), Supported(setup)
    PROVE  ReadSetup
  <1>1. /\ setup.height = job.height /\ setup.width = job.width
        /\ setup.quant = master_selection(job)
        /\ setup.merged = use_merged_upsample(job)
        /\ setup.dconv = jinit_color_deconverter(job.jpeg, job.xf, job.out)
    BY Zenon DEF initial_setup
  <1>2. setup.height \in Nat \ {0} /\ setup.width \in Nat \ {0}
    BY <1>1, PixelsAssumption
  <1>3. setup.quant \in {"none", "1pass", "2pass"}
    BY <1>1, PixelsAssumption DEF master_selection
  <1>4. setup.merged \in BOOLEAN
    BY <1>1 DEF use_merged_upsample
  <1>5. /\ setup.maxh \in Nat \ {0} /\ setup.maxv \in Nat \ {0}
        /\ Components = 1..Len(setup.comps) /\ Len(setup.comps) \in Nat \ {0}
    BY LargestFactors, Zenon
  <1>6. ASSUME setup.merged
        PROVE  MergedFits
    <2>1. /\ ~job.fancy
          /\ job.jpeg = "YCbCr" /\ job.out = "RGB" /\ job.xf = "NONE"
          /\ Len(job.comps) = 3
          /\ job.comps[1].h = 2 /\ job.comps[1].v \in {1, 2}
          /\ \A k \in 2..3 : job.comps[k] = [h |-> 1, v |-> 1]
      BY <1>1, <1>6 DEF use_merged_upsample
    <2>2. Components = 1..3
      BY <2>1, LargestFactors, Zenon
    <2>3. setup.dconv = "ycc_rgb"
      BY <1>1, <2>1 DEF jinit_color_deconverter, RgbSpaces
    <2>4. job.comps[2].h = 1 /\ job.comps[2].v = 1 /\ job.comps[3].h = 1 /\ job.comps[3].v = 1
      BY <2>1
    <2>5. /\ setup.maxh \in {job.comps[k].h : k \in 1..3}
          /\ setup.maxv \in {job.comps[k].v : k \in 1..3}
          /\ \A k \in 1..3 : setup.maxh >= job.comps[k].h /\ setup.maxv >= job.comps[k].v
      BY <2>1, LargestFactors, Zenon
    <2>6. setup.maxh = 2 /\ setup.maxv = job.comps[1].v
      BY <2>1, <2>4, <2>5, <1>5
    <2>7. ASSUME NEW k \in 1..3
          PROVE  setup.comps[k].hg = job.comps[k].h /\ setup.comps[k].vg = job.comps[k].v
      <3>1. /\ setup.comps[k].hg = job.comps[k].h * ssize(setup.maxh, job.comps[k].h, job.fancy)
            /\ setup.comps[k].vg = job.comps[k].v * ssize(setup.maxv, job.comps[k].v, job.fancy)
        BY <2>2, ComponentIs, Zenon
      <3>2. /\ ssize(setup.maxh, job.comps[k].h, job.fancy) = 1
            /\ ssize(setup.maxv, job.comps[k].v, job.fancy) = 1
        BY <2>1, Zenon DEF ssize
      <3>3. job.comps[k].h \in 1..4 /\ job.comps[k].v \in 1..4
        BY <2>1, LargestFactors, Zenon
      <3> QED
        BY <3>1, <3>2, <3>3
    <2> QED
      BY <2>1, <2>2, <2>3, <2>4, <2>6, <2>7 DEF MergedFits
  <1>7. \A k \in Components :
          /\ UpsamplerFits(setup.comps[k])
          /\ setup.comps[k].up = "noop"
                => k \notin component_needed(setup.dconv, Len(setup.comps))
    BY UpsamplersFit, Zenon
  <1> QED
    BY <1>2, <1>3, <1>4, <1>5, <1>6, <1>7, Zenon DEF ReadSetup

-----------------------------------------------------------------------------
(* Places in the image and in a component. *)

\* Of e rows of the image for each of v, number y of group c of iMCU row R.
RowPlaced(v, e, D, R, c, y) ==
    /\ y \div e \in 0..(v - 1)
    /\ (((((R - 1) * D + c) * (v * e) + y) * v) \div (v * e)) \div (v * D) = R - 1
    /\ (((((R - 1) * D + c) * (v * e) + y) * v) \div (v * e)) % (v * D) = c * v + (y \div e)

LEMMA RowPlace ==
    ASSUME NEW v \in Nat \ {0}, NEW e \in Nat \ {0}, NEW D \in Nat \ {0},
           NEW R \in Nat \ {0}, NEW c \in 0..(D - 1), NEW y \in 0..(v * e - 1)
    PROVE  RowPlaced(v, e, D, R, c, y)
  <1> DEFINE q == y \div e
             s == y % e
             g == (R - 1) * D + c
             m == v * e
             w == v * D
  <1>0. v * e \in Nat \ {0} /\ v * D \in Nat \ {0} /\ s * v \in Int
    <2>1. \A a, b \in Nat \ {0} : a * b \in Nat \ {0}
      BY SMTT(30)
    <2>2. s \in Int
      BY Divided
    <2> QED
      BY <2>1, <2>2
  <1>1. q \in Nat /\ s \in 0..(e - 1) /\ y = q * e + s
    <2>1. y \in Int /\ y >= 0
      BY <1>0
    <2>2. q \in Int /\ s \in 0..(e - 1) /\ y = q * e + s /\ (y >= 0 => q >= 0)
      BY <2>1, Divided, Zenon
    <2> HIDE DEF q, s
    <2> QED
      BY <2>1, <2>2
  <1>2. q <= v - 1
    <2>1. q >= v => q * e >= v * e
      <3> HIDE DEF q
      <3> QED
        BY <1>1, SMTT(30)
    <2> HIDE DEF q, s
    <2>2. q * e \in Int
      BY <1>1
    <2> QED
      BY <1>0, <1>1, <2>1, <2>2
  <1>3. g \in Nat /\ g * v \in Nat
    <2>1. (R - 1) * D \in Nat
      BY SMTT(30)
    <2>2. g \in Nat
      BY <2>1
    <2> HIDE DEF g
    <2> QED
      BY <2>2, SMTT(30)
  <1>4. (g * m + y) * v = (g * v + q) * m + s * v
    <2>1. y * v = q * m + s * v
      <3> HIDE DEF q, s
      <3>1. y * v = (q * e + s) * v
        BY <1>1
      <3>2. (q * e + s) * v = q * (v * e) + s * v
        BY <1>1, SMTT(30)
      <3> QED
        BY <3>1, <3>2
    <2>2. (g * m + y) * v = (g * v) * m + y * v
      <3> HIDE DEF g, m
      <3>1. m \in Nat
        BY <1>0 DEF m
      <3> QED
        BY <1>3, <3>1, SMTT(30)
    <2>3. (g * v + q) * m = (g * v) * m + q * m
      <3> HIDE DEF g, m, q
      <3>1. m \in Nat
        BY <1>0 DEF m
      <3> QED
        BY <1>1, <1>3, <3>1, SMTT(30)
    <2>4. (g * v) * m \in Int /\ q * m \in Int
      <3> HIDE DEF g, m, q
      <3>1. m \in Nat
        BY <1>0 DEF m
      <3> QED
        BY <1>1, <1>3, <3>1, SMTT(30)
    <2> HIDE DEF g, m, q, s
    <2> QED
      BY <1>0, <2>1, <2>2, <2>3, <2>4
  <1>5. s * v \in 0..(m - 1)
    <2> HIDE DEF s
    <2>1. s * v <= (e - 1) * v /\ s * v >= 0
      BY <1>1, SMTT(30)
    <2>2. (e - 1) * v = v * e - v
      BY SMTT(30)
    <2> QED
      BY <1>0, <2>1, <2>2
  <1>6. ((g * m + y) * v) \div m = g * v + q
    <2>1. m \in Nat \ {0} /\ g * v + q \in Int
      BY <1>0, <1>1, <1>3
    <2> HIDE DEF m, g, q, s
    <2>2. ((g * v + q) * m + s * v) \div m = g * v + q
      BY <1>5, <2>1, DividedIs, Zenon
    <2> QED
      BY <1>4, <2>2, Zenon
  <1>7. g * v + q = (R - 1) * w + (c * v + q)
    <2>1. g * v = ((R - 1) * D) * v + c * v
      <3>1. \A a \in Int : (a + c) * v = a * v + c * v
        BY SMTT(30)
      <3>2. (R - 1) * D \in Int
        BY SMTT(30)
      <3> QED
        BY <3>1, <3>2
    <2>2. ((R - 1) * D) * v = (R - 1) * (v * D)
      BY SMTT(30)
    <2>3. (R - 1) * (v * D) \in Int /\ c * v \in Int
      BY SMTT(30)
    <2> HIDE DEF g, q
    <2> QED
      BY <1>1, <2>1, <2>2, <2>3
  <1>8. c * v + q \in 0..(w - 1)
    <2>1. c * v <= (D - 1) * v /\ c * v >= 0
      BY SMTT(30)
    <2>2. (D - 1) * v = v * D - v
      BY SMTT(30)
    <2> HIDE DEF q
    <2> QED
      BY <1>0, <1>1, <1>2, <2>1, <2>2
  <1>9. ((R - 1) * w + (c * v + q)) \div w = R - 1 /\ ((R - 1) * w + (c * v + q)) % w = c * v + q
    <2>1. w \in Nat \ {0} /\ R - 1 \in Int
      BY <1>0
    <2> HIDE DEF w, q
    <2> QED
      BY <1>8, <2>1, DividedIs, Zenon
  <1>10. q \in 0..(v - 1)
    <2> HIDE DEF q
    <2> QED
      BY <1>1, <1>2
  <1> HIDE DEF m, w, g, q
  <1>11. /\ (((g * m + y) * v) \div m) \div w = R - 1
         /\ (((g * m + y) * v) \div m) % w = c * v + q
    BY <1>6, <1>7, <1>9, Zenon
  <1> QED
    BY <1>10, <1>11, Zenon DEF RowPlaced, m, w, g, q

\* Of e columns of the image for each of h, the one for column x.
LEMMA ColumnPlace ==
    ASSUME NEW h \in Nat \ {0}, NEW e \in Nat \ {0}, NEW x \in Nat
    PROVE  (x * h) \div (h * e) = x \div e
  <1> DEFINE q == x \div e
             s == x % e
             m == h * e
  <1>1. q \in Nat /\ s \in 0..(e - 1) /\ x = q * e + s
    <2>1. x \in Int /\ x >= 0
      OBVIOUS
    <2>2. q \in Int /\ s \in 0..(e - 1) /\ x = q * e + s /\ (x >= 0 => q >= 0)
      BY <2>1, Divided, Zenon
    <2> HIDE DEF q, s
    <2> QED
      BY <2>1, <2>2
  <1>2. m \in Nat \ {0}
    <2>1. \A a, b \in Nat \ {0} : a * b \in Nat \ {0}
      BY SMTT(30)
    <2> QED
      BY <2>1
  <1>3. x * h = q * m + s * h
    <2> HIDE DEF q, s
    <2>1. x * h = (q * e + s) * h
      BY <1>1
    <2>2. (q * e + s) * h = q * (h * e) + s * h
      BY <1>1, SMTT(30)
    <2> QED
      BY <2>1, <2>2
  <1>4. s * h \in 0..(m - 1)
    <2> HIDE DEF s
    <2>1. s * h <= (e - 1) * h /\ s * h >= 0
      BY <1>1, SMTT(30)
    <2>2. (e - 1) * h = h * e - h
      BY SMTT(30)
    <2>3. s * h \in Int
      BY <1>1
    <2> QED
      BY <1>2, <2>1, <2>2, <2>3
  <1>5. (q * m + s * h) \div m = q
    <2>1. q \in Int
      BY <1>1
    <2> HIDE DEF m, q, s
    <2> QED
      BY <1>2, <1>4, <2>1, DividedIs, Zenon
  <1> HIDE DEF q, m, s
  <1>6. (x * h) \div m = q
    BY <1>3, <1>5, Zenon
  <1> QED
    BY <1>6 DEF q, m

-----------------------------------------------------------------------------
(* The rows an upsampler gives. *)

\* Row y of row group c of iMCU row R.
RowAt(R, c, y) == ((R - 1) * DCTSIZE + c) * setup.maxv + y

SampleFrom(R, c, y, k, x, ve, he) ==
    /\ BoxSample(RowAt(R, c, y), k, x)
          = decompress_data(R)[k][c * setup.comps[k].vg + (y \div ve)][x \div he]
    /\ y \div ve \in Span(setup.comps[k].vg)

LEMMA BoxSampleIs ==
    ASSUME ReadSetup, NEW k \in Components, NEW R \in Nat \ {0}, NEW c \in 0..(DCTSIZE - 1),
           NEW y \in Span(setup.maxv), NEW x \in Span(setup.width),
           NEW ve \in Nat \ {0}, setup.maxv = setup.comps[k].vg * ve,
           NEW he \in Nat \ {0}, setup.maxh = setup.comps[k].hg * he
    PROVE  SampleFrom(R, c, y, k, x, ve, he)
  <1> DEFINE comp == setup.comps[k]
             v == comp.vg
             r == RowAt(R, c, y)
             at == (r * v) \div setup.maxv
  <1>1. v \in Nat \ {0} /\ comp.hg \in Nat \ {0} /\ DCTSIZE \in Nat \ {0}
    BY PixelsAssumption DEF ReadSetup, UpsamplerFits
  <1>2. y \in 0..(v * ve - 1) /\ x \in Nat
    BY DEF Span, ReadSetup
  <1>3. /\ y \div ve \in 0..(v - 1)
        /\ at \div (v * DCTSIZE) = R - 1
        /\ at % (v * DCTSIZE) = c * v + (y \div ve)
    <2> HIDE DEF v
    <2>1. RowPlaced(v, ve, DCTSIZE, R, c, y)
      BY <1>1, <1>2, RowPlace, Zenon
    <2> QED
      BY <2>1, Zenon DEF RowPlaced, RowAt, v
  <1>4. (x * comp.hg) \div setup.maxh = x \div he
    <2> DEFINE h == comp.hg
    <2>1. h \in Nat \ {0} /\ setup.maxh = h * he
      BY <1>1
    <2> HIDE DEF h
    <2>2. (x * h) \div (h * he) = x \div he
      BY <1>2, <2>1, ColumnPlace, Zenon
    <2> QED
      BY <2>1, <2>2, Zenon DEF h
  <1>5. BoxSample(r, k, x)
          = decompress_data((at \div (v * DCTSIZE)) + 1)[k][at % (v * DCTSIZE)]
                           [(x * comp.hg) \div setup.maxh]
    BY Zenon DEF BoxSample
  <1>6. (at \div (v * DCTSIZE)) + 1 = R
    <2> HIDE DEF at
    <2> QED
      BY <1>3
  <1> HIDE DEF at
  <1>7. BoxSample(r, k, x) = decompress_data(R)[k][c * v + (y \div ve)][x \div he]
    BY <1>3, <1>4, <1>5, <1>6, Zenon
  <1> QED
    BY <1>3, <1>7, Zenon DEF Span, SampleFrom

\* What color_buf points to or holds for one component.
ConvertedSample(buf, cv, k, y) == IF cv.own THEN cv.rows[y] ELSE buf[k][cv.row + y]

UpsampledIs(buf, R, c, y, k, x) ==
    ConvertedSample(buf, upsample(buf, k, c), k, y)[x] = BoxSample(RowAt(R, c, y), k, x)

LEMMA UpsampledSample ==
    ASSUME ReadSetup, NEW k \in Components, NEW R \in Nat \ {0}, NEW c \in 0..(DCTSIZE - 1),
           NEW y \in Span(setup.maxv), NEW x \in Span(setup.width),
           setup.comps[k].up # "noop", NEW buf, buf = decompress_data(R)
    PROVE  UpsampledIs(buf, R, c, y, k, x)
  <1> DEFINE comp == setup.comps[k]
             rows == [i \in Span(comp.vg) |-> buf[k][c * comp.vg + i]]
             cv == upsample(buf, k, c)
             value == ConvertedSample(buf, cv, k, y)[x]
  <1> SUFFICES value = BoxSample(RowAt(R, c, y), k, x)
    BY Zenon DEF UpsampledIs
  <1>1. /\ comp.hg \in Nat \ {0} /\ comp.vg \in Nat \ {0}
        /\ setup.maxv \in Nat \ {0} /\ setup.maxh \in Nat \ {0}
        /\ comp.up \in {"fullsize", "h2v1", "h2v2", "int"}
    BY DEF ReadSetup, UpsamplerFits
  <1>2. x \in Nat /\ y \in Nat /\ x < setup.width /\ y < setup.maxv
    BY DEF Span, ReadSetup
  <1> DEFINE Fits(ve, he) ==
        /\ ve \in Nat \ {0} /\ setup.maxv = comp.vg * ve
        /\ he \in Nat \ {0} /\ setup.maxh = comp.hg * he
        /\ value = rows[y \div ve][x \div he]
  <1>3. ASSUME NEW ve, NEW he, Fits(ve, he)
        PROVE  value = BoxSample(RowAt(R, c, y), k, x)
    <2>0. SampleFrom(R, c, y, k, x, ve, he)
      BY <1>3, BoxSampleIs, Zenon
    <2>1. /\ BoxSample(RowAt(R, c, y), k, x)
                = decompress_data(R)[k][c * comp.vg + (y \div ve)][x \div he]
          /\ y \div ve \in Span(comp.vg)
      BY <2>0, Zenon DEF SampleFrom
    <2>2. rows[y \div ve] = buf[k][c * comp.vg + (y \div ve)]
      BY <2>1, Zenon
    <2> QED
      BY <1>3, <2>1, <2>2, Zenon
  <1>4. \A a \in Nat : a \div 1 = a
    OBVIOUS
  <1>5. CASE comp.up = "fullsize"
    <2>1. setup.maxv = comp.vg /\ setup.maxh = comp.hg
      BY <1>5, Zenon DEF ReadSetup, UpsamplerFits
    <2>2. cv = [own |-> FALSE, row |-> c * comp.vg]
      BY <1>5, Zenon DEF upsample, fullsize_upsample, PointsTo
    <2>3. value = buf[k][c * comp.vg + y][x]
      <3>1. cv.own = FALSE /\ cv.row = c * comp.vg
        BY <2>2
      <3> QED
        BY <3>1, Zenon DEF ConvertedSample
    <2>4. /\ BoxSample(RowAt(R, c, y), k, x)
                = decompress_data(R)[k][c * comp.vg + (y \div 1)][x \div 1]
      <3>1. setup.maxv = comp.vg * 1 /\ setup.maxh = comp.hg * 1 /\ 1 \in Nat \ {0}
        BY <1>1, <2>1
      <3>2. SampleFrom(R, c, y, k, x, 1, 1)
        BY <3>1, BoxSampleIs, Zenon
      <3> QED
        BY <3>2, Zenon DEF SampleFrom
    <2> QED
      BY <1>2, <1>4, <2>3, <2>4, Zenon
  <1>6. ASSUME comp.up # "fullsize", NEW a, a = upsample1(rows, comp, setup), NEW row, a[y] = row
        PROVE  value = row[x]
    <2>1. cv = [own |-> TRUE, rows |-> a]
      BY <1>6, Zenon DEF upsample, Own
    <2>2. cv.own /\ cv.rows = a
      BY <2>1
    <2> QED
      BY <1>6, <2>2, Zenon DEF ConvertedSample
  <1>7. CASE comp.up = "h2v1"
    <2>1. setup.maxv = comp.vg * 1 /\ setup.maxh = comp.hg * 2
      BY <1>1, <1>7 DEF ReadSetup, UpsamplerFits
    <2>2. upsample1(rows, comp, setup)
            = [i \in Span(setup.maxv) |-> [j \in Span(setup.width) |-> rows[i][j \div 2]]]
      BY <1>7, Zenon DEF upsample1, h2v1_upsample
    <2>3. upsample1(rows, comp, setup)[y] = [j \in Span(setup.width) |-> rows[y][j \div 2]]
      BY <2>2, Zenon
    <2>4. value = rows[y][x \div 2]
      <3> DEFINE a == upsample1(rows, comp, setup)
                 row == [j \in Span(setup.width) |-> rows[y][j \div 2]]
      <3>1. comp.up # "fullsize" /\ a[y] = row
        BY <1>7, <2>3
      <3>2. row[x] = rows[y][x \div 2]
        BY Zenon
      <3> HIDE DEF a, row
      <3>3. value = row[x]
        BY <1>6, <3>1, Zenon DEF a
      <3> QED
        BY <3>2, <3>3, Zenon
    <2>5. value = rows[y \div 1][x \div 2]
      BY <1>2, <1>4, <2>4, Zenon
    <2> HIDE DEF rows
    <2>6. Fits(1, 2)
      BY <2>1, <2>5
    <2> HIDE DEF Fits
    <2> QED
      BY <1>3, <2>6, Zenon
  <1>8. CASE comp.up = "h2v2"
    <2>1. setup.maxv = comp.vg * 2 /\ setup.maxh = comp.hg * 2
      BY <1>1, <1>8 DEF ReadSetup, UpsamplerFits
    <2>2. upsample1(rows, comp, setup)
            = [i \in Span(setup.maxv) |-> [j \in Span(setup.width) |-> rows[i \div 2][j \div 2]]]
      BY <1>8, Zenon DEF upsample1, h2v2_upsample
    <2>3. upsample1(rows, comp, setup)[y]
             = [j \in Span(setup.width) |-> rows[y \div 2][j \div 2]]
      BY <2>2, Zenon
    <2>4. value = rows[y \div 2][x \div 2]
      <3> DEFINE a == upsample1(rows, comp, setup)
                 row == [j \in Span(setup.width) |-> rows[y \div 2][j \div 2]]
      <3>1. comp.up # "fullsize" /\ a[y] = row
        BY <1>8, <2>3
      <3>2. row[x] = rows[y \div 2][x \div 2]
        BY Zenon
      <3> HIDE DEF a, row
      <3>3. value = row[x]
        BY <1>6, <3>1, Zenon DEF a
      <3> QED
        BY <3>2, <3>3, Zenon
    <2> HIDE DEF rows
    <2>5. Fits(2, 2)
      BY <2>1, <2>4
    <2> HIDE DEF Fits
    <2> QED
      BY <1>3, <2>5, Zenon
  <1>9. CASE comp.up = "int"
    <2> DEFINE he == setup.maxh \div comp.hg
               ve == setup.maxv \div comp.vg
    <2>1. setup.maxv % comp.vg = 0 /\ setup.maxh % comp.hg = 0
      BY <1>9, Zenon DEF ReadSetup, UpsamplerFits
    <2>2. /\ ve \in Nat \ {0} /\ setup.maxv = comp.vg * ve
          /\ he \in Nat \ {0} /\ setup.maxh = comp.hg * he
      BY <1>1, <2>1, Quotient, Zenon
    <2> HIDE DEF he, ve
    <2>3. upsample1(rows, comp, setup)
            = [i \in Span(setup.maxv) |-> [j \in Span(setup.width) |-> rows[i \div ve][j \div he]]]
      BY <1>9, Zenon DEF upsample1, int_upsample, he, ve
    <2>4. upsample1(rows, comp, setup)[y]
             = [j \in Span(setup.width) |-> rows[y \div ve][j \div he]]
      BY <2>3, Zenon
    <2>5. value = rows[y \div ve][x \div he]
      <3> DEFINE a == upsample1(rows, comp, setup)
                 row == [j \in Span(setup.width) |-> rows[y \div ve][j \div he]]
      <3>1. comp.up # "fullsize" /\ a[y] = row
        BY <1>9, <2>4
      <3>2. row[x] = rows[y \div ve][x \div he]
        BY Zenon
      <3> HIDE DEF a, row
      <3>3. value = row[x]
        BY <1>6, <3>1, Zenon DEF a
      <3> QED
        BY <3>2, <3>3, Zenon
    <2> HIDE DEF rows
    <2>6. Fits(ve, he)
      BY <2>2, <2>5
    <2> HIDE DEF Fits
    <2> QED
      BY <1>3, <2>6, Zenon
  <1> QED
    BY <1>1, <1>5, <1>7, <1>8, <1>9, Zenon

LEMMA CountTo ==
    ASSUME NEW n \in Nat
    PROVE  Cardinality(1..n) = n
  BY FS_Interval

\* Separate upsampling and colour conversion.
RowGiven(buf, cv, R, c, y) == DeconvertedRow(buf, cv, y) = BoxFiltered(RowAt(R, c, y))

LEMMA SepRow ==
    ASSUME ReadSetup, NEW R \in Nat \ {0}, NEW c \in 0..(DCTSIZE - 1), NEW y \in Span(setup.maxv),
           NEW buf, buf = decompress_data(R),
           NEW cv, cv = [k \in Components |-> upsample(buf, k, c)]
    PROVE  RowGiven(buf, cv, R, c, y)
  <1> DEFINE n == Len(setup.comps)
             needed == component_needed(setup.dconv, n)
             r == RowAt(R, c, y)
             Got(x) == [k \in 1..Cardinality(needed) |-> ConvertedSample(buf, cv[k], k, y)[x]]
             Sampled(x) == [k \in Components |-> BoxSample(r, k, x)]
  <1>1. Components = 1..n /\ n \in Nat \ {0}
    BY Zenon DEF ReadSetup
  <1>2. ASSUME NEW k \in needed, k \in Components, NEW x \in Span(setup.width)
        PROVE  ConvertedSample(buf, cv[k], k, y)[x] = BoxSample(r, k, x)
    <2>1. setup.comps[k].up # "noop"
      BY <1>2, Zenon DEF ReadSetup
    <2>2. cv[k] = upsample(buf, k, c)
      BY <1>2, Zenon
    <2>3. ConvertedSample(buf, upsample(buf, k, c), k, y)[x] = BoxSample(r, k, x)
      <3>1. UpsampledIs(buf, R, c, y, k, x)
        BY <1>2, <2>1, UpsampledSample, Zenon
      <3> QED
        BY <3>1, Zenon DEF UpsampledIs
    <2> QED
      BY <2>2, <2>3, Zenon
  <1>3. ASSUME NEW x \in Span(setup.width)
        PROVE  color_deconvert(setup.dconv, Got(x)) = color_deconvert(setup.dconv, Sampled(x))
    <2>1. CASE setup.dconv = "grayscale"
      <3>1. needed = {1}
        BY <2>1, Zenon DEF component_needed
      <3>2. Cardinality(needed) = 1
        BY <3>1, FS_Singleton, Zenon
      <3>3. 1 \in Components /\ 1 \in needed /\ 1 \in 1..1
        BY <1>1, <3>1
      <3>4. Got(x)[1] = BoxSample(r, 1, x) /\ Sampled(x)[1] = BoxSample(r, 1, x)
        <4> HIDE DEF needed
        <4>1. Got(x)[1] = ConvertedSample(buf, cv[1], 1, y)[x]
          BY <3>2, <3>3, Zenon
        <4>2. ConvertedSample(buf, cv[1], 1, y)[x] = BoxSample(r, 1, x)
          BY <1>2, <3>3, Zenon
        <4> QED
          BY <3>3, <4>1, <4>2, Zenon
      <3> HIDE DEF Got, Sampled
      <3>5. /\ color_deconvert(setup.dconv, Got(x)) = <<Got(x)[1]>>
            /\ color_deconvert(setup.dconv, Sampled(x)) = <<Sampled(x)[1]>>
        BY <2>1 DEF color_deconvert, d_grayscale_convert
      <3> QED
        BY <3>4, <3>5, Zenon
    <2>2. CASE setup.dconv # "grayscale"
      <3>1. needed = 1..n
        BY <2>2, Zenon DEF component_needed
      <3>2. Cardinality(needed) = n
        BY <1>1, <3>1, CountTo, Zenon
      <3>3. \A k \in 1..n : ConvertedSample(buf, cv[k], k, y)[x] = BoxSample(r, k, x)
        BY <1>1, <1>2, <3>1, Zenon
      <3>4. Got(x) = Sampled(x)
        <4>1. Got(x) = [k \in 1..n |-> ConvertedSample(buf, cv[k], k, y)[x]]
          BY <3>2, Zenon
        <4>2. Sampled(x) = [k \in 1..n |-> BoxSample(r, k, x)]
          BY <1>1, Zenon
        <4> HIDE DEF Got, Sampled, n
        <4> QED
          BY <3>3, <4>1, <4>2, Zenon
      <3> HIDE DEF Got, Sampled
      <3> QED
        BY <3>4, Zenon
    <2> QED
      BY <2>1, <2>2, Zenon
  <1>4. DeconvertedRow(buf, cv, y)
          = [x \in Span(setup.width) |-> color_deconvert(setup.dconv, Got(x))]
    BY Zenon DEF DeconvertedRow, ConvertedSample
  <1>5. BoxFiltered(r) = [x \in Span(setup.width) |-> color_deconvert(setup.dconv, Sampled(x))]
    BY Zenon DEF BoxFiltered
  <1> HIDE DEF Got, Sampled
  <1> QED
    BY <1>3, <1>4, <1>5, Zenon DEF RowGiven

\* One pixel of merged upsampling is one of separate upsampling.
ShowsPixel(p, a, cb, cr) == color_deconvert("ycc_rgb", p) = MergedPixel(a, cb, cr)

LEMMA MergedPixelIs ==
    ASSUME NEW a, NEW cb, NEW cr, NEW p, p[1] = a, p[2] = cb, p[3] = cr
    PROVE  ShowsPixel(p, a, cb, cr)
  <1> DEFINE tab == build_ycc_rgb_table
             s1 == a + tab.Cr_r[cr]
             s2 == a + ((tab.Cb_g[cb] + tab.Cr_g[cr]) \div SCALE)
             s3 == a + tab.Cb_b[cb]
             f(v) == sample_range_limit(v)
             sums == YccSums(tab, p)
  <1>1. color_deconvert("ycc_rgb", p) = [k \in 1..3 |-> f(sums[k])]
    BY DEF color_deconvert, ycc_rgb_convert
  <1> HIDE DEF f, tab
  <1>2. sums = <<s1, s2, s3>>
    BY Zenon DEF YccSums
  <1>3. MergedPixel(a, cb, cr) = <<f(s1), f(s2), f(s3)>>
    BY Zenon DEF MergedPixel, merged_ycc_rgb_table, tab, f
  <1> HIDE DEF s1, s2, s3
  <1>4. sums[1] = s1 /\ sums[2] = s2 /\ sums[3] = s3
    <2> HIDE DEF sums
    <2> QED
      BY <1>2
  <1> HIDE DEF sums
  <1>5. [k \in 1..3 |-> f(sums[k])] = <<f(s1), f(s2), f(s3)>>
    <2> DEFINE g == [k \in 1..3 |-> f(sums[k])]
    <2>1. g[1] = f(s1) /\ g[2] = f(s2) /\ g[3] = f(s3)
      BY <1>4
    <2>2. DOMAIN g = 1..3
      OBVIOUS
    <2>3. g = [k \in 1..3 |-> g[k]]
      OBVIOUS
    <2> HIDE DEF g
    <2> QED
      BY <2>1, <2>3 DEF g
  <1> QED
    BY <1>1, <1>3, <1>5, Zenon DEF ShowsPixel

MergedRowIs(buf, R, c, y) ==
    BoxFiltered(RowAt(R, c, y))
      = [x \in Span(setup.width) |->
           MergedPixel(buf[1][c * setup.maxv + y][x], buf[2][c][x \div 2], buf[3][c][x \div 2])]

LEMMA MergedRow ==
    ASSUME ReadSetup, setup.merged,
           NEW R \in Nat \ {0}, NEW c \in 0..(DCTSIZE - 1), NEW y \in Span(setup.maxv),
           NEW buf, buf = decompress_data(R)
    PROVE  MergedRowIs(buf, R, c, y)
  <1> DEFINE r == RowAt(R, c, y)
             Sampled(x) == [k \in Components |-> BoxSample(r, k, x)]
  <1>1. MergedFits
    BY Zenon DEF ReadSetup
  <1>2. /\ Components = 1..3 /\ setup.dconv = "ycc_rgb"
        /\ setup.maxh = 2 /\ setup.maxv \in {1, 2}
        /\ setup.comps[1].hg = 2 /\ setup.comps[1].vg = setup.maxv
        /\ \A k \in 2..3 : setup.comps[k].hg = 1 /\ setup.comps[k].vg = 1
    BY <1>1, Zenon DEF MergedFits
  <1>3. y \in Nat /\ y < setup.maxv /\ y \div 1 = y /\ y \div setup.maxv = 0 /\ c \in Nat
    BY <1>2, PixelsAssumption DEF Span
  <1>4. ASSUME NEW x \in Span(setup.width)
        PROVE  /\ BoxSample(r, 1, x) = buf[1][c * setup.maxv + y][x]
               /\ BoxSample(r, 2, x) = buf[2][c][x \div 2]
               /\ BoxSample(r, 3, x) = buf[3][c][x \div 2]
    <2>1. x \in Nat /\ x \div 1 = x
      BY DEF Span, ReadSetup
    <2>2. SampleFrom(R, c, y, 1, x, 1, 1)
      <3>1. /\ 1 \in Components /\ 1 \in Nat \ {0}
            /\ setup.maxv = setup.comps[1].vg * 1 /\ setup.maxh = setup.comps[1].hg * 1
        BY <1>2
      <3> QED
        BY <3>1, BoxSampleIs, Zenon
    <2>3. ASSUME NEW k \in 2..3
          PROVE  SampleFrom(R, c, y, k, x, setup.maxv, 2)
      <3>1. /\ k \in Components /\ 2 \in Nat \ {0} /\ setup.maxv \in Nat \ {0}
            /\ setup.maxv = setup.comps[k].vg * setup.maxv /\ setup.maxh = setup.comps[k].hg * 2
        BY <1>2
      <3> QED
        BY <3>1, BoxSampleIs, Zenon
    <2>4. ASSUME NEW k \in 2..3
          PROVE  BoxSample(r, k, x) = buf[k][c][x \div 2]
      <3>1. BoxSample(r, k, x)
              = buf[k][c * setup.comps[k].vg + (y \div setup.maxv)][x \div 2]
        BY <2>3, Zenon DEF SampleFrom
      <3>2. c * setup.comps[k].vg + (y \div setup.maxv) = c
        BY <1>2, <1>3
      <3> QED
        BY <3>1, <3>2, Zenon
    <2>5. BoxSample(r, 1, x) = buf[1][c * setup.maxv + y][x]
      BY <1>2, <1>3, <2>1, <2>2, Zenon DEF SampleFrom
    <2>6. 2 \in 2..3 /\ 3 \in 2..3
      OBVIOUS
    <2> QED
      BY <2>4, <2>5, <2>6, Zenon
  <1>5. ASSUME NEW x \in Span(setup.width)
        PROVE  color_deconvert(setup.dconv, Sampled(x))
                 = MergedPixel(buf[1][c * setup.maxv + y][x], buf[2][c][x \div 2],
                               buf[3][c][x \div 2])
    <2>1. 1 \in Components /\ 2 \in Components /\ 3 \in Components
      BY <1>2
    <2>2. /\ Sampled(x)[1] = BoxSample(r, 1, x) /\ Sampled(x)[2] = BoxSample(r, 2, x)
          /\ Sampled(x)[3] = BoxSample(r, 3, x)
      BY <2>1, Zenon
    <2>3. /\ Sampled(x)[1] = buf[1][c * setup.maxv + y][x]
          /\ Sampled(x)[2] = buf[2][c][x \div 2]
          /\ Sampled(x)[3] = buf[3][c][x \div 2]
      BY <1>4, <2>2, Zenon
    <2> HIDE DEF Sampled
    <2>4. ShowsPixel(Sampled(x), buf[1][c * setup.maxv + y][x], buf[2][c][x \div 2],
                     buf[3][c][x \div 2])
      BY <2>3, MergedPixelIs, Zenon
    <2> QED
      BY <1>2, <2>4, Zenon DEF ShowsPixel
  <1>6. BoxFiltered(r) = [x \in Span(setup.width) |-> color_deconvert(setup.dconv, Sampled(x))]
    BY Zenon DEF BoxFiltered
  <1> HIDE DEF Sampled
  <1> QED
    BY <1>5, <1>6, Zenon DEF MergedRowIs

-----------------------------------------------------------------------------
(* One call of the main controller. *)

\* The buffer handed to the upsampler is the iMCU row the count says.
FetchedOK(d) ==
    /\ d = [buffer_full |-> TRUE, rowgroup_ctr |-> d.rowgroup_ctr, row |-> d.row,
            buffer |-> d.buffer]
    /\ d.rowgroup_ctr \in 0..(DCTSIZE - 1) /\ d.row \in Nat \ {0}
    /\ d.buffer = decompress_data(d.row)
    /\ RowsWithin \in 0..(setup.maxv - 1)
    /\ RowsRead = RowAt(d.row, d.rowgroup_ctr, RowsWithin)
    /\ RowsWithin # 0 => d = dmain
    /\ dmain.buffer_full => d = dmain

LEMMA FetchedIs ==
    ASSUME ReadSetup, Reading
    PROVE  FetchedOK(Fetched)
  <1> DEFINE d == Fetched
  <1>1. /\ dmain \in [buffer_full : BOOLEAN, rowgroup_ctr : 0..(DCTSIZE - 1), row : Nat,
                      buffer : {dmain.buffer}]
        /\ dmain.buffer_full => dmain.row >= 1 /\ dmain.buffer = decompress_data(dmain.row)
        /\ ~dmain.buffer_full => dmain.rowgroup_ctr = 0 /\ RowsWithin = 0
    BY Zenon DEF Reading, MainReads
  <1>2. DCTSIZE \in Nat \ {0} /\ setup.maxv \in Nat \ {0}
    BY PixelsAssumption DEF ReadSetup
  <1>3. RowsWithin \in 0..(setup.maxv - 1)
    <2>1. CASE setup.merged
      BY <1>2, <2>1 DEF RowsWithin
    <2>2. CASE ~setup.merged
      <3>1. ups \in [next_row_out : 0..setup.maxv, rows_to_go : Nat]
        BY <2>2, Zenon DEF Reading, SepReads
      <3>2. ups.next_row_out \in 0..setup.maxv
        BY <3>1
      <3> QED
        BY <1>2, <2>2, <3>2 DEF RowsWithin
    <2> QED
      BY <2>1, <2>2, Zenon
  <1>4. RowsRead = GroupsRead * setup.maxv + RowsWithin
    BY Zenon DEF RowsRead
  <1> HIDE DEF RowsWithin
  <1>5. CASE dmain.buffer_full
    <2>1. d = dmain
      BY <1>5, Zenon DEF Fetched
    <2>2. GroupsRead = (d.row - 1) * DCTSIZE + d.rowgroup_ctr
      BY <1>5, <2>1, Zenon DEF GroupsRead
    <2>3. RowsRead = RowAt(d.row, d.rowgroup_ctr, RowsWithin)
      BY <1>4, <2>2, Zenon DEF RowAt
    <2>4. /\ d = [buffer_full |-> TRUE, rowgroup_ctr |-> d.rowgroup_ctr, row |-> d.row,
                  buffer |-> d.buffer]
          /\ d.rowgroup_ctr \in 0..(DCTSIZE - 1) /\ d.row \in Nat \ {0}
      <3> HIDE DEF d
      <3> QED
        BY <1>1, <1>5, <2>1
    <2> HIDE DEF d
    <2>5. FetchedOK(d)
      BY <1>1, <1>3, <1>5, <2>1, <2>3, <2>4, Zenon DEF FetchedOK
    <2> QED
      BY <2>5 DEF d
  <1>6. CASE ~dmain.buffer_full
    <2> DEFINE new == decompress_data(dmain.row + 1)
    <2>1. d = [dmain EXCEPT !.buffer_full = TRUE, !.row = @ + 1, !.buffer = new]
      BY <1>6, Zenon DEF Fetched
    <2> HIDE DEF new, d
    <2>2. /\ d = [buffer_full |-> TRUE, rowgroup_ctr |-> d.rowgroup_ctr, row |-> d.row,
                  buffer |-> d.buffer]
          /\ d.rowgroup_ctr = 0 /\ d.row = dmain.row + 1 /\ d.buffer = new
          /\ d.row \in Nat \ {0}
      <3>1. /\ dmain = [buffer_full |-> dmain.buffer_full, rowgroup_ctr |-> dmain.rowgroup_ctr,
                         row |-> dmain.row, buffer |-> dmain.buffer]
            /\ dmain.rowgroup_ctr = 0 /\ dmain.row \in Nat
        BY <1>1, <1>6
      <3>2. d = [buffer_full |-> TRUE, rowgroup_ctr |-> dmain.rowgroup_ctr,
                 row |-> dmain.row + 1, buffer |-> new]
        BY <2>1, <3>1
      <3> QED
        BY <3>1, <3>2
    <2>3. GroupsRead = (d.row - 1) * DCTSIZE + d.rowgroup_ctr
      <3>1. GroupsRead = dmain.row * DCTSIZE
        BY <1>6, Zenon DEF GroupsRead
      <3>2. dmain.row \in Nat
        BY <1>1
      <3>3. d.row - 1 = dmain.row /\ dmain.row * DCTSIZE \in Int
        BY <1>2, <2>2, <3>2
      <3> QED
        BY <2>2, <3>1, <3>3
    <2>4. RowsRead = RowAt(d.row, d.rowgroup_ctr, RowsWithin)
      BY <1>4, <2>3, Zenon DEF RowAt
    <2>5. d.buffer = decompress_data(d.row) /\ d.rowgroup_ctr \in 0..(DCTSIZE - 1)
      BY <1>2, <2>2 DEF new
    <2>6. FetchedOK(d)
      BY <1>1, <1>3, <1>6, <2>2, <2>4, <2>5, Zenon DEF FetchedOK
    <2> QED
      BY <2>6 DEF d
  <1> QED
    BY <1>5, <1>6, Zenon

\* What the upsampler keeps of a row group of which y rows have been given.
RestOK(u, d, y) ==
    /\ ~setup.merged =>
          /\ u.ups = [next_row_out |-> y, rows_to_go |-> setup.height - RowAt(d.row, d.rowgroup_ctr, y)]
          /\ u.conv = [k \in Components |-> upsample(d.buffer, k, d.rowgroup_ctr)]
    /\ setup.merged /\ setup.maxv = 2 =>
          /\ u.ups = [spare_full |-> y < 2,
                      rows_to_go |-> setup.height - RowAt(d.row, d.rowgroup_ctr, y)]
          /\ y < 2 => u.conv = h2v2_merged_upsample(d.buffer, d.rowgroup_ctr, setup.width)[2]

Gives(u, d, room, len) ==
    /\ len \in Nat \ {0} /\ len <= room /\ RowsRead + len <= setup.height
    /\ RowsWithin + len <= setup.maxv
    /\ u.rows = [i \in 1..len |-> BoxFiltered(RowsRead + i - 1)]
    /\ u.consumed => RowsWithin + len = setup.maxv
    /\ ~u.consumed => RowsWithin + len < setup.maxv
    /\ RestOK(u, d, RowsWithin + len)

LEMMA SepGives ==
    ASSUME ReadSetup, Reading, RowsRead < setup.height, ~setup.merged,
           NEW d, d = Fetched, NEW room \in Nat \ {0},
           NEW u, u = sep_upsample(d.buffer, d.rowgroup_ctr, room)
    PROVE  \E len \in Nat \ {0} : Gives(u, d, room, len)
  <1> DEFINE maxv == setup.maxv
             w == RowsWithin
             whole_group == [k \in Components |-> upsample(d.buffer, k, d.rowgroup_ctr)]
             empty == ups.next_row_out >= maxv
             c == IF empty THEN whole_group ELSE conv
             from == IF empty THEN 0 ELSE ups.next_row_out
             len == Smaller(Smaller(maxv - from, ups.rows_to_go), room)
             row(i) == DeconvertedRow(d.buffer, c, from + i - 1)
  <1>1. /\ maxv \in Nat \ {0} /\ setup.height \in Nat
        /\ ups \in [next_row_out : 0..maxv, rows_to_go : Nat]
        /\ ups.rows_to_go = setup.height - RowsRead
        /\ ups.next_row_out < maxv => /\ dmain.buffer_full
              /\ conv = [k \in Components |-> upsample(dmain.buffer, k, dmain.rowgroup_ctr)]
    BY Zenon DEF ReadSetup, Reading, SepReads
  <1>2. /\ d.rowgroup_ctr \in 0..(DCTSIZE - 1) /\ d.row \in Nat \ {0}
        /\ d.buffer = decompress_data(d.row)
        /\ w \in 0..(maxv - 1) /\ RowsRead = RowAt(d.row, d.rowgroup_ctr, w)
        /\ dmain.buffer_full => d = dmain
    BY FetchedIs, Zenon DEF FetchedOK
  <1>3. ups.next_row_out \in 0..maxv /\ ups.rows_to_go \in Nat /\ RowsRead \in Int
    <2>1. ups.next_row_out \in 0..maxv /\ ups.rows_to_go \in Nat
      BY <1>1
    <2>2. RowsRead \in Int
      BY <1>1, <1>2, PixelsAssumption DEF RowAt
    <2> QED
      BY <2>1, <2>2
  <1>4. from = w
    <2>1. CASE empty
      <3>1. ~(ups.next_row_out < maxv)
        BY <1>1, <1>3, <2>1
      <3> QED
        BY <2>1, <3>1 DEF RowsWithin
    <2>2. CASE ~empty
      BY <1>1, <1>3, <2>2 DEF RowsWithin
    <2> QED
      BY <2>1, <2>2
  <1>5. c = whole_group
    <2>1. CASE empty
      BY <2>1, Zenon
    <2>2. CASE ~empty
      <3>1. ups.next_row_out < maxv
        BY <1>1, <1>3, <2>2
      <3> HIDE DEF maxv
      <3> QED
        BY <1>1, <1>2, <2>2, <3>1, Zenon
    <2> QED
      BY <2>1, <2>2, Zenon
  <1>6. /\ u.rows = [i \in 1..len |-> row(i)]
        /\ u.ups = [next_row_out |-> from + len, rows_to_go |-> ups.rows_to_go - len]
        /\ u.conv = c
        /\ u.consumed = (from + len >= maxv)
    <2>1. u = [rows |-> [i \in 1..len |-> row(i)],
               ups |-> [next_row_out |-> from + len, rows_to_go |-> ups.rows_to_go - len],
               conv |-> c,
               consumed |-> from + len >= maxv]
      BY Zenon DEF sep_upsample
    <2> HIDE DEF row, len, from, c
    <2> QED
      BY <2>1
  <1> HIDE DEF from, c, w, empty, whole_group
  <1>7. len \in Nat \ {0} /\ len <= room /\ RowsRead + len <= setup.height /\ w + len <= maxv
    BY <1>1, <1>2, <1>3, <1>4 DEF Smaller
  <1> HIDE DEF len
  <1>8. ASSUME NEW i \in 1..len
        PROVE  row(i) = BoxFiltered(RowsRead + i - 1)
    <2> DEFINE y == from + i - 1
    <2>1. y \in Span(setup.maxv)
      BY <1>1, <1>2, <1>4, <1>7 DEF Span
    <2>2. RowsRead + i - 1 = RowAt(d.row, d.rowgroup_ctr, y)
      <3>1. ((d.row - 1) * DCTSIZE + d.rowgroup_ctr) * setup.maxv \in Int
        BY <1>1, <1>2, PixelsAssumption
      <3> QED
        BY <1>2, <1>4, <1>7, <3>1 DEF RowAt
    <2> HIDE DEF y
    <2>3. RowGiven(d.buffer, c, d.row, d.rowgroup_ctr, y)
      BY <1>2, <1>5, <2>1, SepRow, Zenon DEF whole_group
    <2> QED
      BY <2>2, <2>3, Zenon DEF y, RowGiven
  <1>9. u.rows = [i \in 1..len |-> BoxFiltered(RowsRead + i - 1)]
    <2> HIDE DEF row
    <2> QED
      BY <1>6, <1>8, Zenon
  <1>10. RestOK(u, d, w + len)
    <2>1. ups.rows_to_go - len = setup.height - RowAt(d.row, d.rowgroup_ctr, w + len)
      <3>1. ((d.row - 1) * DCTSIZE + d.rowgroup_ctr) * setup.maxv \in Int
        BY <1>1, <1>2, PixelsAssumption
      <3> QED
        BY <1>1, <1>2, <1>7, <3>1 DEF RowAt
    <2> QED
      BY <1>4, <1>5, <1>6, <2>1, Zenon DEF RestOK, whole_group
  <1>11. (u.consumed => w + len = maxv) /\ (~u.consumed => w + len < maxv)
    <2>1. u.consumed = (w + len >= maxv)
      BY <1>4, <1>6, Zenon
    <2>2. /\ w + len >= maxv => w + len = maxv
          /\ ~(w + len >= maxv) => w + len < maxv
      BY <1>1, <1>2, <1>7
    <2> QED
      BY <2>1, <2>2, Zenon
  <1> QED
    BY <1>7, <1>9, <1>10, <1>11, Zenon DEF Gives, w
\* The first one or two of two rows.
FirstRows(s, a, b) == SubSeq(s, 1, 1) = <<a>> /\ SubSeq(s, 1, 2) = <<a, b>>

LEMMA FirstRowsAre ==
    ASSUME NEW a, NEW b, NEW s, s = <<a, b>>
    PROVE  FirstRows(s, a, b)
  <1>1. s \in Seq({a, b}) /\ Len(s) = 2 /\ s[1] = a /\ s[2] = b
    OBVIOUS
  <1>2. s = [i \in 1..2 |-> s[i]]
    OBVIOUS
  <1>3. SubSeq(s, 1, 1) = [i \in 1..1 |-> s[i]] /\ SubSeq(s, 1, 2) = [i \in 1..2 |-> s[i]]
    <2>1. ASSUME NEW t \in Seq({a, b}), Len(t) = 2
          PROVE  SubSeq(t, 1, 1) = [i \in 1..1 |-> t[i]] /\ SubSeq(t, 1, 2) = [i \in 1..2 |-> t[i]]
      BY <2>1
    <2> QED
      BY <1>1, <2>1, Zenon
  <1>4. [i \in 1..1 |-> s[i]] = <<a>>
    BY <1>1
  <1> QED
    BY <1>2, <1>3, <1>4 DEF FirstRows

LEMMA MergedTwoGives ==
    ASSUME ReadSetup, Reading, RowsRead < setup.height, setup.merged, setup.maxv = 2,
           NEW d, d = Fetched, NEW room \in Nat \ {0},
           NEW u, u = merged_2v_upsample(d.buffer, d.rowgroup_ctr, room)
    PROVE  \E len \in Nat \ {0} : Gives(u, d, room, len)
  <1> DEFINE w == RowsWithin
             ctr == d.rowgroup_ctr
             two == h2v2_merged_upsample(d.buffer, ctr, setup.width)
             full == ups.spare_full
             len == IF full THEN 1 ELSE Smaller(Smaller(2, ups.rows_to_go), room)
             spare == ~full /\ len < 2
             Shown(y) == BoxFiltered(RowAt(d.row, ctr, y))
  <1>1. /\ setup.height \in Nat /\ setup.maxv \in Nat \ {0}
        /\ ups \in [spare_full : BOOLEAN, rows_to_go : Nat]
        /\ ups.rows_to_go = setup.height - RowsRead
        /\ full => conv = h2v2_merged_upsample(dmain.buffer, dmain.rowgroup_ctr, setup.width)[2]
    BY Zenon DEF ReadSetup, Reading, MergedReads
  <1>2. /\ ctr \in 0..(DCTSIZE - 1) /\ d.row \in Nat \ {0}
        /\ d.buffer = decompress_data(d.row)
        /\ w \in 0..1 /\ RowsRead = RowAt(d.row, ctr, w)
        /\ w # 0 => d = dmain
    <2>1. FetchedOK(d)
      BY FetchedIs, Zenon
    <2>2. /\ ctr \in 0..(DCTSIZE - 1) /\ d.row \in Nat \ {0}
          /\ d.buffer = decompress_data(d.row)
          /\ w \in 0..(setup.maxv - 1) /\ RowsRead = RowAt(d.row, ctr, w)
          /\ w # 0 => d = dmain
      BY <2>1, Zenon DEF FetchedOK
    <2> HIDE DEF w
    <2>3. w \in 0..1
      BY <2>2
    <2> QED
      BY <2>2, <2>3, Zenon
  <1>3. full \in BOOLEAN /\ ups.rows_to_go \in Nat /\ RowsRead \in Int
    <2>1. ups.spare_full \in BOOLEAN /\ ups.rows_to_go \in Nat
      BY <1>1
    <2>2. RowsRead \in Int
      BY <1>1, <1>2, PixelsAssumption DEF RowAt
    <2> QED
      BY <2>1, <2>2, Zenon
  <1>4. w = IF full THEN 1 ELSE 0
    BY Zenon DEF RowsWithin
  <1>5. two = <<Shown(0), Shown(1)>>
    <2> DEFINE Pixel(y, x) == MergedPixel(d.buffer[1][ctr * 2 + y][x], d.buffer[2][ctr][x \div 2],
                                          d.buffer[3][ctr][x \div 2])
    <2>1. ASSUME NEW y \in {0, 1}
          PROVE  Shown(y) = [x \in Span(setup.width) |-> Pixel(y, x)]
      <3>1. y \in Span(setup.maxv)
        BY DEF Span
      <3>2. MergedRowIs(d.buffer, d.row, ctr, y)
        BY <1>2, <3>1, MergedRow, Zenon
      <3>3. Shown(y) = [x \in Span(setup.width) |->
                        MergedPixel(d.buffer[1][ctr * setup.maxv + y][x], d.buffer[2][ctr][x \div 2],
                                    d.buffer[3][ctr][x \div 2])]
        BY <3>2, Zenon DEF MergedRowIs
      <3> QED
        BY <3>3, Zenon
    <2>2. two = <<[x \in Span(setup.width) |-> Pixel(0, x)],
                  [x \in Span(setup.width) |-> Pixel(1, x)]>>
      BY Zenon DEF h2v2_merged_upsample
    <2> HIDE DEF Pixel, Shown, two
    <2> QED
      BY <2>1, <2>2
  <1>6. /\ u.rows = IF full THEN <<conv>> ELSE SubSeq(two, 1, len)
        /\ u.ups = [spare_full |-> spare, rows_to_go |-> ups.rows_to_go - len]
        /\ u.conv = IF spare THEN two[2] ELSE conv
        /\ u.consumed = ~spare
    <2>1. u = [rows |-> IF full THEN <<conv>> ELSE SubSeq(two, 1, len),
               ups |-> [spare_full |-> spare, rows_to_go |-> ups.rows_to_go - len],
               conv |-> IF spare THEN two[2] ELSE conv,
               consumed |-> ~spare]
      BY Zenon DEF merged_2v_upsample
    <2> HIDE DEF two, len, spare
    <2> QED
      BY <2>1
  <1>7. full => conv = Shown(1)
    <2>1. ASSUME full
          PROVE  conv = two[2]
      <3>1. d = dmain
        BY <1>2, <1>4, <2>1
      <3> QED
        BY <1>1, <2>1, <3>1, Zenon
    <2> HIDE DEF two, Shown
    <2> QED
      BY <1>5, <2>1
  <1> HIDE DEF two, full, Shown, w
  <1>8. /\ len \in Nat \ {0} /\ len <= room /\ RowsRead + len <= setup.height
        /\ w + len <= 2 /\ spare = (w + len < 2)
    BY <1>1, <1>2, <1>3, <1>4 DEF Smaller
  <1> HIDE DEF len, spare
  <1>9. u.rows = [i \in 1..len |-> Shown(w + i - 1)]
    <2>1. CASE full
      <3>1. len = 1 /\ w = 1
        BY <1>4, <1>8, <2>1
      <3>2. u.rows = <<Shown(1)>>
        BY <1>6, <1>7, <2>1, Zenon
      <3> QED
        BY <3>1, <3>2
    <2>2. CASE ~full
      <3>1. w = 0 /\ len \in 1..2
        BY <1>4, <1>8, <2>2
      <3>2. u.rows = SubSeq(two, 1, len) /\ FirstRows(two, Shown(0), Shown(1))
        BY <1>5, <1>6, <2>2, FirstRowsAre, Zenon
      <3>3. CASE len = 1
        <4>1. u.rows = <<Shown(0)>>
          BY <3>2, <3>3, Zenon DEF FirstRows
        <4> QED
          BY <3>1, <3>3, <4>1
      <3>4. CASE len = 2
        <4>1. u.rows = <<Shown(0), Shown(1)>>
          BY <3>2, <3>4, Zenon DEF FirstRows
        <4> QED
          BY <3>1, <3>4, <4>1
      <3> QED
        BY <3>1, <3>3, <3>4
    <2> QED
      BY <1>3, <2>1, <2>2
  <1>10. ASSUME NEW i \in 1..len
         PROVE  RowsRead + i - 1 = RowAt(d.row, ctr, w + i - 1)
    <2>1. ((d.row - 1) * DCTSIZE + ctr) * setup.maxv \in Int
      BY <1>1, <1>2, PixelsAssumption
    <2> QED
      BY <1>2, <1>8, <2>1 DEF RowAt
  <1>11. u.rows = [i \in 1..len |-> BoxFiltered(RowsRead + i - 1)]
    <2>1. \A i \in 1..len : BoxFiltered(RowsRead + i - 1) = Shown(w + i - 1)
      BY <1>10, Zenon DEF Shown
    <2> QED
      BY <1>9, <2>1, Zenon
  <1>12. RestOK(u, d, w + len)
    <2>1. ups.rows_to_go - len = setup.height - RowAt(d.row, ctr, w + len)
      <3>1. ((d.row - 1) * DCTSIZE + ctr) * setup.maxv \in Int
        BY <1>1, <1>2, PixelsAssumption
      <3> QED
        BY <1>1, <1>2, <1>8, <3>1 DEF RowAt
    <2>2. u.ups = [spare_full |-> w + len < 2,
                   rows_to_go |-> setup.height - RowAt(d.row, ctr, w + len)]
      BY <1>6, <1>8, <2>1, Zenon
    <2>3. w + len < 2 => u.conv = two[2]
      BY <1>6, <1>8, Zenon
    <2> QED
      BY <2>2, <2>3, Zenon DEF RestOK, two
  <1>13. (u.consumed => w + len = setup.maxv) /\ (~u.consumed => w + len < setup.maxv)
    <2>1. u.consumed = ~spare /\ spare = (w + len < 2)
      BY <1>6, <1>8, Zenon
    <2>2. ~(w + len < 2) => w + len = setup.maxv
      BY <1>2, <1>8
    <2> QED
      BY <2>1, <2>2, Zenon
  <1> QED
    BY <1>8, <1>11, <1>12, <1>13, Zenon DEF Gives, w

LEMMA MergedOneGives ==
    ASSUME ReadSetup, Reading, RowsRead < setup.height, setup.merged, setup.maxv # 2,
           NEW d, d = Fetched, NEW room \in Nat \ {0},
           NEW u, u = merged_1v_upsample(d.buffer, d.rowgroup_ctr, room)
    PROVE  \E len \in Nat \ {0} : Gives(u, d, room, len)
  <1> DEFINE ctr == d.rowgroup_ctr
             Pixel(x) == MergedPixel(d.buffer[1][ctr][x], d.buffer[2][ctr][x \div 2],
                                     d.buffer[3][ctr][x \div 2])
  <1>1. setup.maxv = 1 /\ setup.height \in Nat
    BY Zenon DEF ReadSetup, MergedFits
  <1>2. RowsWithin = 0
    BY Zenon DEF RowsWithin
  <1>3. /\ ctr \in 0..(DCTSIZE - 1) /\ d.row \in Nat \ {0}
        /\ d.buffer = decompress_data(d.row) /\ RowsRead = RowAt(d.row, ctr, 0)
    BY <1>2, FetchedIs, Zenon DEF FetchedOK
  <1>4. RowsRead \in Int
    BY <1>1, <1>3, PixelsAssumption DEF RowAt
  <1>5. BoxFiltered(RowsRead) = [x \in Span(setup.width) |-> Pixel(x)]
    <2>1. 0 \in Span(setup.maxv)
      BY <1>1 DEF Span
    <2>2. MergedRowIs(d.buffer, d.row, ctr, 0)
      BY <1>3, <2>1, MergedRow, Zenon
    <2>3. BoxFiltered(RowsRead)
            = [x \in Span(setup.width) |->
                 MergedPixel(d.buffer[1][ctr * setup.maxv + 0][x], d.buffer[2][ctr][x \div 2],
                             d.buffer[3][ctr][x \div 2])]
      BY <1>3, <2>2, Zenon DEF MergedRowIs
    <2>4. ctr * setup.maxv + 0 = ctr
      BY <1>1, <1>3
    <2> QED
      BY <2>3, <2>4, Zenon
  <1>6. u = [rows |-> <<[x \in Span(setup.width) |-> Pixel(x)]>>,
             ups |-> ups, conv |-> conv, consumed |-> TRUE]
    BY Zenon DEF merged_1v_upsample, h2v1_merged_upsample
  <1> HIDE DEF Pixel
  <1>7. u.rows = <<BoxFiltered(RowsRead)>> /\ u.consumed = TRUE
    <2>1. u.rows = <<[x \in Span(setup.width) |-> Pixel(x)]>> /\ u.consumed = TRUE
      BY <1>6
    <2> QED
      BY <1>5, <2>1, Zenon
  <1>8. u.rows = [i \in 1..1 |-> BoxFiltered(RowsRead + i - 1)]
    BY <1>4, <1>7
  <1>9. RestOK(u, d, RowsWithin + 1)
    BY Zenon DEF RestOK
  <1>10. u.consumed /\ RowsWithin + 1 = setup.maxv
    BY <1>1, <1>2, <1>7
  <1>11. /\ 1 \in Nat \ {0} /\ 1 <= room /\ RowsRead + 1 <= setup.height
         /\ RowsWithin + 1 <= setup.maxv
    BY <1>1, <1>2, <1>4
  <1>12. Gives(u, d, room, 1)
    BY <1>8, <1>9, <1>10, <1>11, Zenon DEF Gives
  <1> QED
    BY <1>11, <1>12, Zenon

LEMMA UpsampledGives ==
    ASSUME ReadSetup, Reading, RowsRead < setup.height,
           NEW d, d = Fetched, NEW room \in Nat \ {0},
           NEW u, u = Upsampled(d.buffer, d.rowgroup_ctr, room)
    PROVE  \E len \in Nat \ {0} : Gives(u, d, room, len)
  <1>1. CASE ~setup.merged
    BY <1>1, SepGives, Zenon DEF Upsampled
  <1>2. CASE setup.merged /\ setup.maxv = 2
    BY <1>2, MergedTwoGives, Zenon DEF Upsampled, jinit_merged_upsampler
  <1>3. CASE setup.merged /\ setup.maxv # 2
    BY <1>3, MergedOneGives, Zenon DEF Upsampled, jinit_merged_upsampler
  <1> QED
    BY <1>1, <1>2, <1>3, Zenon

-----------------------------------------------------------------------------
(* A step of reading. *)

\* What has been set up and compressed stays as it is while reading.
Kept == UNCHANGED <<setup, coef>>

LEMMA KeptSame ==
    ASSUME Kept
    PROVE  /\ Components' = Components
           /\ \A n : decompress_data(n)' = decompress_data(n)
           /\ \A r : BoxFiltered(r)' = BoxFiltered(r)
           /\ \A b, k, c : upsample(b, k, c)' = upsample(b, k, c)
           /\ ReadSetup' = ReadSetup
  <1>1. setup' = setup /\ coef' = coef
    BY Zenon DEF Kept
  <1>2. Components' = Components
    BY <1>1, Zenon DEF Components
  <1>3. \A n : decompress_data(n)' = decompress_data(n)
    BY <1>1, <1>2, Zenon DEF decompress_data
  <1>4. \A r, k, x : BoxSample(r, k, x)' = BoxSample(r, k, x)
    BY <1>1, <1>3, Zenon DEF BoxSample
  <1>5. \A r : BoxFiltered(r)' = BoxFiltered(r)
    BY <1>1, <1>2, <1>4, Zenon DEF BoxFiltered
  <1>6. \A b, k, c : upsample(b, k, c)' = upsample(b, k, c)
    BY <1>1, Zenon DEF upsample
  <1>7. ReadSetup' = ReadSetup
    BY <1>1, <1>2, Zenon DEF ReadSetup, UpsamplerFits, MergedFits
  <1> QED
    BY <1>2, <1>3, <1>5, <1>6, <1>7, Zenon

\* The rows a call gives, and where it leaves the reader.
Advances(p, len) ==
    /\ p.rows = [i \in 1..len |-> BoxFiltered(RowsRead + i - 1)]
    /\ RowsRead' = RowsRead + len /\ RowsRead + len <= setup.height
    /\ Reading'

\* The main controller's counters after a row group, and after the last one.
UsedUp(d, g, r, b) ==
    /\ [d EXCEPT !.buffer_full = FALSE, !.rowgroup_ctr = 0]
         = [buffer_full |-> FALSE, rowgroup_ctr |-> 0, row |-> r, buffer |-> b]
    /\ [d EXCEPT !.rowgroup_ctr = g]
         = [buffer_full |-> TRUE, rowgroup_ctr |-> g, row |-> r, buffer |-> b]

LEMMA UsedUpIs ==
    ASSUME NEW c, NEW r, NEW b, NEW g, NEW d,
           d = [buffer_full |-> TRUE, rowgroup_ctr |-> c, row |-> r, buffer |-> b]
    PROVE  UsedUp(d, g, r, b)
  <1> DEFINE after_last == [d EXCEPT !.buffer_full = FALSE, !.rowgroup_ctr = 0]
             after_other == [d EXCEPT !.rowgroup_ctr = g]
  <1>1. ASSUME NEW e, e = after_last
        PROVE  e = [buffer_full |-> FALSE, rowgroup_ctr |-> 0, row |-> r, buffer |-> b]
    BY <1>1
  <1>2. ASSUME NEW e, e = after_other
        PROVE  e = [buffer_full |-> TRUE, rowgroup_ctr |-> g, row |-> r, buffer |-> b]
    BY <1>2
  <1> QED
    BY <1>1, <1>2, Zenon DEF UsedUp

LEMMA ReadStep ==
    ASSUME ReadSetup, Reading, RowsRead < setup.height, Kept,
           NEW room \in Nat \ {0}, NEW p, p = Processed(Fetched, room),
           process_data_simple_main(p)
    PROVE  \E len \in Nat \ {0} : len <= room /\ Advances(p, len)
  <1> DEFINE d == Fetched
             u == Upsampled(d.buffer, d.rowgroup_ctr, room)
             w == RowsWithin
             ctr == IF u.consumed THEN d.rowgroup_ctr + 1 ELSE d.rowgroup_ctr
             main == IF ctr >= DCTSIZE
                     THEN [d EXCEPT !.buffer_full = FALSE, !.rowgroup_ctr = 0]
                     ELSE [d EXCEPT !.rowgroup_ctr = ctr]
  <1>1. PICK len \in Nat \ {0} : Gives(u, d, room, len)
    BY UpsampledGives, Zenon
  <1>2. FetchedOK(d)
    BY FetchedIs, Zenon
  <1>3. p.rows = u.rows /\ ups' = u.ups /\ conv' = u.conv /\ dmain' = main
    <2>1. p = [rows |-> u.rows, ups |-> u.ups, conv |-> u.conv, dmain |-> main]
      BY Zenon DEF Processed
    <2> HIDE DEF main, u
    <2>2. p.rows = u.rows /\ p.ups = u.ups /\ p.conv = u.conv /\ p.dmain = main
      BY <2>1
    <2> QED
      BY <2>2, Zenon DEF process_data_simple_main
  <1> HIDE DEF u, d
  <1>4. /\ setup.maxv \in Nat \ {0} /\ setup.height \in Nat /\ DCTSIZE \in Nat \ {0}
        /\ setup.merged \in BOOLEAN
    BY PixelsAssumption DEF ReadSetup
  <1>5. /\ d = [buffer_full |-> TRUE, rowgroup_ctr |-> d.rowgroup_ctr, row |-> d.row,
                buffer |-> d.buffer]
        /\ d.rowgroup_ctr \in 0..(DCTSIZE - 1) /\ d.row \in Nat \ {0}
        /\ d.buffer = decompress_data(d.row)
        /\ w \in 0..(setup.maxv - 1)
        /\ RowsRead = RowAt(d.row, d.rowgroup_ctr, w)
    BY <1>2, Zenon DEF FetchedOK
  <1>6. /\ len <= room /\ RowsRead + len <= setup.height /\ w + len <= setup.maxv
        /\ u.rows = [i \in 1..len |-> BoxFiltered(RowsRead + i - 1)]
        /\ u.consumed => w + len = setup.maxv
        /\ ~u.consumed => w + len < setup.maxv
        /\ RestOK(u, d, w + len)
    BY <1>1, Zenon DEF Gives
  <1>7. setup' = setup /\ coef' = coef
    BY Zenon DEF Kept
  <1> HIDE DEF w
  <1>8. RowsWithin' = IF u.consumed THEN 0 ELSE w + len
    <2>1. CASE ~setup.merged
      <3>1. ups' = [next_row_out |-> w + len,
                    rows_to_go |-> setup.height - RowAt(d.row, d.rowgroup_ctr, w + len)]
        BY <1>3, <1>6, <2>1, Zenon DEF RestOK
      <3>2. ups'.next_row_out = w + len
        BY <3>1
      <3>3. RowsWithin' = IF w + len < setup.maxv THEN w + len ELSE 0
        BY <1>7, <2>1, <3>2, Zenon DEF RowsWithin
      <3>4. w + len = setup.maxv => ~(w + len < setup.maxv)
        BY <1>4, <1>5
      <3> QED
        BY <1>6, <3>3, <3>4, Zenon
    <2>2. CASE setup.merged /\ setup.maxv = 2
      <3>1. ups' = [spare_full |-> w + len < 2,
                    rows_to_go |-> setup.height - RowAt(d.row, d.rowgroup_ctr, w + len)]
        BY <1>3, <1>6, <2>2, Zenon DEF RestOK
      <3>2. ups'.spare_full = (w + len < 2)
        BY <3>1, Zenon
      <3>3. RowsWithin' = IF w + len < 2 THEN 1 ELSE 0
        BY <1>7, <2>2, <3>2, Zenon DEF RowsWithin
      <3>4. (w + len < 2 => w + len = 1) /\ (w + len = setup.maxv => ~(w + len < 2))
        BY <1>5, <2>2
      <3> QED
        BY <1>6, <2>2, <3>3, <3>4, Zenon
    <2>3. CASE setup.merged /\ setup.maxv # 2
      <3>1. RowsWithin' = 0
        BY <1>7, <2>3, Zenon DEF RowsWithin
      <3>2. setup.maxv = 1
        BY <2>3, Zenon DEF ReadSetup, MergedFits
      <3>3. ~(w + len < setup.maxv)
        BY <1>5, <3>2
      <3> QED
        BY <1>6, <3>1, <3>3, Zenon
    <2> QED
      BY <2>1, <2>2, <2>3, Zenon
  <1>10. ctr = IF u.consumed THEN d.rowgroup_ctr + 1 ELSE d.rowgroup_ctr
    OBVIOUS
  <1>11. ctr \in Nat /\ ctr <= DCTSIZE /\ (ctr = DCTSIZE => u.consumed)
    <2>1. CASE u.consumed
      <3>1. ctr = d.rowgroup_ctr + 1
        BY <2>1, Zenon
      <3>2. ctr \in Nat /\ ctr <= DCTSIZE
        BY <1>4, <1>5, <3>1
      <3> QED
        BY <2>1, <3>2, Zenon
    <2>2. CASE ~u.consumed
      <3>1. ctr = d.rowgroup_ctr
        BY <2>2, Zenon
      <3>2. ctr \in Nat /\ ctr < DCTSIZE /\ ctr <= DCTSIZE /\ ~(ctr = DCTSIZE)
        BY <1>4, <1>5, <3>1
      <3> QED
        BY <3>2, Zenon
    <2> QED
      BY <2>1, <2>2, Zenon
  <1>12. dmain' = IF ctr >= DCTSIZE
                  THEN [buffer_full |-> FALSE, rowgroup_ctr |-> 0, row |-> d.row, buffer |-> d.buffer]
                  ELSE [buffer_full |-> TRUE, rowgroup_ctr |-> ctr, row |-> d.row, buffer |-> d.buffer]
    <2> DEFINE full == ctr >= DCTSIZE
    <2>1. dmain' = IF full THEN [d EXCEPT !.buffer_full = FALSE, !.rowgroup_ctr = 0]
                           ELSE [d EXCEPT !.rowgroup_ctr = ctr]
      BY <1>3, Zenon
    <2> HIDE DEF ctr, full
    <2>2. /\ [d EXCEPT !.buffer_full = FALSE, !.rowgroup_ctr = 0]
                = [buffer_full |-> FALSE, rowgroup_ctr |-> 0, row |-> d.row, buffer |-> d.buffer]
          /\ [d EXCEPT !.rowgroup_ctr = ctr]
                = [buffer_full |-> TRUE, rowgroup_ctr |-> ctr, row |-> d.row, buffer |-> d.buffer]
      <3>1. UsedUp(d, ctr, d.row, d.buffer)
        BY <1>5, UsedUpIs, Zenon
      <3> QED
        BY <3>1, Zenon DEF UsedUp
    <2> QED
      BY <2>1, <2>2, Zenon DEF full
  <1> HIDE DEF ctr, main
  <1>13. /\ dmain'.row = d.row /\ dmain'.buffer = d.buffer
         /\ ctr < DCTSIZE => dmain'.buffer_full = TRUE /\ dmain'.rowgroup_ctr = ctr
         /\ ctr = DCTSIZE => dmain'.buffer_full = FALSE /\ dmain'.rowgroup_ctr = 0
    BY <1>4, <1>11, <1>12
  <1>14. GroupsRead' = (d.row - 1) * DCTSIZE + ctr
    <2>1. CASE ctr < DCTSIZE
      <3>1. GroupsRead' = (dmain'.row - 1) * DCTSIZE + dmain'.rowgroup_ctr
        BY <1>13, <2>1, Zenon DEF GroupsRead
      <3> QED
        BY <1>13, <2>1, <3>1, Zenon
    <2>2. CASE ctr = DCTSIZE
      <3>1. GroupsRead' = dmain'.row * DCTSIZE
        BY <1>13, <2>2, Zenon DEF GroupsRead
      <3>2. (d.row - 1) * DCTSIZE = d.row * DCTSIZE - DCTSIZE /\ d.row * DCTSIZE \in Int
        BY <1>4, <1>5
      <3> QED
        BY <1>4, <1>13, <2>2, <3>1, <3>2
    <2> QED
      BY <1>4, <1>11, <2>1, <2>2
  <1>15. RowsRead' = RowsRead + len /\ RowsRead + len = RowAt(d.row, d.rowgroup_ctr, w + len)
    <2> DEFINE g == (d.row - 1) * DCTSIZE
    <2>1. RowsRead' = (g + ctr) * setup.maxv + RowsWithin'
      BY <1>7, <1>14, Zenon DEF RowsRead
    <2>2. g \in Int /\ d.rowgroup_ctr \in Int /\ setup.maxv \in Int
      BY <1>4, <1>5
    <2>3. RowsRead = (g + d.rowgroup_ctr) * setup.maxv + w
      BY <1>5, Zenon DEF RowAt
    <2>4. RowAt(d.row, d.rowgroup_ctr, w + len) = (g + d.rowgroup_ctr) * setup.maxv + (w + len)
      BY Zenon DEF RowAt
    <2> HIDE DEF g
    <2>5. CASE u.consumed
      <3>1. ctr = d.rowgroup_ctr + 1 /\ RowsWithin' = 0 /\ w + len = setup.maxv
        BY <1>6, <1>8, <2>5, Zenon DEF ctr
      <3>2. (g + (d.rowgroup_ctr + 1)) * setup.maxv = (g + d.rowgroup_ctr) * setup.maxv + setup.maxv
        BY <2>2, SMTT(30)
      <3>3. (g + d.rowgroup_ctr) * setup.maxv \in Int
        BY <2>2
      <3> QED
        BY <1>5, <2>1, <2>2, <2>3, <2>4, <3>1, <3>2, <3>3
    <2>6. CASE ~u.consumed
      <3>1. ctr = d.rowgroup_ctr /\ RowsWithin' = w + len
        BY <1>8, <2>6, Zenon DEF ctr
      <3>2. (g + d.rowgroup_ctr) * setup.maxv \in Int
        BY <2>2
      <3> QED
        BY <1>5, <2>1, <2>2, <2>3, <2>4, <3>1, <3>2
    <2> QED
      BY <2>5, <2>6, Zenon
  <1>16. RowsRead \in Int
    BY <1>4, <1>5 DEF RowAt
  <1>17. MainReads'
    <2>1. /\ dmain' \in [buffer_full : BOOLEAN, rowgroup_ctr : 0..(DCTSIZE - 1), row : Nat,
                         buffer : {dmain'.buffer}]
      BY <1>4, <1>5, <1>11, <1>12
    <2>3. dmain'.buffer_full => dmain'.row >= 1 /\ dmain'.buffer = decompress_data(d.row)
      BY <1>5, <1>13
    <2>4. ~dmain'.buffer_full => ctr = DCTSIZE /\ dmain'.rowgroup_ctr = 0
      BY <1>4, <1>11, <1>13
    <2>5. ~dmain'.buffer_full => dmain'.rowgroup_ctr = 0 /\ RowsWithin' = 0
      BY <1>8, <1>11, <2>4, Zenon
    <2>6. decompress_data(dmain.row)' = decompress_data(d.row)
      <3>1. decompress_data(dmain.row)' = decompress_data(dmain'.row)
        BY <1>7, Zenon DEF decompress_data, Components
      <3>2. dmain'.row = d.row
        BY <1>13, Zenon
      <3> QED
        BY <3>1, <3>2, Zenon
    <2> QED
      BY <2>1, <2>3, <2>5, <2>6, Zenon DEF MainReads
  <1>18. /\ ~u.consumed => dmain'.buffer_full = TRUE /\ dmain'.rowgroup_ctr = d.rowgroup_ctr
         /\ w + len < setup.maxv => ~u.consumed
         /\ setup.height - (RowsRead + len) \in Nat
    <2>1. ASSUME ~u.consumed
          PROVE  dmain'.buffer_full = TRUE /\ dmain'.rowgroup_ctr = d.rowgroup_ctr
      <3>1. ctr = d.rowgroup_ctr
        BY <2>1, Zenon DEF ctr
      <3> QED
        BY <1>4, <1>5, <1>13, <3>1
    <2>2. w + len < setup.maxv => ~(w + len = setup.maxv)
      BY <1>4, <1>5
    <2>3. setup.height - (RowsRead + len) \in Nat
      BY <1>4, <1>6, <1>16
    <2> QED
      BY <1>6, <2>1, <2>2, <2>3, Zenon
  <1>19. ASSUME ~setup.merged
         PROVE  SepReads'
    <2>1. /\ ups' = [next_row_out |-> w + len, rows_to_go |-> setup.height - (RowsRead + len)]
          /\ conv' = [k \in Components |-> upsample(d.buffer, k, d.rowgroup_ctr)]
      BY <1>3, <1>6, <1>15, <1>19, Zenon DEF RestOK
    <2>2. /\ ups' \in [next_row_out : 0..setup.maxv, rows_to_go : Nat]
          /\ ups'.rows_to_go = setup.height - (RowsRead + len)
          /\ ups'.next_row_out = w + len
      BY <1>4, <1>5, <1>6, <1>18, <2>1
    <2>3. w + len < setup.maxv =>
             /\ dmain'.buffer_full
             /\ conv' = [k \in Components |-> upsample(dmain'.buffer, k, dmain'.rowgroup_ctr)]
      BY <1>13, <1>18, <2>1, Zenon
    <2>4. \A k, c : upsample(dmain.buffer, k, c)' = upsample(dmain'.buffer, k, c)
      BY <1>7, Zenon DEF upsample
    <2> QED
      BY <1>7, <1>15, <2>2, <2>3, KeptSame, Zenon DEF SepReads, upsample
  <1>20. ASSUME setup.merged, setup.maxv = 2
         PROVE  MergedReads'
    <2>1. /\ ups' = [spare_full |-> w + len < 2, rows_to_go |-> setup.height - (RowsRead + len)]
          /\ w + len < 2
                => conv' = h2v2_merged_upsample(d.buffer, d.rowgroup_ctr, setup.width)[2]
      BY <1>3, <1>6, <1>15, <1>20, Zenon DEF RestOK
    <2>2. /\ ups' \in [spare_full : BOOLEAN, rows_to_go : Nat]
          /\ ups'.rows_to_go = setup.height - (RowsRead + len)
          /\ ups'.spare_full = (w + len < 2)
      BY <1>18, <2>1
    <2>3. ups'.spare_full => conv' = h2v2_merged_upsample(dmain'.buffer, dmain'.rowgroup_ctr, setup.width)[2]
      BY <1>13, <1>18, <1>20, <2>1, <2>2, Zenon
    <2> QED
      BY <1>7, <1>15, <2>2, <2>3, Zenon DEF MergedReads, h2v2_merged_upsample
  <1>21. Reading'
    BY <1>6, <1>7, <1>15, <1>17, <1>19, <1>20, Zenon DEF Reading
  <1> QED
    BY <1>3, <1>6, <1>15, <1>21, Zenon DEF Advances

-----------------------------------------------------------------------------
(* What has been read is the beginning of the image. *)

\* One list of rows after the other.
JoinedRows(s, t, m, n) ==
    /\ s \o t = [i \in 1..(m + n) |-> IF i <= m THEN s[i] ELSE t[i - m]]
    /\ Len(s \o t) = m + n

LEMMA JoinedRowsAre ==
    ASSUME NEW m \in Nat, NEW n \in Nat,
           NEW s, s = [i \in 1..m |-> s[i]], NEW t, t = [i \in 1..n |-> t[i]]
    PROVE  JoinedRows(s, t, m, n)
  <1> DEFINE S == {s[i] : i \in 1..m} \cup {t[i] : i \in 1..n}
             u == s \o t
  <1>1. s \in Seq(S) /\ Len(s) = m
    <2>1. \A i \in 1..m : s[i] \in S
      BY Zenon
    <2> HIDE DEF S
    <2> QED
      BY <2>1
  <1>2. t \in Seq(S) /\ Len(t) = n
    <2>1. \A i \in 1..n : t[i] \in S
      BY Zenon
    <2> HIDE DEF S
    <2> QED
      BY <2>1
  <1> HIDE DEF S
  <1>3. /\ u \in Seq(S) /\ Len(u) = m + n
        /\ \A i \in 1..(m + n) : u[i] = IF i <= m THEN s[i] ELSE t[i - m]
    BY <1>1, <1>2
  <1>4. u = [i \in 1..(m + n) |-> u[i]]
    <2>1. ASSUME NEW T, NEW v \in Seq(T)
          PROVE  v = [i \in 1..Len(v) |-> v[i]]
      OBVIOUS
    <2> QED
      BY <1>3, <2>1, Zenon
  <1> HIDE DEF u
  <1>5. u = [i \in 1..(m + n) |-> IF i <= m THEN s[i] ELSE t[i - m]]
    BY <1>3, <1>4, Zenon
  <1> QED
    BY <1>3, <1>5, Zenon DEF JoinedRows, u

LEMMA NoSpare ==
    ASSUME NEW h \in Nat, NEW u, u = [spare_full |-> FALSE, rows_to_go |-> h]
    PROVE  u \in [spare_full : BOOLEAN, rows_to_go : Nat] /\ u.spare_full = FALSE
             /\ u.rows_to_go = h
  <1>1. u \in [spare_full : BOOLEAN, rows_to_go : Nat]
    OBVIOUS
  <1>2. u.spare_full = FALSE
    OBVIOUS
  <1>3. u.rows_to_go = h
    OBVIOUS
  <1> QED
    BY <1>1, <1>2, <1>3

\* The counters at the start.
LEMMA StartReads ==
    ASSUME ReadSetup', setup' = setup,
           dmain' = [buffer_full |-> FALSE, rowgroup_ctr |-> 0, row |-> 0, buffer |-> Blank],
           ups' = IF setup.merged THEN start_pass_merged_upsample ELSE start_pass_upsample
    PROVE  RowsRead' = 0 /\ Reading'
  <1>1. /\ setup.maxv \in Nat \ {0} /\ setup.height \in Nat \ {0} /\ DCTSIZE \in Nat \ {0}
        /\ setup.merged \in BOOLEAN
    BY PixelsAssumption DEF ReadSetup
  <1>2. /\ dmain'.buffer_full = FALSE /\ dmain'.rowgroup_ctr = 0 /\ dmain'.row = 0
        /\ dmain' \in [buffer_full : BOOLEAN, rowgroup_ctr : 0..(DCTSIZE - 1), row : Nat,
                       buffer : {dmain'.buffer}]
    BY <1>1
  <1>3. GroupsRead' = 0
    <2>1. GroupsRead' = dmain'.row * DCTSIZE
      BY <1>2, Zenon DEF GroupsRead
    <2> QED
      BY <1>1, <1>2, <2>1
  <1>4. ~setup.merged => ups' = [next_row_out |-> setup.maxv, rows_to_go |-> setup.height]
    BY Zenon DEF start_pass_upsample
  <1>5. setup.merged => ups' = [spare_full |-> FALSE, rows_to_go |-> setup.height]
    BY Zenon DEF start_pass_merged_upsample
  <1>6. RowsWithin' = 0
    <2>1. CASE setup.merged
      <3>1. ups'.spare_full = FALSE
        BY <1>5, <2>1
      <3> QED
        BY <2>1, <3>1, Zenon DEF RowsWithin
    <2>2. CASE ~setup.merged
      <3>1. ups'.next_row_out = setup.maxv
        BY <1>4, <2>2
      <3>2. ~(setup.maxv < setup.maxv)
        BY <1>1
      <3> QED
        BY <2>2, <3>1, <3>2, Zenon DEF RowsWithin
    <2> QED
      BY <2>1, <2>2, Zenon
  <1>7. RowsRead' = 0
    <2>1. RowsRead' = GroupsRead' * setup'.maxv + RowsWithin'
      BY Zenon DEF RowsRead
    <2> QED
      BY <1>1, <1>3, <1>6, <2>1
  <1>8. MainReads'
    BY <1>2, <1>6, Zenon DEF MainReads
  <1>9. ASSUME ~setup.merged
        PROVE  SepReads'
    <2>1. /\ ups' \in [next_row_out : 0..setup.maxv, rows_to_go : Nat]
          /\ ups'.rows_to_go = setup.height - 0
          /\ ~(ups'.next_row_out < setup.maxv)
      BY <1>1, <1>4, <1>9
    <2> QED
      BY <1>7, <2>1, Zenon DEF SepReads
  <1>10. ASSUME setup.merged
         PROVE  MergedReads'
    <2>1. /\ ups' \in [spare_full : BOOLEAN, rows_to_go : Nat]
          /\ ups'.rows_to_go = setup.height - 0
          /\ ups'.spare_full = FALSE
      <3>1. ups' = [spare_full |-> FALSE, rows_to_go |-> setup.height]
        BY <1>5, <1>10, Zenon
      <3>2. setup.height \in Nat /\ setup.height = setup.height - 0
        BY <1>1
      <3> QED
        BY <3>1, <3>2, NoSpare, Zenon
    <2> QED
      BY <1>7, <2>1, Zenon DEF MergedReads
  <1>11. 0 <= setup.height
    BY <1>1
  <1> QED
    BY <1>7, <1>8, <1>9, <1>10, <1>11, Zenon DEF Reading

\* The number of rows that a strip buffer rounds the image to.
LEMMA StripsHold ==
    ASSUME ReadSetup
    PROVE  /\ Ceiling(setup.height, setup.maxv) * setup.maxv \in Nat
           /\ setup.height <= Ceiling(setup.height, setup.maxv) * setup.maxv
           /\ Ceiling(setup.height, setup.maxv) * setup.maxv < setup.height + setup.maxv
  <1> DEFINE h == setup.height
             v == setup.maxv
             a == h + v - 1
  <1>1. h \in Nat \ {0} /\ v \in Nat \ {0} /\ a \in Int
    BY DEF ReadSetup
  <1>2. Ceiling(h, v) = a \div v
    BY Zenon DEF Ceiling
  <1> HIDE DEF h, v, a
  <1>3. a \div v \in Int /\ a % v \in 0..(v - 1) /\ a = (a \div v) * v + (a % v)
    BY <1>1, Divided, Zenon
  <1>4. (a \div v) * v \in Int
    BY <1>1, <1>3
  <1> DEFINE p == (a \div v) * v
             rest == a % v
  <1>5. p \in Int /\ rest \in 0..(v - 1) /\ a = p + rest
    BY <1>3, <1>4, Zenon
  <1> HIDE DEF p, rest
  <1>6. p \in Nat /\ h <= p /\ p < h + v
    BY <1>1, <1>5 DEF a
  <1> QED
    BY <1>2, <1>6, Zenon DEF p, h, v
\* A new decompressor has read nothing.
LEMMA StartsReading ==
    ASSUME RowsReadExact, jpeg_start_decompress
    PROVE  RowsReadExact'
  <1>1. /\ phase = "compress" /\ setup' = setup /\ coef' = coef
        /\ dmain' = dmain /\ out' = out
        /\ phase' = IF setup.quant = "2pass" THEN "prescan" ELSE "read"
        /\ ups' = IF setup.merged THEN start_pass_merged_upsample ELSE start_pass_upsample
        /\ post' = start_pass_dpost
        /\ whole' = BlankRows(IF setup.quant = "2pass"
                              THEN Ceiling(setup.height, StripHeight) * StripHeight ELSE 0)
    BY Zenon DEF jpeg_start_decompress
  <1>2. /\ dmain = [buffer_full |-> FALSE, rowgroup_ctr |-> 0, row |-> 0, buffer |-> Blank]
        /\ out = <<>>
    BY <1>1, Zenon DEF RowsReadExact, NotStarted
  <1>3. ReadSetup /\ ReadSetup'
    BY <1>1, KeptSame, Zenon DEF RowsReadExact, Kept
  <1>4. RowsRead' = 0 /\ Reading'
    BY <1>1, <1>2, <1>3, StartReads, Zenon
  <1>5. setup.quant = "2pass" => phase' = "prescan"
    BY <1>1, Zenon
  <1>6. setup.quant # "2pass" => phase' = "read"
    BY <1>1, Zenon
  <1>7. ASSUME setup.quant = "2pass"
        PROVE  Prescanning'
    <2>1. post' = [starting_row |-> 0, next_row |-> 0]
      BY <1>1, Zenon DEF start_pass_dpost
    <2>2. PostAt' = 0 /\ PostOK'
      <3>1. setup.maxv \in Nat \ {0}
        BY <1>3, Zenon DEF ReadSetup
      <3>2. post'.starting_row = 0 /\ post'.next_row = 0 /\ 0 \in Span(setup.maxv)
        BY <2>1, <3>1 DEF Span
      <3>3. PostAt' = 0
        BY <3>2 DEF PostAt
      <3>4. post' \in [starting_row : Nat, next_row : Span(setup.maxv)]
        BY <2>1, <3>2
      <3> QED
        BY <1>1, <3>3, <3>4, Zenon DEF PostOK
    <2>3. DOMAIN whole' = Span(Ceiling(setup.height, setup.maxv) * setup.maxv)
      BY <1>1, <1>7, Zenon DEF BlankRows, StripHeight
    <2>4. \A r \in Span(0) : FALSE
      BY DEF Span
    <2>5. WholeHas(RowsRead)'
      BY <1>1, <1>4, <2>3, <2>4, Zenon DEF WholeHas
    <2> QED
      BY <1>1, <1>2, <1>4, <1>7, <2>2, <2>5, Zenon DEF Prescanning
  <1>8. Unquantized' /\ OnePass'
    <2>1. \A r \in 1..0 : FALSE
      OBVIOUS
    <2>2. <<>> = [r \in 1..0 |-> BoxFiltered(r - 1)'] /\ <<>> = [r \in 1..0 |-> <<>>[r]]
      BY <2>1
    <2> QED
      BY <1>1, <1>2, <1>4, <2>2, Zenon DEF Unquantized, OnePass
  <1> QED
    BY <1>1, <1>3, <1>4, <1>5, <1>6, <1>7, <1>8, Zenon DEF RowsReadExact

\* The postprocessor goes on to the next strip when one is full.
LEMMA StripCounts ==
    ASSUME ReadSetup, PostOK, setup' = setup, NEW len \in Nat \ {0},
           len <= setup.maxv - post.next_row, post' = NextStrip(post, len)
    PROVE  PostOK' /\ PostAt' = PostAt + len
  <1> DEFINE v == setup.maxv
             s == post.starting_row
             n == post.next_row
  <1>1. /\ v \in Nat \ {0} /\ s \in Nat /\ n \in 0..(v - 1)
        /\ post = [starting_row |-> s, next_row |-> n]
    BY DEF ReadSetup, PostOK, Span
  <1>2. post' = IF n + len >= v THEN [starting_row |-> s + v, next_row |-> 0]
                ELSE [starting_row |-> s, next_row |-> n + len]
    <2>1. ASSUME NEW a, NEW b, NEW e, post = [starting_row |-> a, next_row |-> b],
                 e = [post EXCEPT !.next_row = @ + len]
          PROVE  e = [starting_row |-> a, next_row |-> b + len]
      BY <2>1
    <2>2. [post EXCEPT !.next_row = @ + len] = [starting_row |-> s, next_row |-> n + len]
      BY <1>1, <2>1, Zenon
    <2> QED
      BY <2>2, Zenon DEF NextStrip, StripHeight
  <1>3. PostAt = s + n /\ len <= v - n
    BY Zenon DEF PostAt
  <1> HIDE DEF s, n
  <1>4. CASE n + len >= v
    <2>1. post' = [starting_row |-> s + v, next_row |-> 0] /\ n + len = v
      BY <1>1, <1>2, <1>3, <1>4
    <2>2. post'.starting_row = s + v /\ post'.next_row = 0
      BY <2>1
    <2>3. post' \in [starting_row : Nat, next_row : Span(v)]
      BY <1>1, <2>1 DEF Span
    <2>4. PostAt' = PostAt + len
      BY <1>1, <1>3, <2>1, <2>2 DEF PostAt
    <2> QED
      BY <2>3, <2>4, Zenon DEF PostOK
  <1>5. CASE ~(n + len >= v)
    <2>1. post' = [starting_row |-> s, next_row |-> n + len] /\ n + len \in 0..(v - 1)
      BY <1>1, <1>2, <1>3, <1>5
    <2>2. post'.starting_row = s /\ post'.next_row = n + len
      BY <2>1
    <2>3. post' \in [starting_row : Nat, next_row : Span(v)]
      BY <1>1, <2>1 DEF Span
    <2>4. PostAt' = PostAt + len
      BY <1>1, <1>3, <2>1, <2>2 DEF PostAt
    <2> QED
      BY <2>3, <2>4, Zenon DEF PostOK
  <1> QED
    BY <1>4, <1>5, Zenon

\* The first pass of two keeps the rows where they belong.
LEMMA PrepassReads ==
    ASSUME RowsReadExact, post_process_prepass
    PROVE  RowsReadExact'
  <1> DEFINE v == setup.maxv
             at == post.starting_row + post.next_row
  <1>1. /\ phase = "prescan" /\ phase' = phase /\ setup' = setup /\ coef' = coef
        /\ at < setup.height
    BY Zenon DEF post_process_prepass, cvars
  <1>2. PICK p : /\ p = Processed(Fetched, v - post.next_row)
                 /\ process_data_simple_main(p) /\ Keep(p.rows)
    BY Zenon DEF post_process_prepass, StripHeight
  <1>3. ReadSetup /\ Reading /\ Kept
    BY <1>1, Zenon DEF RowsReadExact, Kept
  <1>4. Prescanning
    BY <1>1, Zenon DEF RowsReadExact
  <1>5. /\ v \in Nat \ {0} /\ setup.height \in Nat
        /\ post \in [starting_row : Nat, next_row : Span(v)]
        /\ at = RowsRead /\ out = <<>> /\ WholeHas(RowsRead) /\ setup.quant = "2pass"
    BY <1>3, <1>4, Zenon DEF ReadSetup, Prescanning, PostOK, PostAt
  <1>6. /\ post.starting_row \in Nat /\ post.next_row \in 0..(v - 1)
        /\ post = [starting_row |-> post.starting_row, next_row |-> post.next_row]
    BY <1>5 DEF Span
  <1>7. at \in Nat /\ v - post.next_row \in Nat \ {0}
    BY <1>5, <1>6
  <1>8. RowsRead < setup.height
    BY <1>1, <1>5
  <1>9. PICK len \in Nat \ {0} : len <= v - post.next_row /\ Advances(p, len)
    BY <1>2, <1>3, <1>7, <1>8, ReadStep, Zenon
  <1> HIDE DEF at
  <1>10. /\ p.rows = [i \in 1..len |-> BoxFiltered(at + i - 1)]
         /\ RowsRead' = at + len /\ at + len <= setup.height /\ Reading'
    BY <1>5, <1>9, Zenon DEF Advances
  <1>11. DOMAIN p.rows = 1..len /\ Len(p.rows) = len
    <2>1. \A i \in 1..len : p.rows[i] = BoxFiltered(at + i - 1)
      BY <1>10, Zenon
    <2>2. DOMAIN p.rows = 1..len
      BY <1>10, Zenon
    <2>3. Len(p.rows) = len
      BY <1>10
    <2> QED
      BY <2>2, <2>3, Zenon
  <1>12. /\ whole' = [r \in DOMAIN whole |->
                         IF r - at + 1 \in 1..len THEN p.rows[r - at + 1] ELSE whole[r]]
         /\ post' = NextStrip(post, len) /\ out' = out
    BY <1>2, <1>11, Zenon DEF Keep, at
  <1>13. PostOK' /\ PostAt' = at + len
    BY <1>1, <1>3, <1>5, <1>9, <1>12, StripCounts, Zenon DEF at, PostOK, PostAt
  <1>14. WholeHas(RowsRead)'
    <2> DEFINE size == Ceiling(setup.height, v) * v
    <2>1. /\ DOMAIN whole = Span(size) /\ \A r \in Span(at) : whole[r] = BoxFiltered(r)
      BY <1>5, Zenon DEF WholeHas
    <2>2. size \in Nat /\ setup.height <= size
      BY <1>3, StripsHold, Zenon
    <2> HIDE DEF size
    <2>3. ASSUME NEW r \in Span(at + len)
          PROVE  whole'[r] = BoxFiltered(r)
      <3>1. r \in Span(size) /\ r \in Nat /\ r < at + len
        BY <1>5, <1>7, <1>10, <2>2 DEF Span
      <3>2. whole'[r] = IF r - at + 1 \in 1..len THEN p.rows[r - at + 1] ELSE whole[r]
        BY <1>12, <2>1, <3>1, Zenon
      <3>3. CASE r < at
        <4>1. r \in Span(at) /\ ~(r - at + 1 \in 1..len)
          BY <1>7, <3>1, <3>3 DEF Span
        <4> QED
          BY <2>1, <3>2, <4>1, Zenon
      <3>4. CASE ~(r < at)
        <4>1. r - at + 1 \in 1..len /\ at + (r - at + 1) - 1 = r
          BY <1>7, <3>1, <3>4
        <4>2. p.rows[r - at + 1] = BoxFiltered(at + (r - at + 1) - 1)
          BY <1>10, <4>1, Zenon
        <4> QED
          BY <3>2, <4>1, <4>2, Zenon
      <3> QED
        BY <3>3, <3>4, Zenon
    <2>4. DOMAIN whole' = Span(size)
      BY <1>12, <2>1, Zenon
    <2>5. \A r : BoxFiltered(r)' = BoxFiltered(r)
      BY <1>3, KeptSame, Zenon
    <2> QED
      BY <1>1, <1>10, <2>3, <2>4, <2>5, Zenon DEF WholeHas, size
  <1>15. ReadSetup'
    BY <1>3, KeptSame, Zenon
  <1>16. Prescanning'
    BY <1>1, <1>5, <1>10, <1>12, <1>13, <1>14, Zenon DEF Prescanning
  <1> QED
    BY <1>1, <1>10, <1>15, <1>16, Zenon DEF RowsReadExact

LEMMA RowsReadIs ==
    ASSUME ReadSetup, Reading
    PROVE  RowsRead \in Nat /\ setup.height \in Nat
  <1> DEFINE d == Fetched
  <1>1. FetchedOK(d)
    BY FetchedIs, Zenon
  <1>2. /\ d.rowgroup_ctr \in 0..(DCTSIZE - 1) /\ d.row \in Nat \ {0}
        /\ RowsWithin \in 0..(setup.maxv - 1)
        /\ RowsRead = RowAt(d.row, d.rowgroup_ctr, RowsWithin)
    BY <1>1, Zenon DEF FetchedOK
  <1>3. setup.maxv \in Nat \ {0} /\ DCTSIZE \in Nat \ {0} /\ setup.height \in Nat
    BY PixelsAssumption DEF ReadSetup
  <1> DEFINE a == d.row - 1
             c == d.rowgroup_ctr
             v == setup.maxv
             w == RowsWithin
  <1>4. a \in Nat /\ c \in Nat /\ v \in Nat /\ w \in Nat
    BY <1>2, <1>3
  <1>5. RowsRead = (a * DCTSIZE + c) * v + w
    BY <1>2, Zenon DEF RowAt
  <1> HIDE DEF a, c, v, w
  <1>6. \A i, j \in Nat : i * j \in Nat
    BY SMTT(30)
  <1>7. a * DCTSIZE \in Nat
    BY <1>3, <1>4, <1>6
  <1>8. a * DCTSIZE + c \in Nat
    BY <1>4, <1>7
  <1>9. (a * DCTSIZE + c) * v \in Nat
    BY <1>4, <1>6, <1>8
  <1> QED
    BY <1>3, <1>4, <1>5, <1>9
\* The reader is where it was.
LEMMA ReaderRests ==
    ASSUME ReadSetup, Reading, setup' = setup, coef' = coef, UNCHANGED <<dmain, ups, conv>>
    PROVE  ReadSetup' /\ Reading' /\ RowsRead' = RowsRead
  <1>1. dmain' = dmain /\ ups' = ups /\ conv' = conv /\ Kept
    BY Zenon DEF Kept
  <1>2. ReadSetup' /\ Components' = Components
        /\ \A b, k, c : upsample(b, k, c)' = upsample(b, k, c)
    BY <1>1, KeptSame, Zenon
  <1>3. RowsWithin' = RowsWithin /\ GroupsRead' = GroupsRead
    BY <1>1, Zenon DEF RowsWithin, GroupsRead
  <1>4. RowsRead' = RowsRead
    BY <1>3, Zenon DEF RowsRead
  <1>5. MainReads'
    <2>1. decompress_data(dmain.row)' = decompress_data(dmain.row)
      BY <1>1, Zenon DEF decompress_data, Components
    <2> QED
      BY <1>1, <1>3, <2>1, Zenon DEF Reading, MainReads
  <1>6. ~setup.merged => SepReads'
    BY <1>1, <1>2, <1>4, Zenon DEF Reading, SepReads, upsample
  <1>7. setup.merged /\ setup.maxv = 2 => MergedReads'
    BY <1>1, <1>2, <1>4, Zenon DEF Reading, MergedReads, h2v2_merged_upsample
  <1> QED
    BY <1>2, <1>4, <1>5, <1>6, <1>7, Zenon DEF Reading

\* A call of the quantizer gives a row of codes for every row.
RowsOf(codes, len) == codes = [i \in 1..len |-> codes[i]]

LEMMA QuantizedRows ==
    ASSUME NEW z, NEW q, NEW rows, NEW len, DOMAIN rows = 1..len,
           NEW codes, codes = QuantizeRows(z, q, rows).rows
    PROVE  RowsOf(codes, len)
  BY DEF QuantizeRows, RowsOf

\* After the dummy pass the whole image is kept.
LEMMA SecondPassBegins ==
    ASSUME RowsReadExact, finish_output_pass
    PROVE  RowsReadExact'
  <1>1. /\ phase = "prescan" /\ phase' = "read" /\ setup' = setup /\ coef' = coef
        /\ dmain' = dmain /\ ups' = ups /\ conv' = conv /\ whole' = whole /\ out' = out
        /\ post' = [starting_row |-> 0, next_row |-> 0]
        /\ PostAt >= setup.height
    BY Zenon DEF finish_output_pass, cvars, start_pass_dpost, PostAt
  <1>2. ReadSetup /\ Reading /\ Prescanning /\ Kept
    BY <1>1, Zenon DEF RowsReadExact, Kept
  <1>3. /\ setup.height \in Nat \ {0} /\ setup.maxv \in Nat \ {0} /\ setup.quant = "2pass"
        /\ PostAt = RowsRead /\ RowsRead <= setup.height /\ out = <<>> /\ WholeHas(RowsRead)
        /\ post \in [starting_row : Nat, next_row : Span(setup.maxv)]
    BY <1>2, Zenon DEF ReadSetup, Reading, Prescanning, PostOK
  <1>4. RowsRead = setup.height
    <2>1. PostAt \in Int
      BY <1>3 DEF PostAt, Span
    <2> QED
      BY <1>1, <1>3, <2>1
  <1>5. ReadSetup' /\ Reading' /\ (\A r : BoxFiltered(r)' = BoxFiltered(r))
    BY <1>1, <1>2, KeptSame, ReaderRests, Zenon
  <1>6. PostOK' /\ PostAt' = 0
    <2>1. post'.starting_row = 0 /\ post'.next_row = 0
      BY <1>1
    <2>2. post' \in [starting_row : Nat, next_row : Span(setup.maxv)]
      BY <1>1, <1>3 DEF Span
    <2>3. PostAt' = 0
      BY <2>1 DEF PostAt
    <2> QED
      BY <1>1, <2>2, <2>3, Zenon DEF PostOK
  <1>7. WholeHas(setup.height)'
    BY <1>1, <1>3, <1>4, <1>5, Zenon DEF WholeHas
  <1>8. SecondPass'
    <2>1. Len(out') = 0 /\ out' = [r \in 1..0 |-> out'[r]]
      BY <1>1, <1>3
    <2>2. Smaller(0, setup.height) = 0 /\ (\A r \in 1..0 : FALSE) /\ 0 <= setup.height
          /\ 0 < setup.height + setup.maxv /\ 0 \in Nat
      BY <1>3 DEF Smaller
    <2> QED
      BY <1>1, <1>6, <1>7, <2>1, <2>2, Zenon DEF SecondPass
  <1> QED
    BY <1>1, <1>3, <1>5, <1>8, Zenon DEF RowsReadExact

\* A call without quantization.
LEMMA UnquantizedReads ==
    ASSUME RowsReadExact, phase = "read", NEW n \in Nat \ {0}, Len(out) < setup.height,
           ReadUnquantized(n), UNCHANGED <<setup, phase, cvars>>
    PROVE  RowsReadExact'
  <1>1. phase' = phase /\ setup' = setup /\ coef' = coef /\ setup.quant = "none"
    BY Zenon DEF ReadUnquantized, cvars
  <1>2. ReadSetup /\ Reading /\ Kept /\ Unquantized
    BY <1>1, Zenon DEF RowsReadExact, Kept
  <1>3. RowsRead \in Nat /\ setup.height \in Nat
    BY <1>2, RowsReadIs, Zenon
  <1>4. Len(out) = RowsRead
    BY <1>2, <1>3 DEF Unquantized
  <1>5. PICK p : /\ p = Processed(Fetched, n) /\ process_data_simple_main(p)
                 /\ out' = out \o p.rows
    BY Zenon DEF ReadUnquantized, Emit
  <1>6. PICK len \in Nat \ {0} : len <= n /\ Advances(p, len)
    BY <1>2, <1>4, <1>5, ReadStep, Zenon
  <1>7. /\ p.rows = [i \in 1..len |-> BoxFiltered(RowsRead + i - 1)]
        /\ RowsRead' = RowsRead + len /\ Reading'
    BY <1>6, Zenon DEF Advances
  <1>8. out' = [i \in 1..(RowsRead + len) |->
                  IF i <= RowsRead THEN out[i] ELSE p.rows[i - RowsRead]]
    <2>1. out = [i \in 1..RowsRead |-> out[i]] /\ p.rows = [i \in 1..len |-> p.rows[i]]
      BY <1>2, <1>7, Zenon DEF Unquantized
    <2>2. JoinedRows(out, p.rows, RowsRead, len)
      BY <1>3, <2>1, JoinedRowsAre, Zenon
    <2> QED
      BY <1>5, <2>2, Zenon DEF JoinedRows
  <1>9. \A i \in 1..(RowsRead + len) :
           (IF i <= RowsRead THEN out[i] ELSE p.rows[i - RowsRead]) = BoxFiltered(i - 1)
    <2>1. ASSUME NEW i \in 1..(RowsRead + len), i <= RowsRead
          PROVE  out[i] = BoxFiltered(i - 1)
      <3>1. i \in 1..RowsRead
        BY <1>3, <2>1
      <3> QED
        BY <1>2, <3>1, Zenon DEF Unquantized
    <2>2. ASSUME NEW i \in 1..(RowsRead + len), ~(i <= RowsRead)
          PROVE  p.rows[i - RowsRead] = BoxFiltered(i - 1)
      <3>1. i - RowsRead \in 1..len /\ RowsRead + (i - RowsRead) - 1 = i - 1
        BY <1>3, <2>2
      <3>2. p.rows[i - RowsRead] = BoxFiltered(RowsRead + (i - RowsRead) - 1)
        BY <1>7, <3>1, Zenon
      <3> QED
        BY <3>1, <3>2, Zenon
    <2> QED
      BY <2>1, <2>2, Zenon
  <1>10. \A r : BoxFiltered(r)' = BoxFiltered(r)
    BY <1>2, KeptSame, Zenon
  <1>11. Unquantized'
    <2>1. out' = [i \in 1..(RowsRead + len) |-> BoxFiltered(i - 1)]
      BY <1>8, <1>9, Zenon
    <2> QED
      BY <1>7, <1>10, <2>1, Zenon DEF Unquantized
  <1>12. ReadSetup'
    BY <1>2, KeptSame, Zenon
  <1> QED
    BY <1>1, <1>7, <1>11, <1>12, Zenon DEF RowsReadExact
\* A call that quantizes as it reads.
LEMMA OnePassReads ==
    ASSUME RowsReadExact, phase = "read", NEW n \in Nat \ {0}, Len(out) < setup.height,
           post_process_1pass(n), UNCHANGED <<setup, phase, cvars>>
    PROVE  RowsReadExact'
  <1>1. phase' = phase /\ setup' = setup /\ coef' = coef /\ setup.quant = "1pass"
    BY Zenon DEF post_process_1pass, cvars
  <1>2. ReadSetup /\ Reading /\ Kept /\ OnePass
    BY <1>1, Zenon DEF RowsReadExact, Kept
  <1>3. RowsRead \in Nat /\ setup.height \in Nat /\ setup.maxv \in Nat \ {0}
    BY <1>2, RowsReadIs, Zenon DEF ReadSetup
  <1>4. Len(out) = RowsRead
    BY <1>2, <1>3 DEF OnePass
  <1> DEFINE room == Smaller(n, StripHeight)
  <1>5. room \in Nat \ {0}
    BY <1>3 DEF Smaller, StripHeight
  <1>6. PICK p : /\ p = Processed(Fetched, room) /\ process_data_simple_main(p)
                 /\ out' = out \o QuantizeRows(setup.quantizer, cquantize, p.rows).rows
    BY Zenon DEF post_process_1pass, Emit
  <1> HIDE DEF room
  <1>7. PICK len \in Nat \ {0} : len <= room /\ Advances(p, len)
    BY <1>2, <1>4, <1>5, <1>6, ReadStep, Zenon
  <1>8. /\ DOMAIN p.rows = 1..len
        /\ RowsRead' = RowsRead + len /\ Reading'
    BY <1>7, Zenon DEF Advances
  <1> DEFINE codes == QuantizeRows(setup.quantizer, cquantize, p.rows).rows
  <1>9. RowsOf(codes, len)
    <2>1. codes = QuantizeRows(setup.quantizer, cquantize, p.rows).rows
      OBVIOUS
    <2> HIDE DEF codes
    <2> QED
      BY <1>8, <2>1, QuantizedRows, Zenon
  <1> HIDE DEF codes
  <1>10. JoinedRows(out, codes, RowsRead, len)
    <2>1. out = [i \in 1..RowsRead |-> out[i]]
      BY <1>2, Zenon DEF OnePass
    <2> QED
      BY <1>3, <1>9, <2>1, JoinedRowsAre, Zenon DEF RowsOf
  <1>11. out' = [i \in 1..(RowsRead + len) |->
                   IF i <= RowsRead THEN out[i] ELSE codes[i - RowsRead]]
    BY <1>6, <1>10, Zenon DEF JoinedRows, codes
  <1>12. OnePass'
    BY <1>8, <1>11, Zenon DEF OnePass
  <1>13. ReadSetup'
    BY <1>2, KeptSame, Zenon
  <1> QED
    BY <1>1, <1>8, <1>12, <1>13, Zenon DEF RowsReadExact

\* A call that gives rows of the full image.
LEMMA SecondPassReads ==
    ASSUME RowsReadExact, phase = "read", NEW n \in Nat \ {0}, Len(out) < setup.height,
           post_process_2pass(n), UNCHANGED <<setup, phase, cvars>>
    PROVE  RowsReadExact'
  <1> DEFINE v == setup.maxv
             h == setup.height
             s == post.starting_row
             m == post.next_row
             at == s + m
             num == Smaller(Smaller(v - m, n), h - s)
             rows == [i \in 1..num |-> pass2_no_dither(whole[at + i - 1])]
             len == Len(out)
  <1>1. /\ phase' = phase /\ setup' = setup /\ coef' = coef /\ setup.quant = "2pass"
        /\ dmain' = dmain /\ ups' = ups /\ conv' = conv /\ whole' = whole
        /\ out' = out \o rows /\ post' = NextStrip(post, num)
    BY Zenon DEF post_process_2pass, cvars, StripHeight
  <1>2. ReadSetup /\ Reading /\ Kept /\ SecondPass
    BY <1>1, Zenon DEF RowsReadExact, Kept
  <1>3. /\ v \in Nat \ {0} /\ h \in Nat \ {0} /\ len \in Nat /\ len < h
        /\ PostOK /\ PostAt = len /\ at = len /\ out = [r \in 1..len |-> out[r]]
        /\ \A r \in 1..Smaller(len, h) : out[r] = pass2_no_dither(BoxFiltered(r - 1))
    BY <1>2, Zenon DEF ReadSetup, SecondPass, PostAt
  <1>4. s \in Nat /\ m \in 0..(v - 1)
    BY <1>3 DEF PostOK, Span
  <1> HIDE DEF s, m, len
  <1>5. /\ num \in Nat \ {0} /\ num <= v - m /\ num <= h - s
        /\ len + num < h + v /\ (v <= 2 => len + num <= h)
    <2> DEFINE room == v - m
               left == h - s
    <2>1. room \in Nat \ {0} /\ left \in Nat \ {0}
      BY <1>3, <1>4
    <2>2. /\ num \in Nat \ {0} /\ num <= room /\ num <= left
      <3> HIDE DEF room, left
      <3> QED
        BY <2>1 DEF Smaller, room, left
    <2> HIDE DEF num
    <2>3. len = s + m
      BY <1>3
    <2>4. len + num < h + v
      BY <1>3, <1>4, <2>2, <2>3
    <2>5. v <= 2 => len + num <= h
      BY <1>3, <1>4, <2>2, <2>3
    <2> QED
      BY <2>2, <2>4, <2>5
  <1> HIDE DEF num
  <1>6. PostOK' /\ PostAt' = len + num
    <2>1. num <= setup.maxv - post.next_row
      BY <1>5, Zenon DEF m
    <2> QED
      BY <1>1, <1>2, <1>3, <1>5, <2>1, StripCounts, Zenon
  <1>7. JoinedRows(out, rows, len, num)
    <2>1. rows = [i \in 1..num |-> rows[i]] /\ num \in Nat
      BY <1>5, Zenon
    <2> HIDE DEF rows
    <2> QED
      BY <1>3, <2>1, JoinedRowsAre, Zenon
  <1>8. /\ out' = [i \in 1..(len + num) |-> IF i <= len THEN out[i] ELSE rows[i - len]]
        /\ Len(out') = len + num
    BY <1>1, <1>7, Zenon DEF JoinedRows
  <1>9. WholeHas(h)'
    <2>1. \A r : BoxFiltered(r)' = BoxFiltered(r)
      BY <1>2, KeptSame, Zenon
    <2> QED
      BY <1>1, <1>2, <2>1, Zenon DEF SecondPass, WholeHas
  <1>10. ASSUME NEW r \in 1..Smaller(len + num, h)
         PROVE  out'[r] = pass2_no_dither(BoxFiltered(r - 1))
    <2>1. r \in 1..(len + num) /\ r <= h /\ r \in Nat
      BY <1>3, <1>5 DEF Smaller
    <2>2. out'[r] = IF r <= len THEN out[r] ELSE rows[r - len]
      BY <1>8, <2>1, Zenon
    <2>3. CASE r <= len
      <3>1. r \in 1..Smaller(len, h)
        BY <1>3, <2>1, <2>3 DEF Smaller
      <3> QED
        BY <1>3, <2>2, <2>3, <3>1, Zenon
    <2>4. CASE ~(r <= len)
      <3>1. r - len \in 1..num /\ at + (r - len) - 1 = r - 1
        BY <1>3, <1>5, <2>1, <2>4
      <3>2. rows[r - len] = pass2_no_dither(whole[at + (r - len) - 1])
        BY <3>1, Zenon
      <3>3. rows[r - len] = pass2_no_dither(whole[r - 1])
        BY <3>1, <3>2, Zenon
      <3>4. r - 1 \in Span(h)
        BY <1>3, <2>1 DEF Span
      <3>5. whole[r - 1] = BoxFiltered(r - 1)
        BY <1>2, <3>4, Zenon DEF SecondPass, WholeHas
      <3> QED
        BY <2>2, <2>4, <3>3, <3>5, Zenon
    <2> QED
      BY <2>3, <2>4, Zenon
  <1> HIDE DEF rows
  <1>11. /\ len + num \in Nat /\ out' = [r \in 1..(len + num) |-> out'[r]]
         /\ \A r : BoxFiltered(r)' = BoxFiltered(r)
    <2>1. len + num \in Nat
      BY <1>3, <1>5
    <2> QED
      BY <1>2, <1>8, <2>1, KeptSame, Zenon
  <1>12. SecondPass'
    BY <1>1, <1>5, <1>6, <1>8, <1>9, <1>10, <1>11, Zenon DEF SecondPass
  <1>13. ReadSetup' /\ Reading'
    BY <1>1, <1>2, ReaderRests, Zenon
  <1> QED
    BY <1>1, <1>12, <1>13, Zenon DEF RowsReadExact
\* A step of the compressor.
LEMMA CompressingKeepsReader ==
    ASSUME RowsReadExact, phase = "compress", setup' = setup, phase' = phase,
           dmain' = dmain, out' = out
    PROVE  RowsReadExact'
  <1>1. NotStarted'
    BY Zenon DEF RowsReadExact, NotStarted
  <1>2. ReadSetup'
    <2>1. Components' = Components
      BY Zenon DEF Components
    <2> QED
      BY <2>1, Zenon DEF RowsReadExact, ReadSetup, UpsamplerFits, MergedFits
  <1> QED
    BY <1>1, <1>2, Zenon DEF RowsReadExact

\* A step of nothing.
LEMMA RestKeepsReader ==
    ASSUME RowsReadExact, UNCHANGED vars
    PROVE  RowsReadExact'
  <1>1. /\ setup' = setup /\ phase' = phase /\ coef' = coef /\ dmain' = dmain /\ ups' = ups
        /\ conv' = conv /\ post' = post /\ whole' = whole /\ out' = out
    BY Zenon DEF vars, cvars, dvars
  <1>2. CASE phase = "compress"
    BY <1>1, <1>2, CompressingKeepsReader, Zenon
  <1>3. CASE phase # "compress"
    <2>1. ReadSetup /\ Reading /\ phase \in {"compress", "prescan", "read"}
      BY <1>3, Zenon DEF RowsReadExact
    <2>2. ReadSetup' /\ Reading' /\ RowsRead' = RowsRead
      BY <1>1, <2>1, ReaderRests, Zenon
    <2>3. \A r : BoxFiltered(r)' = BoxFiltered(r)
      BY <1>1, KeptSame, Zenon DEF Kept
    <2>4. \A n : WholeHas(n)' = WholeHas(n)
      BY <1>1, <2>3, Zenon DEF WholeHas
    <2>5. PostOK' = PostOK /\ PostAt' = PostAt
      BY <1>1, Zenon DEF PostOK, PostAt
    <2>6. phase = "prescan" => Prescanning'
      BY <1>1, <2>2, <2>3, <2>5, Zenon DEF RowsReadExact, Prescanning, WholeHas
    <2>7. phase = "read" /\ setup.quant = "none" => Unquantized'
      BY <1>1, <2>2, <2>3, Zenon DEF RowsReadExact, Unquantized
    <2>8. phase = "read" /\ setup.quant = "1pass" => OnePass'
      BY <1>1, <2>2, Zenon DEF RowsReadExact, OnePass
    <2>9. phase = "read" /\ setup.quant = "2pass" => SecondPass'
      BY <1>1, <2>3, <2>5, Zenon DEF RowsReadExact, SecondPass, WholeHas
    <2> QED
      BY <1>1, <1>3, <2>1, <2>2, <2>6, <2>7, <2>8, <2>9, Zenon DEF RowsReadExact
  <1> QED
    BY <1>2, <1>3, Zenon

LEMMA InitReads == Init => RowsReadExact
  <1> SUFFICES ASSUME Init
               PROVE  RowsReadExact
    OBVIOUS
  <1>1. PICK job \in Jobs : setup = initial_setup(job) /\ Supported(initial_setup(job))
    BY Zenon DEF Init
  <1>2. ReadSetup
    BY <1>1, SetupReads, Zenon
  <1>3. phase = "compress" /\ NotStarted
    BY DEF Init, NotStarted
  <1>4. "compress" \in {"compress", "prescan", "read"} /\ "compress" # "prescan"
        /\ "compress" # "read"
    OBVIOUS
  <1> QED
    BY <1>2, <1>3, <1>4, Zenon DEF RowsReadExact

LEMMA NextReads == RowsKept /\ RowsReadExact /\ [Next]_vars => RowsReadExact'
  <1> SUFFICES ASSUME RowsKept, RowsReadExact, [Next]_vars
               PROVE  RowsReadExact'
    OBVIOUS
  <1>1. ASSUME app.at # "idle"
        PROVE  phase = "compress"
    BY <1>1, Zenon DEF RowsKept
  <1>2. CASE \E n \in Lines : jpeg_write_scanlines(n)
    BY <1>2, CompressingKeepsReader, Zenon DEF jpeg_write_scanlines, dvars
  <1>3. CASE pre_process_data
    <2>1. app.at = "fill" /\ UNCHANGED <<setup, phase, coef, dvars>>
      BY <1>3, Zenon DEF pre_process_data
    <2>2. phase = "compress"
      BY <1>1, <2>1
    <2> QED
      BY <2>1, <2>2, CompressingKeepsReader, Zenon DEF dvars
  <1>4. CASE pre_process_context
    <2>1. app.at = "fill" /\ UNCHANGED <<setup, phase, coef, dvars>>
      BY <1>4, Zenon DEF pre_process_context
    <2>2. phase = "compress"
      BY <1>1, <2>1
    <2> QED
      BY <2>1, <2>2, CompressingKeepsReader, Zenon DEF dvars
  <1>5. CASE PreProcessed
    <2>1. app.at = "fill" /\ UNCHANGED <<setup, phase, dvars>>
      BY <1>5, Zenon DEF PreProcessed
    <2>2. phase = "compress"
      BY <1>1, <2>1
    <2> QED
      BY <2>1, <2>2, CompressingKeepsReader, Zenon DEF dvars
  <1>6. CASE compress_data
    <2>1. app.at = "send" /\ UNCHANGED <<setup, phase, dvars>>
      BY <1>6, Zenon DEF compress_data
    <2>2. phase = "compress"
      BY <1>1, <2>1
    <2> QED
      BY <2>1, <2>2, CompressingKeepsReader, Zenon DEF dvars
  <1>7. CASE compress_data_suspends
    <2>1. app.at = "send" /\ UNCHANGED <<setup, phase, dvars>>
      BY <1>7, Zenon DEF compress_data_suspends
    <2>2. phase = "compress"
      BY <1>1, <2>1
    <2> QED
      BY <2>1, <2>2, CompressingKeepsReader, Zenon DEF dvars
  <1>8. CASE jpeg_start_decompress
    BY <1>8, StartsReading, Zenon
  <1>9. CASE post_process_prepass
    BY <1>9, PrepassReads, Zenon
  <1>10. CASE finish_output_pass
    BY <1>10, SecondPassBegins, Zenon
  <1>11. CASE \E n \in Lines : jpeg_read_scanlines(n)
    <2>1. PICK n \in Lines : jpeg_read_scanlines(n)
      BY <1>11, Zenon
    <2>2. n \in Nat \ {0}
      BY PixelsAssumption
    <2>3. phase = "read" /\ Len(out) < setup.height /\ UNCHANGED <<setup, phase, cvars>>
      BY <2>1, Zenon DEF jpeg_read_scanlines
    <2>4. CASE ReadUnquantized(n)
      BY <2>2, <2>3, <2>4, UnquantizedReads, Zenon
    <2>5. CASE post_process_1pass(n)
      BY <2>2, <2>3, <2>5, OnePassReads, Zenon
    <2>6. CASE post_process_2pass(n)
      BY <2>2, <2>3, <2>6, SecondPassReads, Zenon
    <2> QED
      BY <2>1, <2>4, <2>5, <2>6, Zenon DEF jpeg_read_scanlines
  <1>12. CASE Finished \/ UNCHANGED vars
    BY <1>12, RestKeepsReader, Zenon DEF Finished
  <1> QED
    BY <1>2, <1>3, <1>4, <1>5, <1>6, <1>7, <1>8, <1>9, <1>10, <1>11, <1>12, Zenon DEF Next

(***************************************************************************)
(* What has been given to the application, or kept for the second pass, is *)
(* always the beginning of the image, whatever the numbers of rows the     *)
(* calls ask for: the part of a row group that a call left over is in      *)
(* color_buf (jdsample.c:91-146), in the pointer into the input            *)
(* (jdsample.c:149-154) or in the spare row (jdmerge.c:185-235), and the   *)
(* counters of the main controller (jdmainct.c), the upsampler and the     *)
(* postprocessor (jdpostct.c) agree where that is.                         *)
(***************************************************************************)
THEOREM ReadersAgree == Spec => []RowsReadExact
  BY BuffersHold, InitReads, NextReads, PTL DEF Spec

(***************************************************************************)
(* RowsExact without one-pass quantization: the rows read are the rows of  *)
(* the image, in order, each once, and none below its last row.  With two  *)
(* passes it holds where a row group has no more than two rows: with more, *)
(* post_process_2pass counts the rows below the image too                  *)
(* (jdpostct.c:216-241).                                                   *)
(***************************************************************************)
ReadsInOrder ==
    \/ setup.quant = "none"
    \/ setup.quant = "2pass" /\ setup.maxv <= 2

THEOREM RowsComeInOrder == Spec => [](ReadsInOrder => RowsExact)
  <1>1. RowsReadExact => (ReadsInOrder => RowsExact)
    <2> SUFFICES ASSUME RowsReadExact, ReadsInOrder
                 PROVE  RowsExact
      OBVIOUS
    <2>1. setup.height \in Nat
      BY Zenon DEF RowsReadExact, ReadSetup
    <2>2. CASE phase = "compress" \/ phase = "prescan"
      <3>1. out = <<>>
        BY <2>2, Zenon DEF RowsReadExact, NotStarted, Prescanning
      <3>2. Len(out) <= setup.height /\ DOMAIN out = {}
        BY <2>1, <3>1
      <3> QED
        BY <3>2, Zenon DEF RowsExact, ReadsInOrder
    <2>3. CASE phase = "read" /\ setup.quant = "none"
      <3>1. ReadSetup /\ Reading /\ out = [r \in 1..RowsRead |-> BoxFiltered(r - 1)]
            /\ RowsRead <= setup.height
        BY <2>3 DEF RowsReadExact, Unquantized, Reading
      <3>2. RowsRead \in Nat
        BY <3>1, RowsReadIs, Zenon
      <3>3. Len(out) = RowsRead
        BY <3>1, <3>2
      <3>4. \A r \in DOMAIN out : out[r] = BoxFiltered(r - 1)
        BY <3>1, Zenon
      <3> QED
        BY <2>3, <3>1, <3>3, <3>4, Zenon DEF RowsExact
    <2>4. CASE phase = "read" /\ setup.quant = "2pass" /\ setup.maxv <= 2
      <3>1. /\ Len(out) \in Nat /\ Len(out) <= setup.height
            /\ out = [r \in 1..Len(out) |-> out[r]]
            /\ \A r \in 1..Smaller(Len(out), setup.height) :
                  out[r] = pass2_no_dither(BoxFiltered(r - 1))
        BY <2>4, Zenon DEF RowsReadExact, SecondPass
      <3>2. Smaller(Len(out), setup.height) = Len(out)
        BY <3>1, Zenon DEF Smaller
      <3>3. DOMAIN out = 1..Len(out)
        BY <3>1, Zenon
      <3>4. \A r \in DOMAIN out : out[r] = pass2_no_dither(BoxFiltered(r - 1))
        BY <3>1, <3>2, <3>3, Zenon
      <3>5. setup.quant # "none"
        BY <2>4
      <3> QED
        BY <2>4, <3>1, <3>4, <3>5, Zenon DEF RowsExact
    <2> QED
      BY <2>2, <2>3, <2>4, Zenon DEF RowsReadExact, ReadsInOrder
  <1> QED
    BY <1>1, ReadersAgree, PTL
(***************************************************************************)
(* For every sampling, two-pass quantization gives the rows of the image   *)
(* in their places, and what it gives below the image, the rows that fill  *)
(* the last strip, is less than a strip (jdpostct.c:216-241).              *)
(***************************************************************************)
KeptImageComesBack ==
    setup.quant = "2pass" =>
        /\ \A r \in 1..Smaller(Len(out), setup.height) :
              out[r] = pass2_no_dither(BoxFiltered(r - 1))
        /\ Len(out) < setup.height + setup.maxv

THEOREM SecondPassGivesImage == Spec => []KeptImageComesBack
  <1>1. RowsReadExact => KeptImageComesBack
    <2> SUFFICES ASSUME RowsReadExact, setup.quant = "2pass"
                 PROVE  /\ \A r \in 1..Smaller(Len(out), setup.height) :
                              out[r] = pass2_no_dither(BoxFiltered(r - 1))
                        /\ Len(out) < setup.height + setup.maxv
      BY Zenon DEF KeptImageComesBack
    <2>1. setup.height \in Nat \ {0} /\ setup.maxv \in Nat \ {0}
      BY Zenon DEF RowsReadExact, ReadSetup
    <2>2. CASE phase = "compress" \/ phase = "prescan"
      <3>1. out = <<>>
        BY <2>2, Zenon DEF RowsReadExact, NotStarted, Prescanning
      <3>2. Len(out) = 0
        BY <3>1
      <3>3. Len(out) < setup.height + setup.maxv /\ Smaller(Len(out), setup.height) = 0
        BY <2>1, <3>2 DEF Smaller
      <3>4. \A r \in 1..0 : FALSE
        OBVIOUS
      <3> QED
        BY <3>3, <3>4, Zenon
    <2>3. CASE phase = "read"
      BY <2>3, Zenon DEF RowsReadExact, SecondPass
    <2> QED
      BY <2>2, <2>3, Zenon DEF RowsReadExact
  <1> QED
    BY <1>1, ReadersAgree, PTL

(***************************************************************************)
(* Except in two passes no call gives a row too many: jpeg_read_scanlines  *)
(* gives as many as the reader has used up, and that is no more than the   *)
(* image has ("an oversize buffer (max_lines > scanlines remaining) is not *)
(* an error", jdapistd.c:149).                                             *)
(***************************************************************************)
NoRowTooMany == phase = "read" /\ setup.quant # "2pass"
                    => Len(out) = RowsRead /\ Len(out) <= setup.height

THEOREM OversizeBufferIsNoError == Spec => []NoRowTooMany
  <1>1. RowsReadExact => NoRowTooMany
    <2> SUFFICES ASSUME RowsReadExact, phase = "read", setup.quant # "2pass"
                 PROVE  Len(out) = RowsRead /\ Len(out) <= setup.height
      BY Zenon DEF NoRowTooMany
    <2>1. ReadSetup /\ Reading /\ RowsRead <= setup.height
      BY DEF RowsReadExact, Reading
    <2>2. RowsRead \in Nat
      BY <2>1, RowsReadIs, Zenon
    <2>3. setup.quant = "none" \/ setup.quant = "1pass"
      BY <2>1 DEF ReadSetup
    <2>4. CASE setup.quant = "none"
      <3>1. out = [r \in 1..RowsRead |-> BoxFiltered(r - 1)]
        BY <2>4, Zenon DEF RowsReadExact, Unquantized
      <3>2. Len(out) = RowsRead
        BY <2>2, <3>1
      <3> QED
        BY <2>1, <3>2, Zenon
    <2>5. CASE setup.quant = "1pass"
      <3>1. out = [r \in 1..RowsRead |-> out[r]]
        BY <2>5, Zenon DEF RowsReadExact, OnePass
      <3>2. Len(out) = RowsRead
        BY <2>2, <3>1
      <3> QED
        BY <2>1, <3>2, Zenon
    <2> QED
      BY <2>3, <2>4, <2>5, Zenon
  <1> QED
    BY <1>1, ReadersAgree, PTL
-----------------------------------------------------------------------------
(* Colours there and back. *)

\* What a quotient by SCALE is.
Rounded(q, sum) == q * SCALE <= sum /\ sum <= q * SCALE + (SCALE - 1)

LEMMA RoundedIs ==
    ASSUME NEW sum \in Int
    PROVE  sum \div SCALE \in Int /\ Rounded(sum \div SCALE, sum)
  BY SMTT(30) DEF SCALE, Rounded

WeighedSum(row, p) == row[1] * p[1] + row[2] * p[2] + row[3] * p[3] + row[4]
WeighedIs(row, p) == Weighed(row, p) \in Samples /\ Rounded(Weighed(row, p), WeighedSum(row, p))

SumFits(sum) == sum \in Int /\ 0 <= sum /\ sum < 256 * SCALE

LEMMA WeighedFits ==
    ASSUME NEW row, NEW p, SumFits(WeighedSum(row, p))
    PROVE  WeighedIs(row, p)
  <1> DEFINE sum == WeighedSum(row, p)
             q == sum \div SCALE
  <1>1. sum \in Int /\ 0 <= sum /\ sum < 256 * SCALE
    BY DEF SumFits
  <1>2. Weighed(row, p) = Sample(q)
    BY Zenon DEF Weighed, WeighedSum
  <1> HIDE DEF sum
  <1>3. q \in Int /\ Rounded(q, sum)
    BY <1>1, RoundedIs, Zenon
  <1> HIDE DEF q
  <1>4. q \in Samples
    BY <1>1, <1>3 DEF Rounded, SCALE, Samples, MAXJSAMPLE
  <1>5. Sample(q) = q
    BY <1>4, CastIs, Zenon
  <1> QED
    BY <1>2, <1>3, <1>4, <1>5, Zenon DEF WeighedIs, sum

\* The three sums of a colour (jccolor.c:86-120), all of them for a sample.
LumaSum(r, g, b) == 19595 * r + 38470 * g + 7471 * b + ONE_HALF
BlueSum(r, g, b) == (-11058) * r + (-21710) * g + 32768 * b + (CBCR_OFFSET + ONE_HALF - 1)
RedSum(r, g, b) == 32768 * r + (-27439) * g + (-5329) * b + (CBCR_OFFSET + ONE_HALF - 1)

YccIs(r, g, b, y, cb, cr) ==
    /\ y \in Samples /\ cb \in Samples /\ cr \in Samples
    /\ Rounded(y, LumaSum(r, g, b))
    /\ Rounded(cb, BlueSum(r, g, b))
    /\ Rounded(cr, RedSum(r, g, b))

LEMMA SumsFit ==
    ASSUME NEW r \in Samples, NEW g \in Samples, NEW b \in Samples
    PROVE  /\ SumFits(LumaSum(r, g, b)) /\ SumFits(BlueSum(r, g, b))
           /\ SumFits(RedSum(r, g, b))
  BY DEF Samples, MAXJSAMPLE, CBCR_OFFSET, ONE_HALF, SCALE, CENTERJSAMPLE, SumFits, LumaSum,
         BlueSum, RedSum

LEMMA TableSums ==
    ASSUME NEW p
    PROVE  /\ WeighedSum(rgb_ycc_tab.Y, p) = LumaSum(p[1], p[2], p[3])
           /\ WeighedSum(rgb_ycc_tab.Cb, p) = BlueSum(p[1], p[2], p[3])
           /\ WeighedSum(rgb_ycc_tab.Cr, p) = RedSum(p[1], p[2], p[3])
           /\ build_rgb_y_table = rgb_ycc_tab.Y
  <1>1. /\ rgb_ycc_tab.Y = <<19595, 38470, 7471, ONE_HALF>>
        /\ rgb_ycc_tab.Cb = <<-11058, -21710, 32768, CBCR_OFFSET + ONE_HALF - 1>>
        /\ rgb_ycc_tab.Cr = <<32768, -27439, -5329, CBCR_OFFSET + ONE_HALF - 1>>
    BY DEF rgb_ycc_tab
  <1>2. WeighedSum(rgb_ycc_tab.Y, p) = LumaSum(p[1], p[2], p[3])
    BY <1>1 DEF WeighedSum, LumaSum
  <1>3. WeighedSum(rgb_ycc_tab.Cb, p) = BlueSum(p[1], p[2], p[3])
    BY <1>1 DEF WeighedSum, BlueSum
  <1>4. WeighedSum(rgb_ycc_tab.Cr, p) = RedSum(p[1], p[2], p[3])
    BY <1>1 DEF WeighedSum, RedSum
  <1> QED
    BY <1>1, <1>2, <1>3, <1>4 DEF build_rgb_y_table

LEMMA ColourToYcc ==
    ASSUME NEW p, p[1] \in Samples, p[2] \in Samples, p[3] \in Samples
    PROVE  YccIs(p[1], p[2], p[3], Weighed(rgb_ycc_tab.Y, p), Weighed(rgb_ycc_tab.Cb, p),
                 Weighed(rgb_ycc_tab.Cr, p))
  <1>1. /\ SumFits(WeighedSum(rgb_ycc_tab.Y, p)) /\ SumFits(WeighedSum(rgb_ycc_tab.Cb, p))
        /\ SumFits(WeighedSum(rgb_ycc_tab.Cr, p))
    BY SumsFit, TableSums, Zenon
  <1>2. /\ WeighedIs(rgb_ycc_tab.Y, p) /\ WeighedIs(rgb_ycc_tab.Cb, p)
        /\ WeighedIs(rgb_ycc_tab.Cr, p)
    BY <1>1, WeighedFits, Zenon
  <1> QED
    BY <1>2, TableSums, Zenon DEF WeighedIs, YccIs

\* The sums back again differ from the colour by no more than d.
Near(a, b, d) == a - b <= d /\ b - a <= d

RedOf(cr) == 91881 * (cr - CENTERJSAMPLE) + ONE_HALF
GreenOf(cb, cr) == (-22554) * (cb - CENTERJSAMPLE) + ONE_HALF + (-46802) * (cr - CENTERJSAMPLE)
BlueOf(cb) == 116130 * (cb - CENTERJSAMPLE) + ONE_HALF

LEMMA YccBack ==
    ASSUME NEW r \in Samples, NEW g \in Samples, NEW b \in Samples,
           NEW y, NEW cb, NEW cr, YccIs(r, g, b, y, cb, cr),
           NEW cred \in Int, Rounded(cred, RedOf(cr)),
           NEW cgreen \in Int, Rounded(cgreen, GreenOf(cb, cr)),
           NEW cblue \in Int, Rounded(cblue, BlueOf(cb))
    PROVE  Near(y + cred, r, 1) /\ Near(y + cgreen, g, 1) /\ Near(y + cblue, b, 1)
  <1>1. y \in Samples /\ cb \in Samples /\ cr \in Samples
    BY DEF YccIs
  <1>2. Near(y + cred, r, 1)
    BY <1>1 DEF YccIs, LumaSum, BlueSum, RedSum, RedOf, GreenOf, BlueOf, Near, Rounded, Samples, MAXJSAMPLE, CBCR_OFFSET, ONE_HALF, SCALE, CENTERJSAMPLE
  <1>3. Near(y + cgreen, g, 1)
    BY <1>1 DEF YccIs, LumaSum, BlueSum, RedSum, RedOf, GreenOf, BlueOf, Near, Rounded, Samples, MAXJSAMPLE, CBCR_OFFSET, ONE_HALF, SCALE, CENTERJSAMPLE
  <1>4. Near(y + cblue, b, 1)
    BY <1>1 DEF YccIs, LumaSum, BlueSum, RedSum, RedOf, GreenOf, BlueOf, Near, Rounded, Samples, MAXJSAMPLE, CBCR_OFFSET, ONE_HALF, SCALE, CENTERJSAMPLE
  <1> QED
    BY <1>2, <1>3, <1>4

LEMMA HalvedIs ==
    ASSUME NEW v \in Samples
    PROVE  Halved(v) \in Samples /\ Near(2 * (Halved(v) - CENTERJSAMPLE), v - CENTERJSAMPLE, 1)
  BY DEF Halved, Samples, MAXJSAMPLE, CENTERJSAMPLE, Near

WideRedOf(cr) == 183763 * (cr - CENTERJSAMPLE) + ONE_HALF
WideGreenOf(cb, cr) ==
    (-45107) * (cb - CENTERJSAMPLE) + ONE_HALF + (-93603) * (cr - CENTERJSAMPLE)
WideBlueOf(cb) == 232260 * (cb - CENTERJSAMPLE) + ONE_HALF

LEMMA WideYccBack ==
    ASSUME NEW r \in Samples, NEW g \in Samples, NEW b \in Samples,
           NEW y, NEW cb, NEW cr, YccIs(r, g, b, y, cb, cr),
           NEW u \in Samples, Near(2 * (u - CENTERJSAMPLE), cb - CENTERJSAMPLE, 1),
           NEW v \in Samples, Near(2 * (v - CENTERJSAMPLE), cr - CENTERJSAMPLE, 1),
           NEW cred \in Int, Rounded(cred, WideRedOf(v)),
           NEW cgreen \in Int, Rounded(cgreen, WideGreenOf(u, v)),
           NEW cblue \in Int, Rounded(cblue, WideBlueOf(u))
    PROVE  Near(y + cred, r, 3) /\ Near(y + cgreen, g, 3) /\ Near(y + cblue, b, 3)
  <1>1. y \in Samples /\ cb \in Samples /\ cr \in Samples
    BY DEF YccIs
  <1>2. Near(y + cred, r, 3)
    BY <1>1 DEF YccIs, LumaSum, BlueSum, RedSum, WideRedOf, WideGreenOf, WideBlueOf, Near, Rounded, Samples, MAXJSAMPLE, CBCR_OFFSET, ONE_HALF, SCALE, CENTERJSAMPLE
  <1>3. Near(y + cgreen, g, 3)
    BY <1>1 DEF YccIs, LumaSum, BlueSum, RedSum, WideRedOf, WideGreenOf, WideBlueOf, Near, Rounded, Samples, MAXJSAMPLE, CBCR_OFFSET, ONE_HALF, SCALE, CENTERJSAMPLE
  <1>4. Near(y + cblue, b, 3)
    BY <1>1 DEF YccIs, LumaSum, BlueSum, RedSum, WideRedOf, WideGreenOf, WideBlueOf, Near, Rounded, Samples, MAXJSAMPLE, CBCR_OFFSET, ONE_HALF, SCALE, CENTERJSAMPLE
  <1> QED
    BY <1>2, <1>3, <1>4

LEMMA LimitNear ==
    ASSUME NEW low \in Int, NEW high \in Int, low <= -3, high >= 258,
           NEW v \in Int, NEW c \in Samples, NEW d \in 0..3, Near(v, c, d)
    PROVE  LimitTable(low, high, v) \in Samples /\ Distance(LimitTable(low, high, v), c) <= d
  <1>1. v \in low..high
    BY DEF Near, Samples, MAXJSAMPLE
  <1>2. CASE v < 0
    <2>1. LimitTable(low, high, v) = 0
      BY <1>1, <1>2 DEF LimitTable, MAXJSAMPLE
    <2> QED
      BY <1>2, <2>1 DEF Near, Samples, MAXJSAMPLE, Distance
  <1>3. CASE v \in Samples
    <2>1. LimitTable(low, high, v) = v
      BY <1>1, <1>3 DEF LimitTable, MAXJSAMPLE, Samples
    <2> QED
      BY <1>3, <2>1 DEF Near, Samples, MAXJSAMPLE, Distance
  <1>4. CASE v > MAXJSAMPLE
    <2>1. LimitTable(low, high, v) = MAXJSAMPLE
      BY <1>1, <1>4 DEF LimitTable, MAXJSAMPLE
    <2> QED
      BY <1>4, <2>1 DEF Near, Samples, MAXJSAMPLE, Distance
  <1> QED
    BY <1>2, <1>3, <1>4 DEF Samples, MAXJSAMPLE

ComesBack(got, wanted, d) ==
    /\ DOMAIN got = DOMAIN wanted
    /\ \A k \in DOMAIN wanted : got[k] \in Samples /\ Distance(got[k], wanted[k]) <= d

\* What the tables of jdcolor.c give.
LEMMA YccTables ==
    ASSUME NEW cb \in Samples, NEW cr \in Samples
    PROVE  LET t == build_ycc_rgb_table
           IN  /\ t.Cr_r[cr] = RedOf(cr) \div SCALE
               /\ (t.Cb_g[cb] + t.Cr_g[cr]) \div SCALE = GreenOf(cb, cr) \div SCALE
               /\ t.Cb_b[cb] = BlueOf(cb) \div SCALE
               /\ RedOf(cr) \in Int /\ GreenOf(cb, cr) \in Int /\ BlueOf(cb) \in Int
  <1> DEFINE t == build_ycc_rgb_table
  <1>1. /\ t.Cr_r = [c \in Samples |-> (91881 * (c - CENTERJSAMPLE) + ONE_HALF) \div SCALE]
        /\ t.Cb_b = [c \in Samples |-> (116130 * (c - CENTERJSAMPLE) + ONE_HALF) \div SCALE]
        /\ t.Cr_g = [c \in Samples |-> -46802 * (c - CENTERJSAMPLE)]
        /\ t.Cb_g = [c \in Samples |-> -22554 * (c - CENTERJSAMPLE) + ONE_HALF]
    BY DEF build_ycc_rgb_table, Samples
  <1> HIDE DEF t
  <1>2. t.Cr_r[cr] = RedOf(cr) \div SCALE /\ t.Cb_b[cb] = BlueOf(cb) \div SCALE
    BY <1>1 DEF RedOf, BlueOf
  <1>3. /\ t.Cr_g[cr] = -46802 * (cr - CENTERJSAMPLE)
        /\ t.Cb_g[cb] = -22554 * (cb - CENTERJSAMPLE) + ONE_HALF
    BY <1>1
  <1>4. t.Cb_g[cb] + t.Cr_g[cr] = GreenOf(cb, cr)
    BY <1>3 DEF GreenOf, Samples, MAXJSAMPLE, CENTERJSAMPLE, ONE_HALF
  <1>5. RedOf(cr) \in Int /\ GreenOf(cb, cr) \in Int /\ BlueOf(cb) \in Int
    BY DEF RedOf, GreenOf, BlueOf, Samples, MAXJSAMPLE, CENTERJSAMPLE, ONE_HALF
  <1> QED
    BY <1>2, <1>4, <1>5, Zenon DEF t

LEMMA WideYccTables ==
    ASSUME NEW cb \in Samples, NEW cr \in Samples
    PROVE  LET t == build_bg_ycc_rgb_table
           IN  /\ t.Cr_r[cr] = WideRedOf(cr) \div SCALE
               /\ (t.Cb_g[cb] + t.Cr_g[cr]) \div SCALE = WideGreenOf(cb, cr) \div SCALE
               /\ t.Cb_b[cb] = WideBlueOf(cb) \div SCALE
               /\ WideRedOf(cr) \in Int /\ WideGreenOf(cb, cr) \in Int /\ WideBlueOf(cb) \in Int
  <1> DEFINE t == build_bg_ycc_rgb_table
  <1>1. /\ t.Cr_r = [c \in Samples |-> (183763 * (c - CENTERJSAMPLE) + ONE_HALF) \div SCALE]
        /\ t.Cb_b = [c \in Samples |-> (232260 * (c - CENTERJSAMPLE) + ONE_HALF) \div SCALE]
        /\ t.Cr_g = [c \in Samples |-> -93603 * (c - CENTERJSAMPLE)]
        /\ t.Cb_g = [c \in Samples |-> -45107 * (c - CENTERJSAMPLE) + ONE_HALF]
    BY DEF build_bg_ycc_rgb_table, Samples
  <1> HIDE DEF t
  <1>2. t.Cr_r[cr] = WideRedOf(cr) \div SCALE /\ t.Cb_b[cb] = WideBlueOf(cb) \div SCALE
    BY <1>1 DEF WideRedOf, WideBlueOf
  <1>3. /\ t.Cr_g[cr] = -93603 * (cr - CENTERJSAMPLE)
        /\ t.Cb_g[cb] = -45107 * (cb - CENTERJSAMPLE) + ONE_HALF
    BY <1>1
  <1>4. t.Cb_g[cb] + t.Cr_g[cr] = WideGreenOf(cb, cr)
    BY <1>3 DEF WideGreenOf, Samples, MAXJSAMPLE, CENTERJSAMPLE, ONE_HALF
  <1>5. WideRedOf(cr) \in Int /\ WideGreenOf(cb, cr) \in Int /\ WideBlueOf(cb) \in Int
    BY DEF WideRedOf, WideGreenOf, WideBlueOf, Samples, MAXJSAMPLE, CENTERJSAMPLE, ONE_HALF
  <1> QED
    BY <1>2, <1>4, <1>5, Zenon DEF t

SumsNear(sums, r, g, b, d) ==
    /\ sums[1] \in Int /\ Near(sums[1], r, d)
    /\ sums[2] \in Int /\ Near(sums[2], g, d)
    /\ sums[3] \in Int /\ Near(sums[3], b, d)

LEMMA ThreeSums ==
    ASSUME NEW t, NEW p
    PROVE  /\ YccSums(t, p)[1] = p[1] + t.Cr_r[p[3]]
           /\ YccSums(t, p)[2] = p[1] + ((t.Cb_g[p[2]] + t.Cr_g[p[3]]) \div SCALE)
           /\ YccSums(t, p)[3] = p[1] + t.Cb_b[p[2]]
  BY DEF YccSums

LEMMA YccSumsBack ==
    ASSUME NEW r \in Samples, NEW g \in Samples, NEW b \in Samples, NEW p,
           YccIs(r, g, b, p[1], p[2], p[3])
    PROVE  SumsNear(YccSums(build_ycc_rgb_table, p), r, g, b, 1)
  <1> DEFINE cred == RedOf(p[3]) \div SCALE
             cgreen == GreenOf(p[2], p[3]) \div SCALE
             cblue == BlueOf(p[2]) \div SCALE
             sums == YccSums(build_ycc_rgb_table, p)
  <1>1. p[1] \in Samples /\ p[2] \in Samples /\ p[3] \in Samples
    BY Zenon DEF YccIs
  <1>2. sums[1] = p[1] + cred /\ sums[2] = p[1] + cgreen /\ sums[3] = p[1] + cblue
    <2> DEFINE t == build_ycc_rgb_table
    <2>1. /\ t.Cr_r[p[3]] = cred /\ t.Cb_b[p[2]] = cblue
          /\ (t.Cb_g[p[2]] + t.Cr_g[p[3]]) \div SCALE = cgreen
      BY <1>1, YccTables, Zenon
    <2>2. /\ sums[1] = p[1] + t.Cr_r[p[3]]
          /\ sums[2] = p[1] + ((t.Cb_g[p[2]] + t.Cr_g[p[3]]) \div SCALE)
          /\ sums[3] = p[1] + t.Cb_b[p[2]]
      BY ThreeSums, Zenon
    <2> HIDE DEF t, sums, cred, cblue, cgreen
    <2> QED
      BY <2>1, <2>2, Zenon
  <1>3. /\ cred \in Int /\ Rounded(cred, RedOf(p[3]))
        /\ cgreen \in Int /\ Rounded(cgreen, GreenOf(p[2], p[3]))
        /\ cblue \in Int /\ Rounded(cblue, BlueOf(p[2]))
    BY <1>1, YccTables, RoundedIs, Zenon
  <1> HIDE DEF sums, cred, cgreen, cblue
  <1>4. /\ Near(p[1] + cred, r, 1) /\ Near(p[1] + cgreen, g, 1) /\ Near(p[1] + cblue, b, 1)
    BY <1>3, YccBack, Zenon
  <1>5. p[1] + cred \in Int /\ p[1] + cgreen \in Int /\ p[1] + cblue \in Int
    BY <1>1, <1>3 DEF Samples, MAXJSAMPLE
  <1> QED
    BY <1>2, <1>4, <1>5, Zenon DEF SumsNear, sums

LEMMA WideYccSumsBack ==
    ASSUME NEW r \in Samples, NEW g \in Samples, NEW b \in Samples,
           NEW y, NEW cb, NEW cr, YccIs(r, g, b, y, cb, cr),
           NEW p, p[1] = y, p[2] = Halved(cb), p[3] = Halved(cr)
    PROVE  SumsNear(YccSums(build_bg_ycc_rgb_table, p), r, g, b, 3)
  <1> DEFINE cred == WideRedOf(p[3]) \div SCALE
             cgreen == WideGreenOf(p[2], p[3]) \div SCALE
             cblue == WideBlueOf(p[2]) \div SCALE
             sums == YccSums(build_bg_ycc_rgb_table, p)
  <1>1. /\ p[1] \in Samples /\ p[2] \in Samples /\ p[3] \in Samples
        /\ Near(2 * (p[2] - CENTERJSAMPLE), cb - CENTERJSAMPLE, 1)
        /\ Near(2 * (p[3] - CENTERJSAMPLE), cr - CENTERJSAMPLE, 1)
    BY HalvedIs, Zenon DEF YccIs
  <1>2. sums[1] = p[1] + cred /\ sums[2] = p[1] + cgreen /\ sums[3] = p[1] + cblue
    <2> DEFINE t == build_bg_ycc_rgb_table
    <2>1. /\ t.Cr_r[p[3]] = cred /\ t.Cb_b[p[2]] = cblue
          /\ (t.Cb_g[p[2]] + t.Cr_g[p[3]]) \div SCALE = cgreen
      BY <1>1, WideYccTables, Zenon
    <2>2. /\ sums[1] = p[1] + t.Cr_r[p[3]]
          /\ sums[2] = p[1] + ((t.Cb_g[p[2]] + t.Cr_g[p[3]]) \div SCALE)
          /\ sums[3] = p[1] + t.Cb_b[p[2]]
      BY ThreeSums, Zenon
    <2> HIDE DEF t, sums, cred, cblue, cgreen
    <2> QED
      BY <2>1, <2>2, Zenon
  <1>3. /\ cred \in Int /\ Rounded(cred, WideRedOf(p[3]))
        /\ cgreen \in Int /\ Rounded(cgreen, WideGreenOf(p[2], p[3]))
        /\ cblue \in Int /\ Rounded(cblue, WideBlueOf(p[2]))
    BY <1>1, WideYccTables, RoundedIs, Zenon
  <1> HIDE DEF sums, cred, cgreen, cblue
  <1>4. /\ Near(p[1] + cred, r, 3) /\ Near(p[1] + cgreen, g, 3) /\ Near(p[1] + cblue, b, 3)
    <2>1. /\ Near(y + cred, r, 3) /\ Near(y + cgreen, g, 3) /\ Near(y + cblue, b, 3)
      BY <1>1, <1>3, WideYccBack, Zenon
    <2> QED
      BY <2>1, Zenon
  <1>5. p[1] + cred \in Int /\ p[1] + cgreen \in Int /\ p[1] + cblue \in Int
    BY <1>1, <1>3 DEF Samples, MAXJSAMPLE
  <1> QED
    BY <1>2, <1>4, <1>5, Zenon DEF SumsNear, sums

-----------------------------------------------------------------------------
(* Pixels there and back. *)

\* What the file has of a converted pixel c, with the components of H halved.
Stored(H, n, c) == [k \in 1..n |-> IF k \in H THEN Halved(c[k]) ELSE c[k]]

LEMMA StoredWhole ==
    ASSUME NEW n, NEW c
    PROVE  Stored({}, n, c) = [k \in 1..n |-> c[k]]
  BY DEF Stored

LEMMA SameLevel ==
    ASSUME NEW v \in Samples, NEW d \in Nat
    PROVE  Distance(v, v) <= d
  BY DEF Samples, MAXJSAMPLE, Distance

LEMMA SameComesBack ==
    ASSUME NEW wanted, \A k \in DOMAIN wanted : wanted[k] \in Samples, NEW d \in Nat
    PROVE  ComesBack(wanted, wanted, d)
  BY SameLevel, Zenon DEF ComesBack

LEMMA NullReturns ==
    ASSUME NEW n \in Nat, NEW p \in [1..n -> Samples]
    PROVE  ComesBack(color_deconvert("null", Stored({}, n, color_convert("null", p))), p, 0)
  <1>1. color_convert("null", p) = p
    BY DEF color_convert, null_convert
  <1>2. Stored({}, n, p) = p
    BY StoredWhole
  <1>3. color_deconvert("null", p) = p
    BY DEF color_deconvert, d_null_convert
  <1>4. ComesBack(p, p, 0)
    <2>1. \A k \in DOMAIN p : p[k] \in Samples
      OBVIOUS
    <2>2. 0 \in Nat
      OBVIOUS
    <2> QED
      BY <2>1, <2>2, SameComesBack, Zenon
  <1> QED
    BY <1>1, <1>2, <1>3, <1>4, Zenon

\* Three samples.
Triple(q, a, b, c) == q[1] = a /\ q[2] = b /\ q[3] = c

LEMMA StoredThree ==
    ASSUME NEW a, NEW b, NEW c
    PROVE  Triple(Stored({}, 3, <<a, b, c>>), a, b, c)
  <1>1. Stored({}, 3, <<a, b, c>>) = [k \in 1..3 |-> <<a, b, c>>[k]]
    BY DEF Stored
  <1> QED
    BY <1>1 DEF Triple

LEMMA StoredHalved ==
    ASSUME NEW a, NEW b, NEW c
    PROVE  Triple(Stored({2, 3}, 3, <<a, b, c>>), a, Halved(b), Halved(c))
  <1> DEFINE s == <<a, b, c>>
             q == Stored({2, 3}, 3, s)
  <1>1. s[1] = a /\ s[2] = b /\ s[3] = c
    OBVIOUS
  <1> HIDE DEF s
  <1>2. q = [k \in 1..3 |-> IF k \in {2, 3} THEN Halved(s[k]) ELSE s[k]]
    BY Zenon DEF Stored
  <1> HIDE DEF q
  <1>3. q[1] = s[1] /\ q[2] = Halved(s[2]) /\ q[3] = Halved(s[3])
    BY <1>2
  <1> QED
    BY <1>1, <1>3, Zenon DEF q, s, Triple

LEMMA LimitedNear ==
    ASSUME NEW low \in Int, NEW high \in Int, low <= -3, high >= 258,
           NEW sums, NEW p \in [1..3 -> Samples], NEW d \in 0..3,
           SumsNear(sums, p[1], p[2], p[3], d)
    PROVE  ComesBack([k \in 1..3 |-> LimitTable(low, high, sums[k])], p, d)
  <1>1. DOMAIN p = 1..3
    OBVIOUS
  <1>2. ASSUME NEW k \in 1..3
        PROVE  /\ LimitTable(low, high, sums[k]) \in Samples
               /\ Distance(LimitTable(low, high, sums[k]), p[k]) <= d
    <2>1. p[k] \in Samples
      OBVIOUS
    <2>2. sums[k] \in Int /\ Near(sums[k], p[k], d)
      BY DEF SumsNear
    <2> QED
      BY <2>1, <2>2, LimitNear, Zenon
  <1> QED
    BY <1>1, <1>2, Zenon DEF ComesBack

LEMMA LimitsAre ==
    /\ \A v : sample_range_limit(v) = LimitTable(-256, 639, v)
    /\ \A v : bg_range_limit(v) = LimitTable(-512, 767, v)
  BY DEF sample_range_limit, bg_range_limit

\* A colour in YCbCr.
LEMMA YccPixelIs ==
    ASSUME NEW p \in [1..3 -> Samples]
    PROVE  \E y, cb, cr : rgb_ycc_convert(p) = <<y, cb, cr>> /\ YccIs(p[1], p[2], p[3], y, cb, cr)
  <1>1. p[1] \in Samples /\ p[2] \in Samples /\ p[3] \in Samples
    OBVIOUS
  <1> QED
    BY <1>1, ColourToYcc, Zenon DEF rgb_ycc_convert

LEMMA YccReturns ==
    ASSUME NEW p \in [1..3 -> Samples]
    PROVE  ComesBack(color_deconvert("ycc_rgb", Stored({}, 3, color_convert("rgb_ycc", p))), p, 1)
  <1>1. PICK y, cb, cr : /\ rgb_ycc_convert(p) = <<y, cb, cr>>
                         /\ YccIs(p[1], p[2], p[3], y, cb, cr)
    BY YccPixelIs, Zenon
  <1> DEFINE q == Stored({}, 3, <<y, cb, cr>>)
             sums == YccSums(build_ycc_rgb_table, q)
  <1>2. color_convert("rgb_ycc", p) = <<y, cb, cr>>
    BY <1>1 DEF color_convert
  <1>3. q[1] = y /\ q[2] = cb /\ q[3] = cr
    <2>1. Triple(q, y, cb, cr)
      BY StoredThree, Zenon
    <2> HIDE DEF q
    <2> QED
      BY <2>1, Zenon DEF Triple
  <1> HIDE DEF q
  <1>4. p[1] \in Samples /\ p[2] \in Samples /\ p[3] \in Samples
    OBVIOUS
  <1>5. SumsNear(sums, p[1], p[2], p[3], 1)
    BY <1>1, <1>3, <1>4, YccSumsBack, Zenon
  <1>6. color_deconvert("ycc_rgb", q) = ycc_rgb_convert(q)
    BY DEF color_deconvert
  <1>7. ycc_rgb_convert(q) = [k \in 1..3 |-> LimitTable(-256, 639, sums[k])]
    BY LimitsAre, Zenon DEF ycc_rgb_convert
  <1> HIDE DEF sums
  <1>8. ComesBack([k \in 1..3 |-> LimitTable(-256, 639, sums[k])], p, 1)
    BY <1>5, LimitedNear
  <1> QED
    BY <1>2, <1>6, <1>7, <1>8, Zenon DEF q

LEMMA WideYccReturns ==
    ASSUME NEW p \in [1..3 -> Samples]
    PROVE  ComesBack(color_deconvert("bg_ycc_rgb",
                                     Stored({2, 3}, 3, color_convert("rgb_ycc", p))), p, 3)
  <1>1. PICK y, cb, cr : /\ rgb_ycc_convert(p) = <<y, cb, cr>>
                         /\ YccIs(p[1], p[2], p[3], y, cb, cr)
    BY YccPixelIs, Zenon
  <1> DEFINE q == Stored({2, 3}, 3, <<y, cb, cr>>)
             sums == YccSums(build_bg_ycc_rgb_table, q)
  <1>2. color_convert("rgb_ycc", p) = <<y, cb, cr>>
    BY <1>1 DEF color_convert
  <1>3. q[1] = y /\ q[2] = Halved(cb) /\ q[3] = Halved(cr)
    <2>1. Triple(q, y, Halved(cb), Halved(cr))
      BY StoredHalved, Zenon
    <2> HIDE DEF q
    <2> QED
      BY <2>1, Zenon DEF Triple
  <1> HIDE DEF q
  <1>4. p[1] \in Samples /\ p[2] \in Samples /\ p[3] \in Samples
    OBVIOUS
  <1>5. SumsNear(sums, p[1], p[2], p[3], 3)
    BY <1>1, <1>3, <1>4, WideYccSumsBack, Zenon
  <1>6. color_deconvert("bg_ycc_rgb", q) = bg_ycc_rgb_convert(q)
    BY DEF color_deconvert
  <1>7. bg_ycc_rgb_convert(q) = [k \in 1..3 |-> LimitTable(-512, 767, sums[k])]
    BY LimitsAre, Zenon DEF bg_ycc_rgb_convert
  <1> HIDE DEF sums
  <1>8. ComesBack([k \in 1..3 |-> LimitTable(-512, 767, sums[k])], p, 3)
    BY <1>5, LimitedNear
  <1> QED
    BY <1>2, <1>6, <1>7, <1>8, Zenon DEF q

\* Luminance alone, by whichever converter.
LumaOf(p) == <<Weighed(rgb_ycc_tab.Y, p)>>

LEMMA LumaFits ==
    ASSUME NEW p \in [1..3 -> Samples], NEW d \in Nat
    PROVE  ComesBack(LumaOf(p), LumaOf(p), d)
  <1>1. p[1] \in Samples /\ p[2] \in Samples /\ p[3] \in Samples
    OBVIOUS
  <1>2. Weighed(rgb_ycc_tab.Y, p) \in Samples
    BY <1>1, ColourToYcc, Zenon DEF YccIs
  <1>3. \A k \in DOMAIN LumaOf(p) : LumaOf(p)[k] \in Samples
    BY <1>2 DEF LumaOf
  <1> QED
    BY <1>3, SameComesBack, Zenon

LEMMA LumaOfYcc ==
    ASSUME NEW p \in [1..3 -> Samples], NEW H \in {{}, {2, 3}}
    PROVE  color_deconvert("grayscale", Stored(H, 3, color_convert("rgb_ycc", p))) = LumaOf(p)
  <1> DEFINE y == Weighed(rgb_ycc_tab.Y, p)
             cb == Weighed(rgb_ycc_tab.Cb, p)
             cr == Weighed(rgb_ycc_tab.Cr, p)
             q == Stored(H, 3, <<y, cb, cr>>)
  <1>1. color_convert("rgb_ycc", p) = <<y, cb, cr>>
    BY DEF color_convert, rgb_ycc_convert
  <1>2. q[1] = y
    <2>1. CASE H = {}
      <3>1. Triple(q, y, cb, cr)
        BY <2>1, StoredThree, Zenon
      <3> HIDE DEF q
      <3> QED
        BY <3>1, Zenon DEF Triple
    <2>2. CASE H = {2, 3}
      <3>1. Triple(q, y, Halved(cb), Halved(cr))
        BY <2>2, StoredHalved, Zenon
      <3> HIDE DEF q
      <3> QED
        BY <3>1, Zenon DEF Triple
    <2> QED
      BY <2>1, <2>2
  <1> HIDE DEF q
  <1>3. color_deconvert("grayscale", q) = <<q[1]>>
    BY DEF color_deconvert, d_grayscale_convert
  <1> QED
    BY <1>1, <1>2, <1>3, Zenon DEF q, LumaOf
LEMMA ThreeIs ==
    ASSUME NEW p \in [1..3 -> Samples]
    PROVE  Stored({}, 3, <<p[1], p[2], p[3]>>) = p /\ <<p[1], p[2], p[3]>> = p
  <1>1. <<p[1], p[2], p[3]>> = p
    OBVIOUS
  <1>2. Stored({}, 3, p) = p
    BY StoredWhole
  <1> QED
    BY <1>1, <1>2, Zenon

LEMMA RgbReturns ==
    ASSUME NEW p \in [1..3 -> Samples]
    PROVE  /\ color_deconvert("rgb", Stored({}, 3, color_convert("rgb", p))) = p
           /\ color_deconvert("rgb_gray", Stored({}, 3, color_convert("rgb", p))) = LumaOf(p)
  <1>1. color_convert("rgb", p) = <<p[1], p[2], p[3]>>
    BY DEF color_convert, rgb_convert
  <1>2. color_deconvert("rgb", p) = <<p[1], p[2], p[3]>>
    BY DEF color_deconvert, d_rgb_convert
  <1>3. color_deconvert("rgb_gray", p) = LumaOf(p)
    <2>1. color_deconvert("rgb_gray", p) = <<Weighed(build_rgb_y_table, p)>>
      BY DEF color_deconvert, d_rgb_gray_convert
    <2> QED
      BY <2>1, TableSums, Zenon DEF LumaOf
  <1> QED
    BY <1>1, <1>2, <1>3, ThreeIs, Zenon

\* The reversible transform of jccolor.c:285-292.
LEMMA ModuloBack ==
    ASSUME NEW a \in Samples, NEW b \in Samples
    PROVE  Sample(Sample(a - b + CENTERJSAMPLE) + b - CENTERJSAMPLE) = a
  <1> DEFINE u == a - b + CENTERJSAMPLE
             q == u \div 256
             s == u % 256
  <1>1. u \in Int /\ 256 \in Nat \ {0}
    BY DEF Samples, MAXJSAMPLE, CENTERJSAMPLE
  <1> HIDE DEF u
  <1>2. q \in Int /\ s \in 0..255 /\ u = q * 256 + s
    BY <1>1, SMTT(30)
  <1> HIDE DEF q, s
  <1>3. q \in {-1, 0, 1}
    BY <1>1, <1>2 DEF u, Samples, MAXJSAMPLE, CENTERJSAMPLE
  <1>4. Sample(u) = s
    BY DEF Sample, MAXJSAMPLE, s
  <1>5. s + b - CENTERJSAMPLE = a - q * 256
    BY <1>1, <1>2, <1>3 DEF u, Samples, MAXJSAMPLE, CENTERJSAMPLE
  <1>6. Sample(a - q * 256) = a
    BY <1>3, SMTT(30) DEF Sample, Samples, MAXJSAMPLE
  <1> QED
    BY <1>4, <1>5, <1>6, Zenon DEF u

LEMMA SubtractedReturns ==
    ASSUME NEW p \in [1..3 -> Samples]
    PROVE  LET q == Stored({}, 3, color_convert("rgb_rgb1", p))
           IN  color_deconvert("rgb1_rgb", q) = p /\ color_deconvert("rgb1_gray", q) = LumaOf(p)
  <1> DEFINE a == Sample(p[1] - p[2] + CENTERJSAMPLE)
             c == Sample(p[3] - p[2] + CENTERJSAMPLE)
             q == Stored({}, 3, <<a, p[2], c>>)
  <1>1. color_convert("rgb_rgb1", p) = <<a, p[2], c>>
    BY DEF color_convert, rgb_rgb1_convert
  <1>2. Triple(q, a, p[2], c)
    BY StoredThree, Zenon
  <1>3. p[1] \in Samples /\ p[2] \in Samples /\ p[3] \in Samples
    OBVIOUS
  <1>4. /\ Sample(a + p[2] - CENTERJSAMPLE) = p[1]
        /\ Sample(c + p[2] - CENTERJSAMPLE) = p[3]
    BY <1>3, ModuloBack, Zenon
  <1> HIDE DEF q, a, c
  <1>5. rgb1_rgb_convert(q) = <<p[1], p[2], p[3]>>
    BY <1>2, <1>4, Zenon DEF Triple, rgb1_rgb_convert
  <1>6. rgb1_rgb_convert(q) = p
    BY <1>5, ThreeIs, Zenon
  <1>7. color_deconvert("rgb1_rgb", q) = rgb1_rgb_convert(q)
    BY DEF color_deconvert
  <1>8. color_deconvert("rgb1_gray", q) = <<Weighed(build_rgb_y_table, rgb1_rgb_convert(q))>>
    BY DEF color_deconvert, rgb1_gray_convert
  <1>9. <<Weighed(build_rgb_y_table, p)>> = LumaOf(p)
    BY TableSums, Zenon DEF LumaOf
  <1> QED
    BY <1>1, <1>6, <1>7, <1>8, <1>9, Zenon DEF q

\* One sample.
LEMMA StoredOne ==
    ASSUME NEW a
    PROVE  Stored({}, 1, <<a>>) = <<a>>
  <1>1. Stored({}, 1, <<a>>) = [k \in 1..1 |-> <<a>>[k]]
    BY StoredWhole, Zenon
  <1> QED
    BY <1>1

LEMMA GrayReturns ==
    ASSUME NEW p, NEW cc, NEW a, color_convert(cc, p) = <<a>>
    PROVE  /\ color_deconvert("grayscale", Stored({}, 1, color_convert(cc, p))) = <<a>>
           /\ color_deconvert("gray_rgb", Stored({}, 1, color_convert(cc, p))) = <<a, a, a>>
  <1> DEFINE q == <<a>>
  <1>1. q[1] = a
    OBVIOUS
  <1>2. Stored({}, 1, color_convert(cc, p)) = q
    BY StoredOne, Zenon
  <1> HIDE DEF q
  <1>3. color_deconvert("grayscale", q) = <<q[1]>>
    BY DEF color_deconvert, d_grayscale_convert
  <1>4. color_deconvert("gray_rgb", q) = <<q[1], q[1], q[1]>>
    BY DEF color_deconvert, gray_rgb_convert
  <1> QED
    BY <1>1, <1>2, <1>3, <1>4, Zenon

LEMMA GrayConverters ==
    ASSUME NEW p
    PROVE  /\ color_convert("grayscale", p) = <<p[1]>>
           /\ color_convert("rgb_gray", p) = LumaOf(p)
           /\ rgb_gray_convert(p) = LumaOf(p)
  BY DEF color_convert, grayscale_convert, rgb_gray_convert, LumaOf

\* Four samples.
Quadruple(u, f, z) == /\ DOMAIN u = 1..4 /\ \A k \in 1..3 : u[k] = f[k]
                      /\ u[4] = z

LEMMA FourIs ==
    ASSUME NEW f, f = [k \in 1..3 |-> f[k]], NEW z
    PROVE  Quadruple(f \o <<z>>, f, z)
  <1> DEFINE t == <<z>>
             u == f \o t
  <1>1. t = [k \in 1..1 |-> t[k]] /\ t[1] = z
    OBVIOUS
  <1>2. 3 \in Nat /\ 1 \in Nat
    OBVIOUS
  <1> HIDE DEF t
  <1>3. JoinedRows(f, t, 3, 1)
    BY <1>1, <1>2, JoinedRowsAre, Zenon
  <1>4. u = [k \in 1..(3 + 1) |-> IF k <= 3 THEN f[k] ELSE t[k - 3]]
    BY <1>3, Zenon DEF JoinedRows
  <1> HIDE DEF u
  <1>5. DOMAIN u = 1..4 /\ (\A k \in 1..3 : u[k] = f[k]) /\ u[4] = t[1]
    BY <1>4
  <1> QED
    BY <1>1, <1>5, Zenon DEF Quadruple, u, t

Negative(p) == [k \in 1..3 |-> MAXJSAMPLE - p[k]]

\* Colours of four components through YCCK.
LEMMA YcckReturns ==
    ASSUME NEW p \in [1..4 -> Samples]
    PROVE  ComesBack(color_deconvert("ycck_cmyk",
                                     Stored({}, 4, color_convert("cmyk_ycck", p))), p, 1)
  <1> DEFINE n == Negative(p)
             c == rgb_ycc_convert(n) \o <<p[4]>>
             q == Stored({}, 4, c)
             sums == YccSums(build_ycc_rgb_table, q)
             back == [k \in 1..3 |-> sample_range_limit(MAXJSAMPLE - sums[k])]
  <1>1. n \in [1..3 -> Samples] /\ \A k \in 1..3 : n[k] = 255 - p[k]
    <2>1. \A v \in Samples : 255 - v \in Samples
      BY DEF Samples, MAXJSAMPLE
    <2>2. \A k \in 1..3 : p[k] \in Samples
      OBVIOUS
    <2>3. n = [k \in 1..3 |-> 255 - p[k]]
      BY DEF Negative, MAXJSAMPLE
    <2> HIDE DEF n
    <2> QED
      BY <2>1, <2>2, <2>3
  <1>2. color_convert("cmyk_ycck", p) = c
    BY DEF color_convert, cmyk_ycck_convert, Negative
  <1> HIDE DEF n
  <1>3. PICK y, cb, cr : /\ rgb_ycc_convert(n) = <<y, cb, cr>>
                         /\ YccIs(n[1], n[2], n[3], y, cb, cr)
    BY <1>1, YccPixelIs, Zenon
  <1>4. Quadruple(c, <<y, cb, cr>>, p[4])
    <2> DEFINE f == <<y, cb, cr>>
    <2>1. f = [k \in 1..3 |-> f[k]]
      OBVIOUS
    <2> HIDE DEF f
    <2> QED
      BY <1>3, <2>1, FourIs, Zenon DEF f
  <1>5. c[1] = y /\ c[2] = cb /\ c[3] = cr /\ c[4] = p[4]
    <2> HIDE DEF c
    <2> QED
      BY <1>4 DEF Quadruple
  <1> HIDE DEF c
  <1>6. q[1] = y /\ q[2] = cb /\ q[3] = cr /\ q[4] = p[4]
    <2>1. q = [k \in 1..4 |-> c[k]]
      BY DEF Stored
    <2> HIDE DEF q
    <2> QED
      BY <1>5, <2>1
  <1> HIDE DEF q
  <1>7. n[1] \in Samples /\ n[2] \in Samples /\ n[3] \in Samples
    BY <1>1
  <1>8. SumsNear(sums, n[1], n[2], n[3], 1)
    BY <1>3, <1>6, <1>7, YccSumsBack, Zenon
  <1>9. color_deconvert("ycck_cmyk", q) = back \o <<q[4]>>
    BY DEF color_deconvert, ycck_cmyk_convert
  <1> HIDE DEF sums
  <1>10. ASSUME NEW k \in 1..3
         PROVE  back[k] \in Samples /\ Distance(back[k], p[k]) <= 1
    <2> DEFINE s == MAXJSAMPLE - sums[k]
    <2>1. n[k] = 255 - p[k] /\ p[k] \in Samples
      BY <1>1
    <2>2. sums[k] \in Int /\ Near(sums[k], n[k], 1)
      BY <1>8 DEF SumsNear
    <2>3. s \in Int /\ Near(s, p[k], 1)
      BY <2>1, <2>2 DEF Near, MAXJSAMPLE, Samples
    <2>4. back[k] = LimitTable(-256, 639, s)
      BY LimitsAre, Zenon
    <2> HIDE DEF s, back
    <2>5. LimitTable(-256, 639, s) \in Samples /\ Distance(LimitTable(-256, 639, s), p[k]) <= 1
      BY <2>1, <2>3, LimitNear
    <2> QED
      BY <2>4, <2>5
  <1>11. Quadruple(back \o <<p[4]>>, back, p[4])
    <2>1. back = [k \in 1..3 |-> back[k]]
      BY Zenon
    <2> HIDE DEF back
    <2> QED
      BY <2>1, FourIs, Zenon
  <1> DEFINE got == back \o <<p[4]>>
  <1> HIDE DEF back
  <1>12. got[4] \in Samples /\ Distance(got[4], p[4]) <= 1
    <2>1. got[4] = p[4] /\ p[4] \in Samples /\ 1 \in Nat
      BY <1>11 DEF Quadruple
    <2> HIDE DEF got
    <2> QED
      BY <2>1, SameLevel, Zenon
  <1>13. \A k \in 1..3 : got[k] \in Samples /\ Distance(got[k], p[k]) <= 1
    BY <1>10, <1>11, Zenon DEF Quadruple
  <1>14. DOMAIN got = 1..4 /\ DOMAIN p = 1..4
    BY <1>11, Zenon DEF Quadruple
  <1> HIDE DEF got
  <1>15. ComesBack(got, p, 1)
    <2>1. \A k \in 1..4 : k = 4 \/ k \in 1..3
      OBVIOUS
    <2> QED
      BY <1>12, <1>13, <1>14, <2>1, Zenon DEF ComesBack
  <1> QED
    BY <1>2, <1>6, <1>9, <1>15, Zenon DEF q, got
-----------------------------------------------------------------------------
(* Every pair of conversions. *)

\* The conversions of an image that is wanted back, with the number of components
\* of the file and those that are halved.
Pair(in, to, cc, dc, n, H) ==
    \/ /\ in = "GRAYSCALE" /\ to = "GRAYSCALE"
       /\ cc = "grayscale" /\ dc = "grayscale" /\ n = 1 /\ H = {}
    \/ /\ in = "GRAYSCALE" /\ to = "RGB"
       /\ cc = "grayscale" /\ dc = "gray_rgb" /\ n = 1 /\ H = {}
    \/ /\ in = "RGB" /\ to = "GRAYSCALE"
       /\ cc = "rgb_gray" /\ dc = "grayscale" /\ n = 1 /\ H = {}
    \/ /\ in = "RGB" /\ to = "RGB"
       /\ cc = "rgb_gray" /\ dc = "gray_rgb" /\ n = 1 /\ H = {}
    \/ /\ in = "RGB" /\ to = "GRAYSCALE"
       /\ cc = "rgb" /\ dc = "rgb_gray" /\ n = 3 /\ H = {}
    \/ /\ in = "RGB" /\ to = "GRAYSCALE"
       /\ cc = "rgb_rgb1" /\ dc = "rgb1_gray" /\ n = 3 /\ H = {}
    \/ /\ in = "RGB" /\ to = "GRAYSCALE"
       /\ cc = "rgb_ycc" /\ dc = "grayscale" /\ n = 3 /\ H \in {{}, {2, 3}}
    \/ /\ in = "RGB" /\ to = "RGB"
       /\ cc = "rgb_ycc" /\ dc = "ycc_rgb" /\ n = 3 /\ H = {}
    \/ /\ in = "RGB" /\ to = "RGB"
       /\ cc = "rgb_ycc" /\ dc = "bg_ycc_rgb" /\ n = 3 /\ H = {2, 3}
    \/ /\ in \in RgbSpaces /\ to = in
       /\ cc = "rgb" /\ dc = "rgb" /\ n = 3 /\ H = {}
    \/ /\ in \in RgbSpaces /\ to = in
       /\ cc = "rgb_rgb1" /\ dc = "rgb1_rgb" /\ n = 3 /\ H = {}
    \/ /\ in \in {"YCbCr", "BG_YCC", "CMYK", "YCCK"} /\ to = in
       /\ cc = "null" /\ dc = "null" /\ n = num_components(in) /\ H = {}
    \/ /\ in = "CMYK" /\ to = "CMYK"
       /\ cc = "cmyk_ycck" /\ dc = "ycck_cmyk" /\ n = 4 /\ H = {}

LEMMA PairIs ==
    ASSUME NEW in \in Spaces, NEW jpeg \in Spaces, NEW to \in Spaces, NEW xf,
           NEW cc, cc = jinit_color_converter(in, jpeg, xf), cc # "error",
           NEW dc, dc = jinit_color_deconverter(jpeg, xf, to), dc # "error",
           <<in, to>> \in {<<"RGB", "GRAYSCALE">>, <<"GRAYSCALE", "RGB">>, <<to, to>>}
    PROVE  Pair(in, to, cc, dc, num_components(jpeg), HalvedComponents(in, jpeg))
  <1>1. \/ in = "RGB" /\ to = "GRAYSCALE"
        \/ in = "GRAYSCALE" /\ to = "RGB"
        \/ in = to
    OBVIOUS
  <1>2. CASE in = "GRAYSCALE"
    <2>1. to \in {"GRAYSCALE", "RGB"}
      BY <1>1, <1>2
    <2>2. jpeg = "GRAYSCALE"
      BY <1>2 DEF jinit_color_converter, Spaces, RgbSpaces
    <2> QED
      BY <1>2, <2>1, <2>2 DEF jinit_color_converter, jinit_color_deconverter, Pair, Spaces,
         RgbSpaces, num_components, HalvedComponents
  <1>3. CASE in = "RGB"
    <2>1. to \in {"GRAYSCALE", "RGB"}
      BY <1>1, <1>3
    <2>2. jpeg \in {"GRAYSCALE", "RGB", "YCbCr", "BG_YCC"}
      BY <1>3 DEF jinit_color_converter, Spaces, RgbSpaces
    <2>3. CASE jpeg = "GRAYSCALE"
      BY <1>3, <2>1, <2>3 DEF jinit_color_converter, jinit_color_deconverter, Pair, Spaces,
         RgbSpaces, num_components, HalvedComponents
    <2>4. CASE jpeg = "RGB"
      BY <1>3, <2>1, <2>4 DEF jinit_color_converter, jinit_color_deconverter, Pair, Spaces,
         RgbSpaces, num_components, HalvedComponents
    <2>5. CASE jpeg = "YCbCr"
      BY <1>3, <2>1, <2>5 DEF jinit_color_converter, jinit_color_deconverter, Pair, Spaces,
         RgbSpaces, num_components, HalvedComponents
    <2>6. CASE jpeg = "BG_YCC"
      BY <1>3, <2>1, <2>6 DEF jinit_color_converter, jinit_color_deconverter, Pair, Spaces,
         RgbSpaces, num_components, HalvedComponents
    <2> QED
      BY <2>2, <2>3, <2>4, <2>5, <2>6
  <1>4. CASE in \in {"BG_RGB", "YCbCr", "BG_YCC", "CMYK", "YCCK"}
    <2>1. to = in
      BY <1>1, <1>4
    <2>2. ASSUME in = "CMYK"
          PROVE  jpeg \in {"CMYK", "YCCK"}
      BY <2>2 DEF jinit_color_converter, Spaces, RgbSpaces
    <2>3. CASE in = "CMYK"
      BY <2>1, <2>2, <2>3 DEF jinit_color_converter, jinit_color_deconverter, Pair, Spaces,
         RgbSpaces, num_components, HalvedComponents
    <2>4. ASSUME in \in {"BG_RGB", "YCbCr", "BG_YCC", "YCCK"}
          PROVE  jpeg = in
      BY <2>1, <2>4 DEF jinit_color_converter, jinit_color_deconverter, Spaces, RgbSpaces
    <2>5. CASE in \in {"BG_RGB", "YCbCr", "BG_YCC", "YCCK"}
      BY <2>1, <2>4, <2>5 DEF jinit_color_converter, jinit_color_deconverter, Pair, Spaces,
         RgbSpaces, num_components, HalvedComponents
    <2> QED
      BY <1>4, <2>3, <2>5
  <1> QED
    BY <1>2, <1>3, <1>4 DEF Spaces
\* Three components, or one.
LEMMA RgbPair ==
    ASSUME NEW p \in [1..3 -> Samples], NEW cc, NEW dc, NEW wanted, NEW d \in Nat,
           \/ cc = "rgb" /\ dc = "rgb" /\ wanted = p
           \/ cc = "rgb_rgb1" /\ dc = "rgb1_rgb" /\ wanted = p
           \/ cc = "rgb" /\ dc = "rgb_gray" /\ wanted = LumaOf(p)
           \/ cc = "rgb_rgb1" /\ dc = "rgb1_gray" /\ wanted = LumaOf(p)
    PROVE  ComesBack(color_deconvert(dc, Stored({}, 3, color_convert(cc, p))), wanted, d)
  <1>1. color_deconvert(dc, Stored({}, 3, color_convert(cc, p))) = wanted
    BY RgbReturns, SubtractedReturns, Zenon
  <1>2. ComesBack(p, p, d)
    <2>1. \A k \in DOMAIN p : p[k] \in Samples
      OBVIOUS
    <2> QED
      BY <2>1, SameComesBack, Zenon
  <1> QED
    BY <1>1, <1>2, LumaFits, Zenon

\* The pixel of a colour space, and what it becomes in another.
WantedOf(in, to, dc, p) ==
    LET gray == IF in = "RGB" THEN rgb_gray_convert(p)[1] ELSE p[1]
    IN  CASE dc = "gray_rgb" -> <<gray, gray, gray>>
          [] dc # "gray_rgb" /\ to = "GRAYSCALE" -> <<gray>>
          [] OTHER -> p
ToleranceOf(dc, H) ==
    CASE H # {} -> 3
      [] H = {} /\ dc \in {"ycc_rgb", "ycck_cmyk"} -> 1
      [] OTHER -> 0

LEMMA GrayIs ==
    ASSUME NEW p \in [1..3 -> Samples]
    PROVE  rgb_gray_convert(p)[1] = Weighed(rgb_ycc_tab.Y, p)
           /\ Weighed(rgb_ycc_tab.Y, p) \in Samples
  <1>1. p[1] \in Samples /\ p[2] \in Samples /\ p[3] \in Samples
    OBVIOUS
  <1>2. rgb_gray_convert(p)[1] = Weighed(rgb_ycc_tab.Y, p)
    BY DEF rgb_gray_convert
  <1> QED
    BY <1>1, <1>2, ColourToYcc, Zenon DEF YccIs

LEMMA LevelsComeBack ==
    ASSUME NEW a \in Samples, NEW d \in Nat
    PROVE  ComesBack(<<a>>, <<a>>, d) /\ ComesBack(<<a, a, a>>, <<a, a, a>>, d)
  <1>1. ASSUME NEW w, \A k \in DOMAIN w : w[k] = a
        PROVE  ComesBack(w, w, d)
    BY <1>1, SameComesBack, Zenon
  <1>2. \A k \in DOMAIN <<a>> : <<a>>[k] = a
    OBVIOUS
  <1>3. \A k \in DOMAIN <<a, a, a>> : <<a, a, a>>[k] = a
    OBVIOUS
  <1> QED
    BY <1>1, <1>2, <1>3, Zenon

PairReturns(in, to, cc, dc, n, H, p) ==
    ComesBack(color_deconvert(dc, Stored(H, n, color_convert(cc, p))),
              WantedOf(in, to, dc, p), ToleranceOf(dc, H))

LEMMA PairsReturn ==
    ASSUME NEW in \in Spaces, NEW to, NEW cc, NEW dc, NEW n, NEW H, Pair(in, to, cc, dc, n, H),
           NEW p \in [1..num_components(in) -> Samples]
    PROVE  PairReturns(in, to, cc, dc, n, H, p)
  <1> DEFINE d == ToleranceOf(dc, H)
             wanted == WantedOf(in, to, dc, p)
             got == color_deconvert(dc, Stored(H, n, color_convert(cc, p)))
  <1>1. d \in {0, 1, 3}
    BY DEF ToleranceOf
  <1>2. d \in Nat
    BY <1>1
  <1> SUFFICES ComesBack(got, wanted, d)
    BY Zenon DEF PairReturns
  <1>3. CASE in = "GRAYSCALE"
    <2>1. p[1] \in Samples
      BY <1>3 DEF num_components
    <2>2. /\ cc = "grayscale" /\ n = 1 /\ H = {}
          /\ (dc = "grayscale" /\ to = "GRAYSCALE") \/ dc = "gray_rgb"
      BY <1>3 DEF Pair, RgbSpaces
    <2>3. color_convert(cc, p) = <<p[1]>>
      BY <2>2, GrayConverters, Zenon
    <2>4. CASE dc = "grayscale" /\ to = "GRAYSCALE"
      <3>1. wanted = <<p[1]>>
        BY <1>3, <2>4 DEF WantedOf
      <3>2. got = <<p[1]>>
        BY <2>2, <2>3, <2>4, GrayReturns, Zenon
      <3> QED
        BY <1>2, <2>1, <3>1, <3>2, LevelsComeBack, Zenon
    <2>5. CASE dc = "gray_rgb"
      <3>1. wanted = <<p[1], p[1], p[1]>>
        BY <1>3, <2>5 DEF WantedOf
      <3>2. got = <<p[1], p[1], p[1]>>
        BY <2>2, <2>3, <2>5, GrayReturns, Zenon
      <3> QED
        BY <1>2, <2>1, <3>1, <3>2, LevelsComeBack, Zenon
    <2> QED
      BY <2>2, <2>4, <2>5, Zenon
  <1>4. CASE in = "RGB"
    <2>1. p \in [1..3 -> Samples]
      BY <1>4 DEF num_components
    <2> DEFINE a == Weighed(rgb_ycc_tab.Y, p)
    <2>2. rgb_gray_convert(p)[1] = a /\ a \in Samples
      BY <2>1, GrayIs, Zenon
    <2>3. dc = "gray_rgb" => wanted = <<a, a, a>>
      BY <1>4, <2>2, Zenon DEF WantedOf
    <2>4. dc # "gray_rgb" /\ to = "GRAYSCALE" => wanted = LumaOf(p)
      BY <1>4, <2>2, Zenon DEF WantedOf, LumaOf
    <2>5. dc # "gray_rgb" /\ to = "RGB" => wanted = p
      BY DEF WantedOf
    <2>6. LumaOf(p) = <<a>>
      BY Zenon DEF LumaOf
    <2> HIDE DEF a, wanted, d
    <2>7. CASE cc = "rgb_gray" /\ n = 1 /\ H = {}
      <3>1. color_convert(cc, p) = <<a>>
        BY <2>6, <2>7, GrayConverters, Zenon
      <3>2. CASE dc = "grayscale" /\ to = "GRAYSCALE"
        <4>1. got = <<a>>
          BY <2>7, <3>1, <3>2, GrayReturns, Zenon
        <4>2. wanted = <<a>>
          BY <2>4, <2>6, <3>2
        <4> QED
          BY <1>2, <2>2, <4>1, <4>2, LevelsComeBack, Zenon
      <3>3. CASE dc = "gray_rgb"
        <4>1. got = <<a, a, a>>
          BY <2>7, <3>1, <3>3, GrayReturns, Zenon
        <4> QED
          BY <1>2, <2>2, <2>3, <3>3, <4>1, LevelsComeBack, Zenon
      <3>4. (dc = "grayscale" /\ to = "GRAYSCALE") \/ dc = "gray_rgb"
        BY <1>4, <2>7 DEF Pair
      <3> QED
        BY <3>2, <3>3, <3>4, Zenon
    <2>8. CASE cc \in {"rgb", "rgb_rgb1"}
      <3>1. n = 3 /\ H = {}
        BY <1>4, <2>8 DEF Pair
      <3>2. \/ cc = "rgb" /\ dc = "rgb" /\ wanted = p
            \/ cc = "rgb_rgb1" /\ dc = "rgb1_rgb" /\ wanted = p
            \/ cc = "rgb" /\ dc = "rgb_gray" /\ wanted = LumaOf(p)
            \/ cc = "rgb_rgb1" /\ dc = "rgb1_gray" /\ wanted = LumaOf(p)
        BY <1>4, <2>4, <2>5, <2>8 DEF Pair
      <3> QED
        BY <1>2, <2>1, <3>1, <3>2, RgbPair, Zenon
    <2>9. CASE cc = "rgb_ycc" /\ dc = "grayscale"
      <3>1. n = 3 /\ H \in {{}, {2, 3}} /\ to = "GRAYSCALE"
        BY <1>4, <2>9 DEF Pair
      <3>2. got = LumaOf(p)
        BY <2>1, <2>9, <3>1, LumaOfYcc, Zenon
      <3>3. wanted = LumaOf(p)
        BY <2>4, <2>9, <3>1
      <3> QED
        BY <1>2, <2>1, <3>2, <3>3, LumaFits, Zenon
    <2>10. CASE cc = "rgb_ycc" /\ dc = "ycc_rgb"
      <3>1. n = 3 /\ H = {} /\ to = "RGB"
        BY <1>4, <2>10 DEF Pair
      <3>2. d = 1 /\ wanted = p
        BY <2>5, <2>10, <3>1 DEF d, ToleranceOf
      <3> QED
        BY <2>1, <2>10, <3>1, <3>2, YccReturns, Zenon
    <2>11. CASE cc = "rgb_ycc" /\ dc = "bg_ycc_rgb"
      <3>1. n = 3 /\ H = {2, 3} /\ to = "RGB"
        BY <1>4, <2>11 DEF Pair
      <3>2. d = 3 /\ wanted = p
        BY <2>5, <2>11, <3>1 DEF d, ToleranceOf
      <3> QED
        BY <2>1, <2>11, <3>1, <3>2, WideYccReturns, Zenon
    <2>12. \/ cc = "rgb_gray" /\ n = 1 /\ H = {}
           \/ cc \in {"rgb", "rgb_rgb1"}
           \/ cc = "rgb_ycc" /\ dc \in {"grayscale", "ycc_rgb", "bg_ycc_rgb"}
      BY <1>4 DEF Pair
    <2> QED
      BY <2>7, <2>8, <2>9, <2>10, <2>11, <2>12
  <1>5. CASE in = "BG_RGB"
    <2>1. p \in [1..3 -> Samples]
      BY <1>5 DEF num_components
    <2>2. /\ n = 3 /\ H = {} /\ to = "BG_RGB"
          /\ \/ cc = "rgb" /\ dc = "rgb"
             \/ cc = "rgb_rgb1" /\ dc = "rgb1_rgb"
      BY <1>5 DEF Pair
    <2>3. wanted = p
      BY <2>2 DEF WantedOf
    <2> HIDE DEF wanted, d
    <2> QED
      BY <1>2, <2>1, <2>2, <2>3, RgbPair, Zenon
  <1>6. CASE in \in {"YCbCr", "BG_YCC", "CMYK", "YCCK"} /\ cc = "null"
    <2>1. n = num_components(in) /\ dc = "null" /\ H = {} /\ to = in
      BY <1>6 DEF Pair
    <2>2. wanted = p /\ d = 0
      BY <1>6, <2>1 DEF WantedOf, ToleranceOf
    <2>3. n \in Nat
      BY <2>1 DEF num_components
    <2> HIDE DEF wanted, d
    <2> QED
      BY <1>6, <2>1, <2>2, <2>3, NullReturns, Zenon
  <1>7. CASE in = "CMYK" /\ cc # "null"
    <2>1. n = 4 /\ cc = "cmyk_ycck" /\ dc = "ycck_cmyk" /\ H = {} /\ to = in
      BY <1>7 DEF Pair, RgbSpaces
    <2>2. wanted = p /\ d = 1
      BY <1>7, <2>1 DEF WantedOf, ToleranceOf
    <2>3. p \in [1..4 -> Samples]
      BY <1>7 DEF num_components
    <2> HIDE DEF wanted, d
    <2> QED
      BY <2>1, <2>2, <2>3, YcckReturns, Zenon
  <1>8. in \in {"YCbCr", "BG_YCC", "YCCK"} => cc = "null"
    BY DEF Pair, RgbSpaces
  <1> QED
    BY <1>3, <1>4, <1>5, <1>6, <1>7, <1>8 DEF Spaces
-----------------------------------------------------------------------------
(* Components of full size. *)

LEMMA CeilingHolds ==
    ASSUME NEW h \in Nat \ {0}, NEW v \in Nat \ {0}
    PROVE  Ceiling(h, v) \in Int /\ Ceiling(h, v) * v \in Int /\ h <= Ceiling(h, v) * v
  <1> DEFINE a == h + v - 1
             q == a \div v
             p == q * v
  <1>1. a \in Int
    OBVIOUS
  <1>2. Ceiling(h, v) = q
    BY Zenon DEF Ceiling
  <1> HIDE DEF a
  <1>3. q \in Int /\ a % v \in 0..(v - 1) /\ a = p + (a % v)
    BY <1>1, Divided, Zenon
  <1>4. p \in Int
    BY <1>3
  <1> HIDE DEF p, q
  <1>5. h <= p
    BY <1>1, <1>3, <1>4 DEF a
  <1> QED
    BY <1>2, <1>3, <1>4, <1>5, Zenon DEF p

FullSize == \A k \in Components : setup.comps[k].down = "fullsize"

\* What full size means: every column and row has its sample.
EverySample ==
    /\ setup.context = FALSE
    /\ \A k \in Components :
          /\ setup.comps[k].hg = setup.maxh /\ setup.comps[k].vg = setup.maxv
          /\ setup.comps[k].cols \in Int /\ setup.width <= setup.comps[k].cols

\* The blocks of a component have a column for each of the image.
Covers(w, cols, n) == cols \in Nat /\ w <= cols * n

LEMMA BlocksCover ==
    ASSUME NEW w \in Nat \ {0}, NEW c \in 1..4, NEW e \in {1, 2}, NEW D \in Nat \ {0},
           NEW n \in Int, NEW m \in Nat \ {0}, m = n * (c * e)
    PROVE  Covers(w, Ceiling(w * c, m * D) * D * e, n)
  <1> DEFINE K == Ceiling(w * c, m * D)
             cols == K * D * e
             P == cols * n
  <1>1. w * c \in Nat \ {0} /\ m * D \in Nat \ {0}
    <2>1. \A a, b \in Nat \ {0} : a * b \in Nat \ {0}
      BY SMTT(30)
    <2>2. c \in Nat \ {0}
      OBVIOUS
    <2> QED
      BY <2>1, <2>2
  <1>2. K \in Nat
    <2>1. \A h \in Nat \ {0}, v \in Nat \ {0} : Ceiling(h, v) \in Nat
      BY SMTT(30) DEF Ceiling
    <2> QED
      BY <1>1, <2>1
  <1>3. w * c <= K * (m * D)
    BY <1>1, CeilingHolds, Zenon
  <1> HIDE DEF K
  <1>4. cols \in Nat /\ cols * n \in Int
    <2>1. \A a, b \in Nat : a * b \in Nat
      BY SMTT(30)
    <2>2. K * D \in Nat /\ e \in Nat
      BY <1>2, <2>1
    <2>3. cols \in Nat
      BY <2>1, <2>2
    <2> HIDE DEF cols
    <2> QED
      BY <2>3
  <1>5. K * (m * D) = c * P
    <2>1. K * (m * D) = K * ((n * (c * e)) * D)
      BY Zenon
    <2>2. \A a, b, i, j, l \in Int : a * ((b * (i * j)) * l) = i * (((a * l) * j) * b)
      BY SMTT(30)
    <2>3. K \in Int /\ n \in Int /\ c \in Int /\ e \in Int /\ D \in Int
      BY <1>2
    <2>4. K * ((n * (c * e)) * D) = c * (((K * D) * e) * n)
      BY ONLY <2>2, <2>3
    <2> QED
      BY <2>1, <2>4, Zenon
  <1> HIDE DEF P
  <1>6. w <= P
    <2>1. w * c <= c * P /\ P \in Int
      BY <1>3, <1>4, <1>5 DEF P
    <2>2. CASE c = 1
      BY <2>1, <2>2
    <2>3. CASE c = 2
      BY <2>1, <2>3
    <2>4. CASE c = 3
      BY <2>1, <2>4
    <2>5. CASE c = 4
      BY <2>1, <2>5
    <2> QED
      BY <2>2, <2>3, <2>4, <2>5
  <1> QED
    BY <1>4, <1>6, Zenon DEF Covers, P, cols, K

LEMMA FullSizeIs ==
    ASSUME NEW job \in Jobs, setup = initial_setup(job), ReadSetup, FullSize
    PROVE  EverySample
  <1>1. setup.context = FALSE
    <2>1. setup.context = \E k \in 1..Len(job.comps) : NeedsContext(setup.comps[k].down)
      BY Zenon DEF initial_setup
    <2>2. Components = 1..Len(job.comps)
      BY LargestFactors, Zenon
    <2>3. ~NeedsContext("fullsize")
      BY DEF NeedsContext
    <2> QED
      BY <2>1, <2>2, <2>3, Zenon DEF FullSize
  <1>2. ASSUME NEW k \in Components
        PROVE  /\ setup.comps[k].hg = setup.maxh /\ setup.comps[k].vg = setup.maxv
               /\ setup.comps[k].cols \in Int /\ setup.width <= setup.comps[k].cols
    <2> DEFINE comp == setup.comps[k]
               c == job.comps[k].h
               e == ssize(setup.maxh, c, job.fancy)
    <2>1. /\ comp.hg = c * e
          /\ comp.cols = Ceiling(setup.width * c, setup.maxh * DCTSIZE) * DCTSIZE * e
          /\ comp.hg \in Nat \ {0} /\ comp.vg \in Nat \ {0}
      BY ComponentIs, Zenon
    <2>2. PICK s : /\ s.hg = comp.hg /\ s.vg = comp.vg
                   /\ comp.down = jinit_downsampler(s, setup.maxh, setup.maxv, job.smoothing)
      BY ComponentIs, Zenon
    <2>3. comp.down = "fullsize"
      BY Zenon DEF FullSize
    <2>4. setup.maxh \in Nat \ {0} /\ setup.maxv \in Nat \ {0} /\ setup.width \in Nat \ {0}
      BY Zenon DEF ReadSetup
    <2>5. c \in 1..4
      BY LargestFactors, Zenon
    <2>6. e \in {1, 2}
      BY Zenon DEF ssize
    <2> HIDE DEF comp, c, e
    <2>7. setup.maxh = comp.hg /\ setup.maxv = comp.vg
      BY <2>1, <2>2, <2>3, <2>4 DEF jinit_downsampler
    <2>8. comp.cols \in Int /\ setup.width <= comp.cols
      <3>1. DCTSIZE \in Nat \ {0}
        BY PixelsAssumption
      <3>2. setup.maxh = c * e
        BY <2>1, <2>7, Zenon
      <3>3. 1 \in Int /\ setup.maxh = 1 * (c * e)
        BY <2>4, <3>2
      <3> DEFINE cols == Ceiling(setup.width * c, setup.maxh * DCTSIZE) * DCTSIZE * e
      <3>4. Covers(setup.width, cols, 1)
        BY <2>4, <2>5, <2>6, <3>1, <3>3, BlocksCover
      <3> HIDE DEF cols
      <3>5. comp.cols = cols
        BY <2>1, Zenon DEF cols
      <3> QED
        BY <2>4, <3>4, <3>5 DEF Covers
    <2> QED
      BY <2>7, <2>8, Zenon DEF comp
  <1> QED
    BY <1>1, <1>2, Zenon DEF EverySample

\* A pixel of the image, converted.
ConvertedPixel(r, x) == color_convert(setup.cconv, Picture(setup.seed, setup.in, r, x))

LEMMA FullSizeRow ==
    ASSUME ReadSetup, EverySample, FullSize, NEW k \in Components, NEW r \in Span(setup.height)
    PROVE  /\ DOMAIN PlaneRow(k, r) = Span(setup.comps[k].cols)
           /\ \A x \in Span(setup.width) : PlaneRow(k, r)[x] = ConvertedPixel(r, x)[k]
  <1> DEFINE comp == setup.comps[k]
             v == setup.maxv
             g == r \div v
             y == r % v
             P == Plane(GroupOf(g), k)
  <1>1. /\ setup.height \in Nat \ {0} /\ v \in Nat \ {0} /\ setup.width \in Nat \ {0}
        /\ comp.vg = v /\ comp.cols \in Int /\ setup.width <= comp.cols
        /\ setup.context = FALSE
    BY DEF ReadSetup, EverySample
  <1>2. r \in Int /\ r >= 0 /\ r < setup.height
    BY <1>1 DEF Span
  <1>3. SourceRow(k, r) = r
    <2> DEFINE p == Ceiling(setup.height, v) * v
    <2>1. SourceRow(k, r) = Smaller(r, p - 1)
      BY <1>1, Zenon DEF SourceRow
    <2>2. p \in Int /\ setup.height <= p
      BY <1>1, CeilingHolds, Zenon
    <2> HIDE DEF p
    <2> QED
      BY <1>1, <1>2, <2>1, <2>2 DEF Smaller
  <1>4. PlaneRow(k, r) = GroupRow(k, g, y)
    BY <1>1, <1>3, Zenon DEF PlaneRow
  <1>5. g \in Int /\ y \in Span(v) /\ r = g * v + y
    BY <1>1, <1>2, Divided, Zenon DEF Span
  <1> HIDE DEF g, y
  <1>6. GroupOf(g)[y] = RowOf(r)
    <2>1. GroupOf(g) = [i \in Span(v) |-> RowOf(g * v + i)]
      BY <1>1, Zenon DEF GroupOf
    <2> QED
      BY <1>5, <2>1, Zenon
  <1>7. RowOf(r) = Converted(r)
    <2>1. ~(r < 0) /\ Smaller(r, setup.height - 1) = r
      BY <1>1, <1>2 DEF Smaller
    <2> QED
      BY <2>1, Zenon DEF RowOf
  <1>8. ASSUME NEW x \in Span(setup.width)
        PROVE  RowOf(r)[x] = ConvertedPixel(r, x)
    BY <1>7, Zenon DEF Converted, Scanline, ConvertedPixel
  <1>9. DOMAIN GroupOf(g) = Span(v)
    BY <1>1, Zenon DEF GroupOf
  <1>10. P[y] = [x \in Span(setup.width) |-> RowOf(r)[x][k]]
    BY <1>5, <1>6, <1>9, Zenon DEF Plane
  <1> HIDE DEF P
  <1>11. comp.down = "fullsize"
    BY Zenon DEF FullSize
  <1>12. downsample(P, comp, setup) = fullsize_downsample(P, setup.width, comp, v)
    BY <1>11, Zenon DEF downsample
  <1>13. GroupRow(k, g, y) = expand_right_edge(P[y], setup.width, comp.cols)
    BY <1>5, <1>12, Zenon DEF GroupRow, fullsize_downsample, P
  <1>14. PlaneRow(k, r)
            = [x \in Span(comp.cols) |-> P[y][Smaller(x, setup.width - 1)]]
    BY <1>4, <1>13, Zenon DEF expand_right_edge
  <1>15. ASSUME NEW x \in Span(setup.width)
         PROVE  PlaneRow(k, r)[x] = ConvertedPixel(r, x)[k]
    <2>1. x \in Span(comp.cols) /\ Smaller(x, setup.width - 1) = x
      BY <1>1 DEF Span, Smaller
    <2>2. PlaneRow(k, r)[x] = P[y][x]
      BY <1>14, <2>1, Zenon
    <2> QED
      BY <1>8, <1>10, <2>2, Zenon
  <1> QED
    BY <1>14, <1>15, Zenon DEF comp
\* The number of the iMCU row that a row is in.
LEMMA RowIsTaken ==
    ASSUME NEW h \in Nat \ {0}, NEW m \in Nat \ {0}, NEW r \in 0..(h - 1)
    PROVE  (r \div m) + 1 \in 1..Ceiling(h, m)
  <1> DEFINE T == Ceiling(h, m)
             q == r \div m
             s == r % m
  <1>1. T \in Int /\ h <= T * m
    BY CeilingHolds, Zenon
  <1>2. q \in Int /\ s \in 0..(m - 1) /\ r = q * m + s /\ q >= 0
    <2>1. r \in Int /\ r >= 0
      OBVIOUS
    <2> QED
      BY <2>1, Divided, Zenon
  <1> HIDE DEF T, q, s
  <1>3. ~(T <= q)
    <2>1. T <= q => T * m <= q * m
      BY <1>1, <1>2, SMTT(30)
    <2>2. T * m \in Int /\ q * m \in Int
      BY <1>1, <1>2
    <2> QED
      BY <1>1, <1>2, <2>1, <2>2
  <1>4. q + 1 \in 1..T
    BY <1>1, <1>2, <1>3
  <1> QED
    BY <1>4 DEF T, q

\* What comes back of a converted pixel is what was stored of it.
SampleOf(c, k) == IF k \in setup.halved THEN Halved(c[k]) ELSE c[k]

LEMMA SampleReturns ==
    ASSUME ReadSetup, EverySample, FullSize, TakenExact, SetupOK,
           cmain.cur_iMCU_row = setup.total_iMCU_rows,
           NEW k \in Components, NEW r \in Span(setup.height), NEW x \in Span(setup.width)
    PROVE  BoxSample(r, k, x) = SampleOf(ConvertedPixel(r, x), k)
  <1> DEFINE comp == setup.comps[k]
             v == setup.maxv
             m == v * DCTSIZE
             n == (r \div m) + 1
             y == r % m
             row == PlaneRow(k, r)
  <1>1. /\ setup.height \in Nat \ {0} /\ v \in Nat \ {0} /\ setup.width \in Nat \ {0}
        /\ setup.maxh \in Nat \ {0} /\ DCTSIZE \in Nat \ {0}
        /\ comp.vg = v /\ comp.hg = setup.maxh
        /\ comp.cols \in Int /\ setup.width <= comp.cols
    BY PixelsAssumption DEF ReadSetup, EverySample
  <1>2. m \in Nat \ {0}
    <2>1. \A a, b \in Nat \ {0} : a * b \in Nat \ {0}
      BY SMTT(30)
    <2> QED
      BY <1>1, <2>1, Zenon
  <1>3. /\ r \in Int /\ r >= 0 /\ r < setup.height /\ r \in 0..(setup.height - 1)
        /\ x \in Int /\ x >= 0 /\ x \in Span(comp.cols)
    BY <1>1 DEF Span
  <1>4. BoxSample(r, k, x) = decompress_data(n)[k][y][x]
    <2>1. \A a \in Int, b \in Nat \ {0} : (a * b) \div b = a
      <3>1. ASSUME NEW a \in Int, NEW b \in Nat \ {0}
            PROVE  (a * b) \div b = a
        <4>1. 0 \in 0..(b - 1) /\ a * b + 0 = a * b
          BY SMTT(30)
        <4>2. (a * b + 0) \div b = a
          BY <4>1, DividedIs, Zenon
        <4> QED
          BY <4>1, <4>2, Zenon
      <3> QED
        BY <3>1
    <2>2. (r * comp.vg) \div v = r /\ (x * comp.hg) \div setup.maxh = x
      BY <1>1, <1>3, <2>1, Zenon
    <2> QED
      BY <1>1, <2>2, Zenon DEF BoxSample
  <1>5. n \in 1..cmain.cur_iMCU_row
    <2>1. setup.total_iMCU_rows = Ceiling(setup.height, m)
      BY Zenon DEF SetupOK
    <2> HIDE DEF m
    <2>2. n \in 1..Ceiling(setup.height, m)
      BY <1>1, <1>2, <1>3, RowIsTaken, Zenon
    <2> QED
      BY <2>1, <2>2, Zenon
  <1>6. /\ y \in Span(m) /\ r = (n - 1) * m + y /\ n \in Int
    <2> HIDE DEF m
    <2> DEFINE q == r \div m
    <2>1. q \in Int /\ y \in 0..(m - 1) /\ r = q * m + y
      BY <1>2, <1>3, Divided, Zenon
    <2>2. n = q + 1
      OBVIOUS
    <2> HIDE DEF q, n, y
    <2>3. n - 1 = q /\ n \in Int
      BY <2>1, <2>2
    <2> QED
      BY <2>1, <2>3, Zenon DEF Span
  <1> HIDE DEF n, y
  <1>7. coef[n][k] = [i \in Span(m) |-> PlaneRow(k, (n - 1) * m + i)]
    <2>1. coef[n] = [j \in Components |-> PlaneIMCU(j, n - 1)]
      BY <1>5, Zenon DEF TakenExact
    <2>2. coef[n][k] = PlaneIMCU(k, n - 1)
      BY <2>1, Zenon
    <2> QED
      BY <1>1, <2>2, Zenon DEF PlaneIMCU
  <1> HIDE DEF m
  <1>8. DOMAIN coef[n][k] = Span(m) /\ coef[n][k][y] = row
    BY <1>6, <1>7, Zenon
  <1>9. DOMAIN row = Span(comp.cols) /\ row[x] = ConvertedPixel(r, x)[k]
    BY FullSizeRow, Zenon
  <1> HIDE DEF row
  <1>10. CASE k \in setup.halved
    <2>1. decompress_data(n)[k] = [i \in DOMAIN coef[n][k] |->
                                      [j \in DOMAIN coef[n][k][i] |-> Halved(coef[n][k][i][j])]]
      BY <1>10, Zenon DEF decompress_data
    <2>2. decompress_data(n)[k][y] = [j \in DOMAIN row |-> Halved(row[j])]
      BY <1>6, <1>8, <2>1, Zenon
    <2>3. decompress_data(n)[k][y][x] = Halved(row[x])
      BY <1>3, <1>9, <2>2, Zenon
    <2> QED
      BY <1>4, <1>9, <1>10, <2>3, Zenon DEF SampleOf
  <1>11. CASE k \notin setup.halved
    <2>1. decompress_data(n)[k] = coef[n][k]
      BY <1>11, Zenon DEF decompress_data
    <2> QED
      BY <1>4, <1>8, <1>9, <1>11, <2>1, Zenon DEF SampleOf
  <1> QED
    BY <1>10, <1>11, Zenon

-----------------------------------------------------------------------------
(* A decompressor is made for a file that is whole. *)

ReadsWhole ==
    /\ \E job \in Jobs : setup = initial_setup(job) /\ Supported(initial_setup(job))
    /\ phase # "compress" => app.at = "idle" /\ app.next_scanline = setup.height

LEMMA InitReadsWhole == Init => ReadsWhole
  BY Zenon DEF Init, ReadsWhole

LEMMA NextReadsWhole == RowsKept /\ ReadsWhole /\ [Next]_vars => ReadsWhole'
  <1> SUFFICES ASSUME RowsKept, ReadsWhole, [Next]_vars
               PROVE  ReadsWhole'
    OBVIOUS
  <1>1. ASSUME setup' = setup, phase' = phase, phase = "compress" \/ app' = app
        PROVE  ReadsWhole'
    BY <1>1, Zenon DEF ReadsWhole
  <1>2. app.at # "idle" => phase = "compress"
    BY Zenon DEF RowsKept
  <1>3. CASE \E n \in Lines : jpeg_write_scanlines(n)
    BY <1>1, <1>3, Zenon DEF jpeg_write_scanlines
  <1>4. CASE pre_process_data
    <2>1. app.at = "fill" /\ setup' = setup /\ phase' = phase
      BY <1>4, Zenon DEF pre_process_data
    <2>2. app.at # "idle"
      BY <2>1
    <2> QED
      BY <1>1, <1>2, <2>1, <2>2, Zenon
  <1>5. CASE pre_process_context
    <2>1. app.at = "fill" /\ setup' = setup /\ phase' = phase
      BY <1>5, Zenon DEF pre_process_context
    <2>2. app.at # "idle"
      BY <2>1
    <2> QED
      BY <1>1, <1>2, <2>1, <2>2, Zenon
  <1>6. CASE PreProcessed
    <2>1. app.at = "fill" /\ setup' = setup /\ phase' = phase
      BY <1>6, Zenon DEF PreProcessed
    <2>2. app.at # "idle"
      BY <2>1
    <2> QED
      BY <1>1, <1>2, <2>1, <2>2, Zenon
  <1>7. CASE compress_data
    <2>1. app.at = "send" /\ setup' = setup /\ phase' = phase
      BY <1>7, Zenon DEF compress_data
    <2>2. app.at # "idle"
      BY <2>1
    <2> QED
      BY <1>1, <1>2, <2>1, <2>2, Zenon
  <1>8. CASE compress_data_suspends
    <2>1. app.at = "send" /\ setup' = setup /\ phase' = phase
      BY <1>8, Zenon DEF compress_data_suspends
    <2>2. app.at # "idle"
      BY <2>1
    <2> QED
      BY <1>1, <1>2, <2>1, <2>2, Zenon
  <1>9. CASE jpeg_start_decompress
    BY <1>9, Zenon DEF jpeg_start_decompress, ReadsWhole
  <1>10. CASE post_process_prepass
    BY <1>1, <1>10, Zenon DEF post_process_prepass, cvars
  <1>11. CASE finish_output_pass
    <2>1. phase = "prescan" /\ setup' = setup /\ app' = app
      BY <1>11, Zenon DEF finish_output_pass, cvars
    <2>2. phase # "compress"
      BY <2>1
    <2> QED
      BY <2>1, <2>2, Zenon DEF ReadsWhole
  <1>12. CASE \E n \in Lines : jpeg_read_scanlines(n)
    BY <1>1, <1>12, Zenon DEF jpeg_read_scanlines, cvars
  <1>13. CASE Finished \/ UNCHANGED vars
    BY <1>1, <1>13, Zenon DEF Finished, vars, cvars
  <1> QED
    BY <1>3, <1>4, <1>5, <1>6, <1>7, <1>8, <1>9, <1>10, <1>11, <1>12, <1>13, Zenon DEF Next
\* One pixel of the image, written and read.
LEMMA PixelReturns ==
    ASSUME ReadSetup, FullSize, TakenExact, SetupOK, ReadsWhole, WantedIsKnown,
           cmain.cur_iMCU_row = setup.total_iMCU_rows,
           NEW r \in Span(setup.height), NEW x \in Span(setup.width)
    PROVE  ComesBack(BoxFiltered(r)[x], Wanted(Picture(setup.seed, setup.in, r, x)), Tolerance)
  <1>1. PICK job \in Jobs : setup = initial_setup(job) /\ Supported(initial_setup(job))
    BY Zenon DEF ReadsWhole
  <1> DEFINE p == Picture(setup.seed, setup.in, r, x)
             n == num_components(job.jpeg)
             c == color_convert(setup.cconv, p)
  <1>2. EverySample
    BY <1>1, FullSizeIs, Zenon
  <1>3. Components = 1..n
    <2>1. Components = 1..Len(job.comps)
      BY <1>1, LargestFactors, Zenon
    <2> QED
      BY <2>1, PixelsAssumption, Zenon
  <1>4. /\ setup.in = job.in /\ setup.out = job.out /\ setup.seed = job.seed
        /\ setup.height = job.height /\ setup.width = job.width
        /\ setup.cconv = jinit_color_converter(job.in, job.jpeg, job.xf)
        /\ setup.dconv = jinit_color_deconverter(job.jpeg, job.xf, job.out)
        /\ setup.halved = HalvedComponents(job.in, job.jpeg)
    BY <1>1, Zenon DEF initial_setup
  <1>5. setup.cconv # "error" /\ setup.dconv # "error"
    BY <1>1, Zenon DEF Supported
  <1>6. job.in \in Spaces /\ job.jpeg \in Spaces /\ job.out \in Spaces
    BY PixelsAssumption, Zenon
  <1>7. p \in [1..num_components(setup.in) -> Samples]
    <2>1. r \in 0..(job.height - 1) /\ x \in 0..(job.width - 1)
      BY <1>4, Zenon DEF Span
    <2> QED
      BY <1>4, <2>1, PixelsAssumption, Zenon DEF Samples
  <1>8. Pair(setup.in, setup.out, setup.cconv, setup.dconv, n, setup.halved)
    <2>1. <<job.in, job.out>> \in
             {<<"RGB", "GRAYSCALE">>, <<"GRAYSCALE", "RGB">>, <<job.out, job.out>>}
      BY <1>4, Zenon DEF WantedIsKnown
    <2>2. Pair(job.in, job.out, setup.cconv, setup.dconv, n, HalvedComponents(job.in, job.jpeg))
      BY <1>4, <1>5, <1>6, <2>1, PairIs, Zenon
    <2> QED
      BY <1>4, <2>2, Zenon
  <1>9. BoxFiltered(r)[x] = color_deconvert(setup.dconv, [k \in Components |-> BoxSample(r, k, x)])
    BY Zenon DEF BoxFiltered
  <1>10. [k \in Components |-> BoxSample(r, k, x)] = Stored(setup.halved, n, c)
    <2>1. \A k \in Components : BoxSample(r, k, x) = SampleOf(c, k)
      BY <1>2, SampleReturns, Zenon DEF ConvertedPixel
    <2> HIDE DEF c, n
    <2> QED
      BY <1>3, <2>1, Zenon DEF Stored, SampleOf
  <1> HIDE DEF p, n
  <1>11. PairReturns(setup.in, setup.out, setup.cconv, setup.dconv, n, setup.halved, p)
    BY <1>4, <1>6, <1>7, <1>8, PairsReturn, Zenon
  <1>12. WantedOf(setup.in, setup.out, setup.dconv, p) = Wanted(p)
    BY Zenon DEF WantedOf, Wanted
  <1>13. ToleranceOf(setup.dconv, setup.halved) = Tolerance
    BY Zenon DEF ToleranceOf, Tolerance
  <1> QED
    BY <1>9, <1>10, <1>11, <1>12, <1>13, Zenon DEF PairReturns, p

(***************************************************************************)
(* ImageReturns: an image of full-size components that is not quantized    *)
(* comes back, for every width and height, every sample value, every pair  *)
(* of the conversions of jccolor.c and jdcolor.c and every number of rows  *)
(* in a call: exactly, within one level through YCbCr or YCCK, whose       *)
(* rounding needs no range limit (jccolor.c:117-120), and within three     *)
(* where the wide gamut halves the chroma.                                 *)
(***************************************************************************)
THEOREM ImagesComeBack == Spec => []ImageReturns
  <1>1. Compressing /\ RowsKept /\ RowsReadExact /\ ReadsWhole => ImageReturns
    <2> SUFFICES ASSUME Compressing, RowsKept, RowsReadExact, ReadsWhole,
                        setup.quant = "none", setup.smoothing = 0, WantedIsKnown, FullSize,
                        NEW r \in 1..Smaller(Len(out), setup.height),
                        NEW x \in Span(setup.width)
                 PROVE  ComesBack(out[r][x], Wanted(Picture(setup.seed, setup.in, r - 1, x)),
                                  Tolerance)
      BY Zenon DEF ImageReturns, ComesBack, FullSize, Samples
    <2>1. setup.height \in Nat \ {0}
      BY Zenon DEF RowsReadExact, ReadSetup
    <2>2. CASE phase # "read"
      <3>1. out = <<>>
        BY <2>2, Zenon DEF RowsReadExact, NotStarted, Prescanning
      <3>2. r \notin 1..Smaller(Len(out), setup.height)
        BY <2>1, <3>1 DEF Smaller
      <3> QED
        BY <3>2, Zenon
    <2>3. CASE phase = "read"
      <3>1. ReadSetup /\ Reading /\ out = [i \in 1..RowsRead |-> BoxFiltered(i - 1)]
            /\ RowsRead <= setup.height
        BY <2>3 DEF RowsReadExact, Unquantized, Reading
      <3>2. RowsRead \in Nat
        BY <3>1, RowsReadIs, Zenon
      <3>3. Len(out) = RowsRead
        BY <3>1, <3>2
      <3>4. r \in 1..RowsRead /\ r - 1 \in Span(setup.height)
        BY <2>1, <3>1, <3>2, <3>3 DEF Smaller, Span
      <3>5. out[r] = BoxFiltered(r - 1)
        BY <3>1, <3>4, Zenon
      <3>6. cmain.cur_iMCU_row = setup.total_iMCU_rows
        <4>1. phase # "compress"
          BY <2>3
        <4>2. app.at = "idle" /\ app.next_scanline = setup.height
          BY <4>1, Zenon DEF ReadsWhole
        <4> QED
          BY <4>2, CompressingIsEnough, Zenon DEF DoneMeansTaken
      <3>7. TakenExact /\ SetupOK
        BY Zenon DEF RowsKept, Compressing
      <3> QED
        BY <3>1, <3>4, <3>5, <3>6, <3>7, PixelReturns, Zenon
    <2> QED
      BY <2>2, <2>3
  <1>2. Spec => []ReadsWhole
    BY BuffersHold, InitReadsWhole, NextReadsWhole, PTL DEF Spec
  <1> QED
    BY <1>1, <1>2, CountersAgree, BuffersHold, ReadersAgree, PTL
-----------------------------------------------------------------------------
(* The picture that a component is sampled from. *)

\* The converted image goes on at its edges as the rows and columns do.
LEMMA ClampedIs ==
    ASSUME NEW v \in Int, NEW n \in Nat \ {0}
    PROVE  Max({0, Smaller(v, n - 1)}) = Inside(v, n) /\ Inside(v, n) \in Span(n)
  <1> DEFINE S == {0, Smaller(v, n - 1)}
             m == Inside(v, n)
  <1>1. m \in S /\ (\A y \in S : m >= y) /\ S \subseteq Int /\ m \in Span(n)
    BY DEF Inside, Smaller, Span
  <1> HIDE DEF S, m
  <1>2. Max(S) \in S /\ \A y \in S : Max(S) >= y
    BY <1>1 DEF Max
  <1>3. Max(S) = m
    <2> DEFINE t == Max(S)
    <2>1. t \in Int /\ m \in Int /\ t >= m /\ m >= t
      BY <1>1, <1>2
    <2> HIDE DEF t
    <2> QED
      BY <2>1 DEF t
  <1> QED
    BY <1>1, <1>3 DEF S, m

LEMMA InsideTwice ==
    ASSUME NEW v \in Int, NEW n \in Nat \ {0}
    PROVE  Inside(Inside(v, n), n) = Inside(v, n) /\ Inside(v, n) \in Int
  BY DEF Inside, Smaller

\* Sizes of the image that the setup has.
SizesOK == setup.width \in Nat \ {0} /\ setup.height \in Nat \ {0}

PixelsOf(k) == [p \in Int \X Int |-> At(k, p[1], p[2])]
PixelAt(k, y, x) == ConvertedPixel(Inside(y, setup.height), Inside(x, setup.width))[k]

LEMMA PixelIs ==
    ASSUME SizesOK, NEW k, NEW y \in Int, NEW x \in Int
    PROVE  At(k, y, x) = PixelAt(k, y, x) /\ PixelsOf(k)[<<y, x>>] = PixelAt(k, y, x)
  <1>1. /\ Max({0, Smaller(y, setup.height - 1)}) = Inside(y, setup.height)
        /\ Max({0, Smaller(x, setup.width - 1)}) = Inside(x, setup.width)
    BY ClampedIs, Zenon DEF SizesOK
  <1>2. At(k, y, x) = PixelAt(k, y, x)
    BY <1>1, Zenon DEF At, PixelAt, ConvertedPixel
  <1>3. PixelsOf(k)[<<y, x>>] = At(k, y, x)
    BY DEF PixelsOf
  <1> QED
    BY <1>2, <1>3, Zenon

\* A conversion makes samples of samples.
LEMMA ConvertsSamples ==
    ASSUME NEW in \in Spaces, NEW jpeg \in Spaces, NEW xf,
           NEW cc, cc = jinit_color_converter(in, jpeg, xf), cc # "error",
           NEW p \in [1..num_components(in) -> Samples],
           NEW k \in 1..num_components(jpeg)
    PROVE  color_convert(cc, p)[k] \in Samples
  <1> DEFINE n == num_components(in)
             m == num_components(jpeg)
  <1>1. \/ cc = "grayscale" /\ m = 1 /\ n \in {1, 3}
        \/ cc = "rgb_gray" /\ m = 1 /\ n = 3
        \/ cc \in {"rgb", "rgb_rgb1", "rgb_ycc"} /\ m = 3 /\ n = 3
        \/ cc = "cmyk_ycck" /\ m = 4 /\ n = 4
        \/ cc = "null" /\ m = n
    BY DEF jinit_color_converter, num_components, RgbSpaces, Spaces
  <1>2. p \in [1..n -> Samples] /\ k \in 1..m /\ m \in 1..4 /\ n \in 1..4
    BY DEF num_components
  <1> HIDE DEF n, m
  <1>3. \A i \in 1..n : p[i] \in Samples
    BY <1>2
  <1>4. CASE cc = "grayscale" /\ m = 1 /\ n \in {1, 3}
    <2>1. k = 1 /\ p[1] \in Samples
      BY <1>2, <1>3, <1>4
    <2>2. color_convert(cc, p)[1] = p[1]
      BY <1>4 DEF color_convert, grayscale_convert
    <2> QED
      BY <2>1, <2>2
  <1>5. CASE cc = "rgb_gray" /\ m = 1 /\ n = 3
    <2>1. k = 1 /\ p[1] \in Samples /\ p[2] \in Samples /\ p[3] \in Samples
      BY <1>2, <1>3, <1>5
    <2>2. color_convert(cc, p) = <<Weighed(rgb_ycc_tab.Y, p)>>
      BY <1>5, GrayConverters, Zenon DEF LumaOf
    <2>3. Weighed(rgb_ycc_tab.Y, p) \in Samples
      BY <2>1, ColourToYcc, Zenon DEF YccIs
    <2> QED
      BY <2>1, <2>2, <2>3
  <1>6. CASE cc = "rgb" /\ m = 3 /\ n = 3
    <2>1. k \in 1..3 /\ p[1] \in Samples /\ p[2] \in Samples /\ p[3] \in Samples
      BY <1>2, <1>3, <1>6
    <2>2. color_convert(cc, p) = <<p[1], p[2], p[3]>>
      BY <1>6 DEF color_convert, rgb_convert
    <2> QED
      BY <2>1, <2>2
  <1>7. CASE cc = "rgb_rgb1" /\ m = 3 /\ n = 3
    <2> DEFINE a == Sample(p[1] - p[2] + CENTERJSAMPLE)
               c == Sample(p[3] - p[2] + CENTERJSAMPLE)
    <2>1. k \in 1..3 /\ p[1] \in Samples /\ p[2] \in Samples /\ p[3] \in Samples
      BY <1>2, <1>3, <1>7
    <2>2. color_convert(cc, p) = <<a, p[2], c>>
      BY <1>7 DEF color_convert, rgb_rgb1_convert
    <2>3. a \in Samples /\ c \in Samples
      <3>1. \A i \in Int : Sample(i) \in Samples
        BY DEF Sample, Samples, MAXJSAMPLE
      <3>2. p[1] - p[2] + CENTERJSAMPLE \in Int /\ p[3] - p[2] + CENTERJSAMPLE \in Int
        BY <2>1 DEF Samples, CENTERJSAMPLE
      <3> QED
        BY <3>1, <3>2, Zenon
    <2> HIDE DEF a, c
    <2> QED
      BY <2>1, <2>2, <2>3
  <1>8. CASE cc = "rgb_ycc" /\ m = 3 /\ n = 3
    <2>1. k \in 1..3 /\ p \in [1..3 -> Samples]
      BY <1>2, <1>8
    <2>2. PICK y, cb, cr : /\ rgb_ycc_convert(p) = <<y, cb, cr>>
                           /\ YccIs(p[1], p[2], p[3], y, cb, cr)
      BY <2>1, YccPixelIs, Zenon
    <2>3. color_convert(cc, p) = <<y, cb, cr>>
      BY <1>8, <2>2 DEF color_convert
    <2>4. y \in Samples /\ cb \in Samples /\ cr \in Samples
      BY <2>2, Zenon DEF YccIs
    <2> QED
      BY <2>1, <2>3, <2>4
  <1>9. CASE cc = "cmyk_ycck" /\ m = 4 /\ n = 4
    <2> DEFINE c == rgb_ycc_convert(Negative(p)) \o <<p[4]>>
    <2>1. k \in 1..4 /\ \A i \in 1..4 : p[i] \in Samples
      BY <1>2, <1>3, <1>9
    <2>2. color_convert(cc, p) = c
      BY <1>9 DEF color_convert, cmyk_ycck_convert, Negative
    <2>3. Negative(p) \in [1..3 -> Samples]
      <3>1. \A v \in Samples : MAXJSAMPLE - v \in Samples
        BY DEF Samples, MAXJSAMPLE
      <3> QED
        BY <2>1, <3>1 DEF Negative
    <2>4. PICK y, cb, cr :
              /\ rgb_ycc_convert(Negative(p)) = <<y, cb, cr>>
              /\ YccIs(Negative(p)[1], Negative(p)[2], Negative(p)[3], y, cb, cr)
      BY <2>3, YccPixelIs, Zenon
    <2>5. Quadruple(c, <<y, cb, cr>>, p[4])
      <3> DEFINE f == <<y, cb, cr>>
      <3>1. f = [i \in 1..3 |-> f[i]]
        OBVIOUS
      <3> HIDE DEF f
      <3> QED
        BY <2>4, <3>1, FourIs, Zenon DEF f
    <2> HIDE DEF c
    <2>6. c[1] = y /\ c[2] = cb /\ c[3] = cr /\ c[4] = p[4]
      BY <2>5 DEF Quadruple
    <2>7. y \in Samples /\ cb \in Samples /\ cr \in Samples
      BY <2>4, Zenon DEF YccIs
    <2> QED
      BY <2>1, <2>2, <2>6, <2>7
  <1>10. CASE cc = "null" /\ m = n
    <2>1. color_convert(cc, p) = p
      BY <1>10 DEF color_convert, null_convert
    <2> QED
      BY <1>2, <1>3, <1>10, <2>1
  <1> QED
    BY <1>1, <1>4, <1>5, <1>6, <1>7, <1>8, <1>9, <1>10

-----------------------------------------------------------------------------
(* The method of a component fits its factors. *)

LEMMA DownsamplersFit ==
    ASSUME NEW job \in Jobs, setup = initial_setup(job), Supported(setup), NEW k \in Components
    PROVE  /\ DownsamplerFits(setup.comps[k], setup.maxh, setup.maxv)
           /\ setup.maxh % setup.comps[k].hg = 0 /\ setup.maxv % setup.comps[k].vg = 0
           /\ NeedsContext(setup.comps[k].down) => setup.context
  <1> DEFINE comp == setup.comps[k]
             maxh == setup.maxh
             maxv == setup.maxv
  <1>1. PICK s : /\ s.hg = comp.hg /\ s.vg = comp.vg
                 /\ comp.down = jinit_downsampler(s, maxh, maxv, job.smoothing)
    BY ComponentIs, Zenon
  <1>2. comp.hg \in Nat \ {0} /\ comp.vg \in Nat \ {0}
    BY ComponentIs, Zenon
  <1>3. comp.down # "error"
    BY Zenon DEF Supported, Components
  <1>4. maxh \in Nat \ {0} /\ maxv \in Nat \ {0}
    BY LargestFactors, Zenon
  <1>5. NeedsContext(comp.down) => setup.context
    <2>1. setup.context = \E i \in 1..Len(job.comps) : NeedsContext(setup.comps[i].down)
      BY Zenon DEF initial_setup
    <2>2. Components = 1..Len(job.comps)
      BY LargestFactors, Zenon
    <2> QED
      BY <2>1, <2>2, Zenon
  <1> HIDE DEF comp, maxh, maxv
  <1>6. comp.down = CASE maxh = comp.hg /\ maxv = comp.vg ->
                           IF job.smoothing # 0 THEN "fullsize_smooth" ELSE "fullsize"
                      [] maxh = 2 * comp.hg /\ maxv = comp.vg -> "h2v1"
                      [] maxh = 2 * comp.hg /\ maxv = 2 * comp.vg ->
                           IF job.smoothing # 0 THEN "h2v2_smooth" ELSE "h2v2"
                      [] OTHER -> IF maxh % comp.hg = 0 /\ maxv % comp.vg = 0
                                  THEN "int" ELSE "error"
    BY <1>1, Zenon DEF jinit_downsampler
  <1>7. DownsamplerFits(comp, maxh, maxv)
    BY <1>2, <1>3, <1>4, <1>6 DEF DownsamplerFits
  <1>8. maxh % comp.hg = 0 /\ maxv % comp.vg = 0
    <2>1. \A n \in Nat \ {0} : n % n = 0 /\ (2 * n) % n = 0
      <3>1. ASSUME NEW n \in Nat \ {0}
            PROVE  (1 * n + 0) % n = 0 /\ (2 * n + 0) % n = 0
        <4>1. 0 \in 0..(n - 1)
          OBVIOUS
        <4> QED
          BY <4>1, DividedIs
      <3> QED
        BY <3>1
    <2> QED
      BY <1>2, <1>7, <2>1 DEF DownsamplerFits
  <1> QED
    BY <1>5, <1>7, <1>8, Zenon DEF comp, maxh, maxv

LEMMA ColumnsCovered ==
    ASSUME NEW job \in Jobs, setup = initial_setup(job), Supported(setup), SizesOK,
           NEW k \in Components
    PROVE  Covers(setup.width, setup.comps[k].cols, setup.maxh \div setup.comps[k].hg)
  <1> DEFINE comp == setup.comps[k]
             c == job.comps[k].h
             e == ssize(setup.maxh, c, job.fancy)
             n == setup.maxh \div comp.hg
  <1>1. /\ comp.hg = c * e /\ comp.hg \in Nat \ {0}
        /\ comp.cols = Ceiling(setup.width * c, setup.maxh * DCTSIZE) * DCTSIZE * e
    BY ComponentIs, Zenon
  <1>2. c \in 1..4 /\ setup.maxh \in Nat \ {0}
    BY LargestFactors, Zenon
  <1>3. e \in {1, 2}
    BY Zenon DEF ssize
  <1>4. setup.maxh % comp.hg = 0
    BY DownsamplersFit, Zenon
  <1> HIDE DEF comp, c, e
  <1>5. n \in Int /\ setup.maxh = n * (c * e)
    <2>1. setup.maxh \in Int
      BY <1>2
    <2>2. n \in Int /\ setup.maxh = n * comp.hg + 0
      BY <1>1, <1>4, <2>1, Divided, Zenon
    <2>3. n * comp.hg \in Int
      BY <1>1, <2>2
    <2> QED
      BY <1>1, <2>2, <2>3
  <1> HIDE DEF n
  <1>6. DCTSIZE \in Nat \ {0}
    BY PixelsAssumption
  <1>7. Covers(setup.width, Ceiling(setup.width * c, setup.maxh * DCTSIZE) * DCTSIZE * e, n)
    BY <1>2, <1>3, <1>5, <1>6, BlocksCover, Zenon DEF SizesOK
  <1> QED
    BY <1>1, <1>7, Zenon DEF comp, n

-----------------------------------------------------------------------------
(* What a method is given. *)

\* The setup of some job.
Prepared(job) == setup = initial_setup(job) /\ Supported(setup) /\ SizesOK

LEMMA PictureGiven ==
    ASSUME NEW job \in Jobs, Prepared(job), NEW k \in Components
    PROVE  IsPicture(PixelsOf(k), setup.width)
  <1>1. setup = initial_setup(job) /\ Supported(setup) /\ SizesOK
    BY Zenon DEF Prepared
  <1>2. /\ setup.in = job.in /\ setup.seed = job.seed
        /\ setup.height = job.height /\ setup.width = job.width
        /\ setup.cconv = jinit_color_converter(job.in, job.jpeg, job.xf)
    BY <1>1, Zenon DEF initial_setup
  <1>3. job.in \in Spaces /\ job.jpeg \in Spaces /\ Len(job.comps) = num_components(job.jpeg)
    BY PixelsAssumption, Zenon
  <1>4. k \in 1..num_components(job.jpeg)
    <2>1. Components = 1..Len(job.comps)
      BY <1>1, LargestFactors, Zenon
    <2> QED
      BY <1>3, <2>1, Zenon
  <1>5. setup.cconv # "error"
    BY <1>1, Zenon DEF Supported
  <1>6. setup.width \in Nat \ {0} /\ setup.height \in Nat \ {0}
    BY <1>1, Zenon DEF SizesOK
  <1>7. ASSUME NEW y \in Int, NEW x \in Int
        PROVE  PixelAt(k, y, x) \in Samples
    <2> DEFINE r == Inside(y, setup.height)
               c == Inside(x, setup.width)
               p == Picture(setup.seed, setup.in, r, c)
    <2>1. r \in Span(setup.height) /\ c \in Span(setup.width)
      BY <1>6, ClampedIs, Zenon
    <2> HIDE DEF r, c
    <2>2. r \in 0..(job.height - 1) /\ c \in 0..(job.width - 1)
      BY <1>2, <2>1, Zenon DEF Span
    <2>3. p \in [1..num_components(job.in) -> Samples]
      BY <1>2, <2>2, PixelsAssumption, Zenon DEF Samples
    <2> HIDE DEF p
    <2>4. color_convert(setup.cconv, p)[k] \in Samples
      BY <1>2, <1>3, <1>4, <1>5, <2>3, ConvertsSamples, Zenon
    <2> QED
      BY <2>4, Zenon DEF PixelAt, ConvertedPixel, p, r, c
  <1>8. ASSUME NEW y \in Int, NEW x \in Int
        PROVE  /\ PixelsOf(k)[<<y, x>>] \in Samples
               /\ PixelsOf(k)[<<y, x>>] = PixelsOf(k)[<<y, Inside(x, setup.width)>>]
    <2> DEFINE c == Inside(x, setup.width)
    <2>1. c \in Int /\ Inside(c, setup.width) = c
      BY <1>6, InsideTwice, Zenon
    <2>2. PixelsOf(k)[<<y, x>>] = PixelAt(k, y, x)
      BY <1>1, PixelIs, Zenon
    <2>3. PixelsOf(k)[<<y, c>>] = PixelAt(k, y, c)
      BY <1>1, <2>1, PixelIs, Zenon
    <2>4. PixelAt(k, y, c) = PixelAt(k, y, x)
      BY <2>1, Zenon DEF PixelAt
    <2> QED
      BY <1>7, <2>2, <2>3, <2>4, Zenon
  <1> QED
    BY <1>6, <1>8, Zenon DEF IsPicture

\* The rows of a row group, with their context if there is one.
GroupSpan == IF setup.context THEN -1..setup.maxv ELSE Span(setup.maxv)

LEMMA GroupShows ==
    ASSUME SizesOK, setup.maxv \in Nat \ {0}, NEW k, NEW g \in Int
    PROVE  Shows(Plane(GroupOf(g), k), PixelsOf(k), g * setup.maxv, GroupSpan, setup.width)
  <1> DEFINE R == g * setup.maxv
             P == Plane(GroupOf(g), k)
  <1>1. R \in Int
    OBVIOUS
  <1>2. GroupOf(g) = [y \in GroupSpan |-> RowOf(R + y)]
    BY Zenon DEF GroupOf, GroupSpan
  <1>3. P = [y \in GroupSpan |-> [x \in Span(setup.width) |-> RowOf(R + y)[x][k]]]
    BY <1>2 DEF Plane
  <1> HIDE DEF R, P
  <1>4. ASSUME NEW y \in GroupSpan
        PROVE  y \in DOMAIN P /\ \A x \in Span(setup.width) : P[y][x] = PixelsOf(k)[<<R + y, x>>]
    <2> DEFINE r == R + y
    <2>1. r \in Int
      <3>1. y \in Int
        BY DEF GroupSpan, Span
      <3> QED
        BY <1>1, <3>1
    <2> HIDE DEF r
    <2>2. ASSUME NEW x \in Span(setup.width)
          PROVE  P[y][x] = PixelsOf(k)[<<r, x>>]
      <3>1. P[y][x] = RowOf(r)[x][k]
        BY <1>3, Zenon DEF r
      <3>2. x \in Int /\ Inside(x, setup.width) = x
        BY DEF SizesOK, Span, Inside, Smaller
      <3>3. RowOf(r)[x] = ConvertedPixel(Inside(r, setup.height), x)
        BY Zenon DEF RowOf, Inside, Converted, Scanline, ConvertedPixel
      <3>4. PixelsOf(k)[<<r, x>>] = PixelAt(k, r, x)
        BY <2>1, <3>2, PixelIs, Zenon
      <3> QED
        BY <3>1, <3>2, <3>3, <3>4, Zenon DEF PixelAt
    <2>3. y \in DOMAIN P
      BY <1>3, Zenon
    <2> QED
      BY <2>2, <2>3, Zenon DEF r
  <1> QED
    BY <1>4, Zenon DEF Shows, R, P

\* A row of a group, for a component.
GroupSample(k, g, j, x) == GroupRow(k, g, j)[x]
GroupBox(k, g, j, x) ==
    LET h == setup.maxh \div setup.comps[k].hg
        v == setup.maxv \div setup.comps[k].vg
    IN  BoxAt(g * setup.maxv + v * j, h * x, v, h)

LEMMA GroupNear ==
    ASSUME NEW job \in Jobs, Prepared(job), NEW k \in Components, NEW g \in Int,
           NEW j \in Span(setup.comps[k].vg), NEW x \in Span(setup.comps[k].cols)
    PROVE  SampledNear(PixelsOf(k), setup.comps[k], setup.smoothing,
                       GroupBox(k, g, j, x), GroupSample(k, g, j, x))
  <1> DEFINE comp == setup.comps[k]
             f == PixelsOf(k)
             P == Plane(GroupOf(g), k)
             R == g * setup.maxv
  <1>1. setup = initial_setup(job) /\ Supported(setup) /\ SizesOK
    BY Zenon DEF Prepared
  <1>2. setup.maxh \in Nat \ {0} /\ setup.maxv \in Nat \ {0}
    BY <1>1, LargestFactors, Zenon
  <1>3. setup.smoothing \in Percent
    <2>1. setup.smoothing = job.smoothing
      BY <1>1, Zenon DEF initial_setup
    <2>2. job.smoothing \in 0..100
      BY PixelsAssumption
    <2> QED
      BY <2>1, <2>2, Zenon DEF Percent
  <1>4. DownsamplerFits(comp, setup.maxh, setup.maxv) /\ (NeedsContext(comp.down) => setup.context)
    BY <1>1, DownsamplersFit, Zenon
  <1>5. comp.cols \in Nat /\ setup.width <= comp.cols * (setup.maxh \div comp.hg)
    BY <1>1, ColumnsCovered, Zenon DEF Covers
  <1>6. R \in Int
    BY <1>2
  <1>7. Given(f, setup.width, R, P, GroupSpan, comp)
    <2>1. IsPicture(f, setup.width)
      BY PictureGiven, Zenon
    <2>2. Shows(P, f, R, GroupSpan, setup.width)
      BY <1>1, <1>2, GroupShows, Zenon
    <2> QED
      BY <1>5, <1>6, <2>1, <2>2, Zenon DEF Given
  <1>8. Given(f, setup.width, R, P, Span(setup.maxv), comp)
    <2>1. CASE setup.context
      <3>1. Given(f, setup.width, R, P, -1..setup.maxv, comp)
        BY <1>7, <2>1, Zenon DEF GroupSpan
      <3> QED
        BY <1>2, <3>1, GivenMore, Zenon
    <2>2. CASE ~setup.context
      BY <1>7, <2>2, Zenon DEF GroupSpan
    <2> QED
      BY <2>1, <2>2, Zenon
  <1>9. NeedsContext(comp.down) => Given(f, setup.width, R, P, -1..setup.maxv, comp)
    BY <1>4, <1>7, Zenon DEF GroupSpan
  <1>10. j \in Span(comp.vg) /\ x \in Span(comp.cols)
    OBVIOUS
  <1> HIDE DEF comp, f, P, R
  <1>11. SampledNear(f, comp, setup.smoothing,
             BoxAt(R + (setup.maxv \div comp.vg) * j, (setup.maxh \div comp.hg) * x,
                   setup.maxv \div comp.vg, setup.maxh \div comp.hg),
             downsample(P, comp, setup)[j][x])
    BY <1>2, <1>3, <1>4, <1>5, <1>8, <1>9, <1>10, MethodNear, Zenon
  <1>12. GroupSample(k, g, j, x) = downsample(P, comp, setup)[j][x]
    BY Zenon DEF GroupSample, GroupRow, P, comp
  <1> QED
    BY <1>11, <1>12, Zenon DEF GroupBox, comp, f, R

-----------------------------------------------------------------------------
(* The boxes and their sums. *)

Places == Int \X Int

LEMMA SourceRowIs ==
    ASSUME SizesOK, setup.maxv \in Nat \ {0}, NEW k, setup.comps[k].vg \in Nat \ {0},
           NEW y \in Int
    PROVE  SourceRow(k, y) \in Int
  <1> DEFINE c == Ceiling(setup.height, setup.maxv)
             r == c * setup.comps[k].vg - 1
  <1>1. c \in Int
    BY CeilingHolds, Zenon DEF SizesOK
  <1> HIDE DEF c
  <1>2. r \in Int
    BY <1>1
  <1>3. SourceRow(k, y) = y \/ SourceRow(k, y) = r
    BY Zenon DEF SourceRow, Smaller, c
  <1> QED
    BY <1>2, <1>3

\* A box is a finite set of places.
LEMMA BoxIsFinite ==
    ASSUME NEW k, NEW y \in Int, NEW x \in Int,
           setup.maxh \div setup.comps[k].hg \in Int, setup.maxv \div setup.comps[k].vg \in Int
    PROVE  Box(k, y, x) \in SUBSET Places /\ IsFiniteSet(Box(k, y, x))
  <1> DEFINE h == setup.maxh \div setup.comps[k].hg
             v == setup.maxv \div setup.comps[k].vg
             rows == v * y .. v * y + v - 1
             cols == h * x .. h * x + h - 1
  <1>1. /\ v * y \in Int /\ v * y + v - 1 \in Int
        /\ h * x \in Int /\ h * x + h - 1 \in Int
    OBVIOUS
  <1>2. IsFiniteSet(rows) /\ IsFiniteSet(cols)
    <2> HIDE DEF h, v
    <2> QED
      BY <1>1, FS_Interval
  <1>3. rows \in SUBSET Int /\ cols \in SUBSET Int
    OBVIOUS
  <1>4. Box(k, y, x) = rows \X cols
    BY Zenon DEF Box
  <1> HIDE DEF rows, cols
  <1>5. IsFiniteSet(rows \X cols)
    BY <1>2, FS_Product
  <1> QED
    BY <1>3, <1>4, <1>5 DEF Places

\* A row of a component is made of the boxes of its pixels.
LEMMA RowNear ==
    ASSUME NEW job \in Jobs, Prepared(job), NEW k \in Components, NEW y \in Int,
           NEW x \in Span(setup.comps[k].cols)
    PROVE  SampledNear(PixelsOf(k), setup.comps[k], setup.smoothing,
                       Box(k, SourceRow(k, y), x), PlaneRow(k, y)[x])
  <1> DEFINE comp == setup.comps[k]
             S == SourceRow(k, y)
             g == S \div comp.vg
             j == S % comp.vg
             v == setup.maxv \div comp.vg
  <1>1. setup = initial_setup(job) /\ Supported(setup) /\ SizesOK
    BY Zenon DEF Prepared
  <1>2. comp.vg \in Nat \ {0} /\ setup.maxv \in Nat \ {0}
    BY <1>1, LargestFactors, ComponentIs, Zenon
  <1>3. setup.maxv % comp.vg = 0
    BY <1>1, DownsamplersFit, Zenon
  <1>4. S \in Int
    BY <1>1, <1>2, SourceRowIs, Zenon
  <1>5. PlaneRow(k, y)[x] = GroupSample(k, g, j, x)
    BY Zenon DEF PlaneRow, GroupSample
  <1> HIDE DEF S
  <1>6. g \in Int /\ j \in Span(comp.vg) /\ S = g * comp.vg + j
    BY <1>2, <1>4, Divided, Zenon DEF Span
  <1>7. v \in Int /\ setup.maxv = v * comp.vg
    <2>1. setup.maxv \in Int
      BY <1>2
    <2>2. v \in Int /\ setup.maxv = v * comp.vg + 0
      BY <1>2, <1>3, <2>1, Divided, Zenon
    <2>3. v * comp.vg \in Int
      BY <1>2, <2>2
    <2> QED
      BY <2>2, <2>3
  <1>8. v * S = g * setup.maxv + v * j
    <2> DEFINE c == comp.vg
    <2>1. c \in Int /\ j \in Int /\ g \in Int /\ v \in Int
      BY <1>2, <1>6, <1>7 DEF Span
    <2>2. S = g * c + j /\ setup.maxv = v * c
      BY <1>6, <1>7
    <2> HIDE DEF c, g, j, v
    <2>3. v * (g * c + j) = g * (v * c) + v * j
      BY <2>1, SMTT(30)
    <2> QED
      BY <2>2, <2>3, Zenon
  <1>9. Box(k, S, x) = GroupBox(k, g, j, x)
    BY <1>8, Zenon DEF Box, GroupBox, BoxAt
  <1> HIDE DEF g, j
  <1>10. SampledNear(PixelsOf(k), comp, setup.smoothing, GroupBox(k, g, j, x),
                     GroupSample(k, g, j, x))
    BY <1>6, GroupNear, Zenon
  <1> QED
    BY <1>5, <1>9, <1>10, Zenon DEF S, g, j

PixelSum(k, S) == MapThenSumSet(LAMBDA p : At(k, p[1], p[2]), S)

LEMMA PixelTotal ==
    ASSUME NEW k, NEW S \in SUBSET Places
    PROVE  PixelSum(k, S) = Total(PixelsOf(k), S)
  <1> DEFINE f == PixelsOf(k)
             Left(iter) == [s \in SUBSET S |->
                 IF s = {} THEN 0
                 ELSE At(k, AnyOf(s)[1], AnyOf(s)[2]) + iter[s \ {AnyOf(s)}]]
             Right(iter) == [s \in SUBSET S |->
                 IF s = {} THEN 0 ELSE f[AnyOf(s)] + iter[s \ {AnyOf(s)}]]
  <1>1. ASSUME NEW iter
        PROVE  Left(iter) = Right(iter)
    <2>1. ASSUME NEW s \in SUBSET S, s # {}
          PROVE  f[AnyOf(s)] = At(k, AnyOf(s)[1], AnyOf(s)[2])
      <3>1. AnyOf(s) \in Places
        BY <2>1, AnyOfIn
      <3> QED
        BY <3>1, Zenon DEF PixelsOf, Places
    <2> HIDE DEF f
    <2> QED
      BY <2>1, Zenon
  <1> HIDE DEF f
  <1>2. (CHOOSE iter : iter = Left(iter)) = (CHOOSE iter : iter = Right(iter))
    <2> HIDE DEF Left, Right
    <2> QED
      BY <1>1, Zenon
  <1>3. PixelSum(k, S) = (CHOOSE iter : iter = Left(iter))[S]
    BY Zenon DEF PixelSum, MapThenSumSet, MapThenFoldSet, AnyOf
  <1>4. Total(f, S) = (CHOOSE iter : iter = Right(iter))[S]
    BY Zenon DEF Total, MapThenSumSet, MapThenFoldSet, AnyOf
  <1> QED
    BY <1>2, <1>3, <1>4, Zenon DEF f

SmoothPixels(k) == SmoothOf(PixelsOf(k), setup.smoothing)
SmoothSum(k, S) == MapThenSumSet(LAMBDA p : Smoothed(k, p), S)

LEMMA SmoothedIs ==
    ASSUME NEW k, NEW p \in Places
    PROVE  SmoothPixels(k)[p] = Smoothed(k, p)
  <1>1. Ring(p) \in SUBSET Places
    <2>1. p[1] - 1 .. p[1] + 1 \subseteq Int /\ p[2] - 1 .. p[2] + 1 \subseteq Int
      OBVIOUS
    <2> QED
      BY <2>1 DEF Ring, Places
  <1>2. PixelSum(k, Ring(p)) = Total(PixelsOf(k), Ring(p))
    BY <1>1, PixelTotal, Zenon
  <1>3. PixelsOf(k)[p] = At(k, p[1], p[2])
    BY Zenon DEF PixelsOf, Places
  <1>4. SmoothPixels(k)[p] = (1024 - 8 * setup.smoothing) * PixelsOf(k)[p]
                                 + setup.smoothing * Total(PixelsOf(k), Ring(p))
    BY DEF SmoothPixels, SmoothOf, Places
  <1>5. Smoothed(k, p) = (1024 - 8 * setup.smoothing) * At(k, p[1], p[2])
                             + setup.smoothing * PixelSum(k, Ring(p))
    BY DEF Smoothed, PixelSum, Ring, Around
  <1> QED
    BY <1>2, <1>3, <1>4, <1>5

LEMMA SmoothTotal ==
    ASSUME NEW k, NEW S \in SUBSET Places
    PROVE  SmoothSum(k, S) = Total(SmoothPixels(k), S)
  <1> DEFINE f == SmoothPixels(k)
             Left(iter) == [s \in SUBSET S |->
                 IF s = {} THEN 0 ELSE Smoothed(k, AnyOf(s)) + iter[s \ {AnyOf(s)}]]
             Right(iter) == [s \in SUBSET S |->
                 IF s = {} THEN 0 ELSE f[AnyOf(s)] + iter[s \ {AnyOf(s)}]]
  <1>1. ASSUME NEW iter
        PROVE  Left(iter) = Right(iter)
    <2>1. ASSUME NEW s \in SUBSET S, s # {}
          PROVE  f[AnyOf(s)] = Smoothed(k, AnyOf(s))
      <3>1. AnyOf(s) \in Places
        BY <2>1, AnyOfIn
      <3> QED
        BY <3>1, SmoothedIs, Zenon
    <2> HIDE DEF f
    <2> QED
      BY <2>1, Zenon
  <1> HIDE DEF f
  <1>2. (CHOOSE iter : iter = Left(iter)) = (CHOOSE iter : iter = Right(iter))
    <2> HIDE DEF Left, Right
    <2> QED
      BY <1>1, Zenon
  <1>3. SmoothSum(k, S) = (CHOOSE iter : iter = Left(iter))[S]
    BY Zenon DEF SmoothSum, MapThenSumSet, MapThenFoldSet, AnyOf
  <1>4. Total(f, S) = (CHOOSE iter : iter = Right(iter))[S]
    BY Zenon DEF Total, MapThenSumSet, MapThenFoldSet, AnyOf
  <1> QED
    BY <1>2, <1>3, <1>4, Zenon DEF f

\* A mean that is off by a half at most is near.
LEMMA MeanIsNear ==
    ASSUME NEW n \in Int, NEW s, NEW t, IsMean(n, s, t)
    PROVE  Distance(n * s, t) \in Int /\ 2 * Distance(n * s, t) <= n
  <1> DEFINE p == n * s
  <1>1. p \in Int /\ t \in Int /\ 2 * p - 2 * t <= n /\ 2 * t - 2 * p <= n
    BY DEF IsMean
  <1> HIDE DEF p
  <1>2. Distance(p, t) \in Int /\ 2 * Distance(p, t) <= n
    BY <1>1 DEF Distance
  <1> QED
    BY <1>2 DEF p

LEMMA SampledIsNear ==
    ASSUME NEW k, NEW box \in SUBSET Places, IsFiniteSet(box), NEW sample,
           SampledNear(PixelsOf(k), setup.comps[k], setup.smoothing, box, sample)
    PROVE  NearMean(k, sample, box)
  <1> DEFINE n == Cardinality(box)
  <1>1. n \in Nat
    BY FS_CardinalityType
  <1> HIDE DEF n
  <1>2. CASE NeedsContext(setup.comps[k].down)
    <2> DEFINE w == 1024 * n
               d == Distance(w * sample, SmoothSum(k, box))
    <2>1. IsMean(w, sample, SmoothSum(k, box))
      BY <1>2, SmoothTotal, Zenon DEF SampledNear, SmoothNear, SmoothPixels, n
    <2>2. w \in Int
      BY <1>1
    <2>3. d \in Int /\ 2 * d <= w
      <3> HIDE DEF w
      <3> QED
        BY <2>1, <2>2, MeanIsNear
    <2> HIDE DEF d
    <2>4. d <= 512 * n
      BY <1>1, <2>3
    <2> QED
      BY <1>2, <2>4 DEF NearMean, SmoothSum, d, n
  <1>3. CASE ~NeedsContext(setup.comps[k].down)
    <2>1. IsMean(n, sample, PixelSum(k, box))
      BY <1>3, PixelTotal, Zenon DEF SampledNear, MeanNear, n
    <2>2. 2 * Distance(n * sample, PixelSum(k, box)) <= n
      BY <1>1, <2>1, MeanIsNear
    <2> QED
      BY <1>3, <2>2 DEF NearMean, PixelSum, n
  <1> QED
    BY <1>2, <1>3

-----------------------------------------------------------------------------
(* The samples that are taken. *)

(***************************************************************************)
(* PlanesNear: every sample that reaches the coefficient controller is the *)
(* mean of the pixels it stands for, rounded within a half and smoothed if *)
(* that was asked for, where the image goes on beyond its edges as         *)
(* jcprepct.c:28-45 promises: for every image, colour conversion, sampling *)
(* factors and smoothing factor, each of the methods of jcsample.c,        *)
(* however the image is divided into calls and whatever the coefficient    *)
(* controller refuses.                                                     *)
(***************************************************************************)
THEOREM SamplesAreMeans == Spec => []PlanesNear
  <1>1. RowsKept /\ RowsReadExact /\ Compressing /\ ReadsWhole => PlanesNear
    <2> SUFFICES ASSUME RowsKept, RowsReadExact, Compressing, ReadsWhole,
                        NEW n \in DOMAIN coef, NEW k \in Components,
                        NEW y \in DOMAIN coef[n][k], NEW x \in Span(setup.comps[k].cols)
                 PROVE  NearMean(k, coef[n][k][y][x],
                                 Box(k, SourceRow(k, (n - 1) * setup.comps[k].vg * DCTSIZE + y), x))
      BY Zenon DEF PlanesNear
    <2> DEFINE c == setup.comps[k].vg
               i == (n - 1) * (c * DCTSIZE) + y
               s == SourceRow(k, i)
    <2>1. PICK job \in Jobs : setup = initial_setup(job) /\ Supported(initial_setup(job))
      BY Zenon DEF ReadsWhole
    <2>2. Prepared(job)
      BY <2>1, Zenon DEF RowsReadExact, ReadSetup, Prepared, SizesOK
    <2>3. c \in Nat \ {0} /\ setup.maxv \in Nat \ {0} /\ SizesOK
      BY <2>1, <2>2, LargestFactors, ComponentIs, Zenon DEF Prepared
    <2>4. DCTSIZE \in Nat \ {0}
      BY PixelsAssumption
    <2>5. coef = [m \in 1..cmain.cur_iMCU_row |-> [q \in Components |-> PlaneIMCU(q, m - 1)]]
      BY Zenon DEF RowsKept, TakenExact
    <2>6. n \in Int
      <3>1. n \in 1..cmain.cur_iMCU_row
        BY <2>5, Zenon
      <3> QED
        BY <3>1
    <2>7. coef[n][k] = PlaneIMCU(k, n - 1)
      BY <2>5, Zenon
    <2>8. y \in Span(c * DCTSIZE) /\ coef[n][k][y] = PlaneRow(k, i)
      BY <2>7, Zenon DEF PlaneIMCU
    <2> HIDE DEF c
    <2>9. y \in Int
      BY <2>8 DEF Span
    <2>10. i \in Int /\ i = (n - 1) * c * DCTSIZE + y
      <3>1. (n - 1) * (c * DCTSIZE) \in Int
        BY <2>3, <2>4, <2>6
      <3>2. (n - 1) * (c * DCTSIZE) = (n - 1) * c * DCTSIZE
        BY <2>3, <2>4, <2>6, SMTT(30)
      <3> QED
        BY <2>9, <3>1, <3>2
    <2>11. s = SourceRow(k, (n - 1) * setup.comps[k].vg * DCTSIZE + y)
      BY <2>10, Zenon DEF c
    <2> HIDE DEF i
    <2>12. SampledNear(PixelsOf(k), setup.comps[k], setup.smoothing, Box(k, s, x),
                       coef[n][k][y][x])
      BY <2>2, <2>8, <2>10, RowNear, Zenon
    <2>13. Box(k, s, x) \in SUBSET Places /\ IsFiniteSet(Box(k, s, x))
      <3>1. s \in Int
        BY <2>3, <2>10, SourceRowIs, Zenon DEF c
      <3>2. x \in Int
        BY DEF Span
      <3>3. /\ setup.maxh \in Nat \ {0} /\ setup.comps[k].hg \in Nat \ {0}
            /\ setup.comps[k].vg \in Nat \ {0}
        BY <2>1, LargestFactors, ComponentIs, Zenon
      <3>4. /\ setup.maxh \div setup.comps[k].hg \in Int
            /\ setup.maxv \div setup.comps[k].vg \in Int
        <4>1. \A a \in Nat \ {0} : a \in Int
          OBVIOUS
        <4> QED
          BY <2>3, <3>3, <4>1, Divided, Zenon
      <3> HIDE DEF s
      <3> QED
        BY <3>1, <3>2, <3>4, BoxIsFinite, Zenon
    <2> HIDE DEF s
    <2>14. NearMean(k, coef[n][k][y][x], Box(k, s, x))
      BY <2>12, <2>13, SampledIsNear, Zenon
    <2> QED
      BY <2>11, <2>14, Zenon
  <1>2. Spec => []ReadsWhole
    BY BuffersHold, InitReadsWhole, NextReadsWhole, PTL DEF Spec
  <1> QED
    BY <1>1, <1>2, CountersAgree, BuffersHold, ReadersAgree, PTL
=============================================================================
