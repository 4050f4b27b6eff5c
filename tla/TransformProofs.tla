--------------------------- MODULE TransformProofs ---------------------------
(***************************************************************************)
(* Proofs about Transform for images of every size, every number of        *)
(* components with any sampling factors, and every job: the index          *)
(* arithmetic of transupp.c.  The eight routines are shown to be cases of  *)
(* one formula (Turn), and what the model promises follows from it.        *)
(***************************************************************************)
EXTENDS Transform, FiniteSetTheorems, TLAPS

----------------------------------------------------------------------------
\* Division.

LEMMA Quotient ==
    ASSUME NEW a \in Nat, NEW b \in Nat \ {0}
    PROVE  /\ a \div b \in Nat /\ a % b \in Nat
           /\ a % b < b
           /\ a = (a \div b) * b + (a % b)
           /\ (a \div b) * b <= a
           /\ a < ((a \div b) + 1) * b
  OBVIOUS

LEMMA Products ==
    ASSUME NEW a \in Nat, NEW b \in Nat, NEW c \in Nat
    PROVE  /\ a * b \in Nat
           /\ a <= b => a * c <= b * c
           /\ (a + b) * c = a * c + b * c
           /\ (a + 1) * c = a * c + c
           /\ (a * b) * c = a * (b * c)
           /\ a * b = b * a
  OBVIOUS

\* Multiples are compared as what they are multiples of.
LEMMA Cancel ==
    ASSUME NEW a \in Nat, NEW b \in Nat, NEW c \in Nat \ {0}
    PROVE  /\ a * c < b * c <=> a < b
           /\ a * c <= b * c <=> a <= b
           /\ a < b => a * c + c <= b * c
  <1>1. a < b => a * c + c <= b * c
    <2> SUFFICES ASSUME a < b PROVE a * c + c <= b * c
      OBVIOUS
    <2>1. (a + 1) * c <= b * c
      BY Products
    <2> QED
      BY <2>1, Products
  <1>2. a * c \in Nat /\ b * c \in Nat
    BY Products
  <1>3. b <= a => b * c <= a * c
    BY Products
  <1>4. a <= b => a * c <= b * c
    BY Products
  <1> QED
    BY <1>1, <1>2, <1>3, <1>4

\* What is below a quotient, and below one that is rounded up.
LEMMA BelowDiv ==
    ASSUME NEW n \in Nat, NEW a \in Nat, NEW b \in Nat \ {0}
    PROVE  /\ n < a \div b <=> n * b + b <= a
           /\ n <= a \div b <=> n * b <= a
  <1> DEFINE q == a \div b
  <1>1. q \in Nat /\ q * b <= a /\ a < q * b + b /\ q * b \in Nat /\ n * b \in Nat
    BY Quotient, Products
  <1> HIDE DEF q
  <1>2. n < q => n * b + b <= q * b
    BY <1>1, Cancel
  <1>3. q <= n => q * b <= n * b
    BY <1>1, Cancel
  <1>4. n <= q => n * b <= q * b
    BY <1>1, Cancel
  <1>5. q < n => q * b + b <= n * b
    BY <1>1, Cancel
  <1>6. (n < q <=> n * b + b <= a) /\ (n <= q <=> n * b <= a)
    BY <1>1, <1>2, <1>3, <1>4, <1>5
  <1> QED
    BY <1>6 DEF q

LEMMA BelowCeil ==
    ASSUME NEW n \in Nat, NEW a \in Nat, NEW b \in Nat \ {0}
    PROVE  /\ CeilDiv(a, b) \in Nat
           /\ n < CeilDiv(a, b) <=> n * b < a
  <1>1. a + b - 1 \in Nat /\ n * b \in Nat
    BY Products
  <1>2. CeilDiv(a, b) \in Nat
    BY <1>1, Quotient DEF CeilDiv
  <1>3. n < (a + b - 1) \div b <=> n * b + b <= a + b - 1
    BY <1>1, BelowDiv
  <1> QED
    BY <1>1, <1>2, <1>3 DEF CeilDiv

LEMMA DivIs ==
    ASSUME NEW a \in Nat, NEW b \in Nat \ {0}, NEW q \in Nat,
           q * b <= a, a < q * b + b
    PROVE  a \div b = q
  <1>1. a \div b \in Nat /\ q * b \in Nat
    BY Quotient, Products
  <1>2. q <= a \div b
    BY BelowDiv
  <1>3. ~(q < a \div b)
    BY <1>1, BelowDiv
  <1> QED
    BY <1>1, <1>2, <1>3

\* A multiple is divided without a rest.
LEMMA DivMultiple ==
    ASSUME NEW a \in Nat, NEW b \in Nat \ {0}
    PROVE  (a * b) \div b = a
  BY DivIs, Products

LEMMA CeilIs ==
    ASSUME NEW a \in Nat, NEW b \in Nat \ {0}, NEW q \in Nat,
           \A n \in Nat : n < q <=> n * b < a
    PROVE  CeilDiv(a, b) = q
  <1>1. CeilDiv(a, b) \in Nat
    BY BelowCeil
  <1>2. \A n \in Nat : n < q <=> n < CeilDiv(a, b)
    BY BelowCeil
  <1> QED
    BY <1>1, <1>2

----------------------------------------------------------------------------
\* Rows and columns of blocks: an iMCU has f of them.

LEMMA Strip ==
    ASSUME NEW n \in Nat, NEW f \in Nat \ {0}
    PROVE  /\ First(n, f) \in Nat /\ First(n, f) = (n \div f) * f
           /\ First(n, f) <= n /\ n < First(n, f) + f
           /\ n = First(n, f) + (n % f) /\ n \div f \in Nat
  BY Quotient DEF First

\* It is the same to ask of a strip's first row and of the row itself whether it
\* is before the end of whole iMCUs, or behind an offset in iMCUs.
LEMMA StripBefore ==
    ASSUME NEW n \in Nat, NEW f \in Nat \ {0}, NEW o \in Nat, NEW w \in Nat
    PROVE  /\ First(n, f) + o * f < w * f <=> n + o * f < w * f
           /\ o * f <= First(n, f) <=> o * f <= n
           /\ First(n, f) < w * f <=> n < w * f
  <1> DEFINE k == n \div f
  <1>1. /\ k \in Nat /\ First(n, f) = k * f /\ k * f <= n /\ n < k * f + f
        /\ First(n, f) \in Nat /\ o * f \in Nat /\ w * f \in Nat
    <2>1. o * f \in Nat /\ w * f \in Nat
      BY Products
    <2> HIDE DEF First
    <2> QED
      BY <2>1, Strip
  <1> HIDE DEF k
  <1>2. (k + o) * f = k * f + o * f /\ k + o \in Nat
    BY <1>1, Products
  <1>3. k * f + o * f < w * f => k * f + o * f + f <= w * f
    BY <1>1, <1>2, Cancel
  <1>4. k * f < w * f => k * f + f <= w * f
    BY <1>1, Cancel
  <1>5. k * f < o * f => k * f + f <= o * f
    BY <1>1, Cancel
  <1> QED
    BY <1>1, <1>3, <1>4, <1>5

LEMMA BackwardsIs ==
    ASSUME NEW length \in Nat, NEW offset \in Nat, NEW n \in Nat, NEW f \in Nat \ {0}
    PROVE  Backwards(length, offset, n, f) = length - 1 - (n + offset)
  <1>1. First(n, f) \in Nat /\ n % f \in Nat /\ n = First(n, f) + (n % f)
    BY Strip, Quotient
  <1> HIDE DEF First
  <1> QED
    BY <1>1 DEF Backwards

\* A window of s samples that begins o iMCUs into an image of S: its blocks, and
\* its iMCUs' blocks, are blocks of the image.
LEMMA Window ==
    ASSUME NEW S \in Nat, NEW s \in Nat, NEW U \in Nat \ {0}, NEW h \in Nat \ {0},
           NEW o \in Nat, o * U + s <= S, NEW x \in Nat
    PROVE  /\ x < CeilDiv(s * h, U) => x + o * h < CeilDiv(S * h, U)
           /\ x < CeilDiv(s, U) * h => x + o * h < CeilDiv(S, U) * h
  <1>1. x < CeilDiv(s * h, U) => x + o * h < CeilDiv(S * h, U)
    <2>1. s * h \in Nat /\ S * h \in Nat /\ o * h \in Nat /\ o * U \in Nat
      BY Products
    <2>2. (o * U + s) * h <= S * h
      BY <2>1, Products
    <2>3. (o * U + s) * h = (o * U) * h + s * h
      BY <2>1, Products
    <2>4. (o * U) * h = (o * h) * U
      BY Products
    <2>5. (x + o * h) * U = x * U + (o * h) * U
      BY <2>1, Products
    <2>6. x * U \in Nat /\ (o * h) * U \in Nat
      BY <2>1, Products
    <2>7. x * U < s * h => (x + o * h) * U < S * h
      BY <2>1, <2>2, <2>3, <2>4, <2>5, <2>6
    <2>8. x < CeilDiv(s * h, U) <=> x * U < s * h
      BY <2>1, BelowCeil
    <2>9. x + o * h < CeilDiv(S * h, U) <=> (x + o * h) * U < S * h
      <3>1. x + o * h \in Nat
        BY <2>1
      <3> QED
        BY <2>1, <3>1, BelowCeil
    <2> QED
      BY <2>7, <2>8, <2>9
  <1>2. ASSUME x < CeilDiv(s, U) * h
        PROVE  x + o * h < CeilDiv(S, U) * h
    <2> DEFINE c == CeilDiv(s, U)
    <2>1. c \in Nat /\ CeilDiv(S, U) \in Nat
      BY BelowCeil
    <2>2. c # 0
      BY <1>2
    <2>3. c - 1 \in Nat /\ c - 1 < CeilDiv(s, U)
      BY <2>1, <2>2
    <2> HIDE DEF c
    <2>4. (c - 1) * U < s
      BY <2>3, BelowCeil
    <2>5. ((c - 1) + o) * U = (c - 1) * U + o * U /\ (c - 1) * U \in Nat /\ o * U \in Nat
      BY <2>3, Products
    <2>6. (c - 1) + o < CeilDiv(S, U)
      BY <2>3, <2>4, <2>5, BelowCeil
    <2>7. c + o <= CeilDiv(S, U) /\ c + o \in Nat
      BY <2>1, <2>6
    <2>8. (c + o) * h <= CeilDiv(S, U) * h
      BY <2>1, <2>7, Products
    <2>9. (c + o) * h = c * h + o * h /\ c * h \in Nat /\ o * h \in Nat
      BY <2>1, Products
    <2>10. CeilDiv(S, U) * h \in Nat
      BY <2>1, Products
    <2> QED
      BY <1>2, <2>8, <2>9, <2>10 DEF c
  <1> QED
    BY <1>1, <1>2

\* The blocks of whole iMCUs are seen, and what is seen is in the padded array.
LEMMA WholeSeenPadded ==
    ASSUME NEW S \in Nat, NEW U \in Nat \ {0}, NEW h \in Nat \ {0}
    PROVE  /\ (S \div U) * h \in Nat /\ CeilDiv(S * h, U) \in Nat
           /\ CeilDiv(S, U) * h \in Nat
           /\ (S \div U) * h <= CeilDiv(S * h, U)
           /\ CeilDiv(S * h, U) <= CeilDiv(S, U) * h
           /\ Padded(CeilDiv(S * h, U), h) = CeilDiv(S, U) * h
  <1>1. S * h \in Nat /\ S \div U \in Nat /\ (S \div U) * U <= S /\ (S \div U) * h \in Nat
    BY Quotient, Products
  <1>2. CeilDiv(S * h, U) \in Nat /\ CeilDiv(S, U) \in Nat
    BY <1>1, BelowCeil
  <1>3. CeilDiv(S, U) * h \in Nat
    BY <1>2, Products
  <1>4. (S \div U) * h <= CeilDiv(S * h, U)
    <2> DEFINE c == CeilDiv(S * h, U)
               w == S \div U
    <2>1. ((w * U) * h) <= S * h /\ (w * U) * h = (w * h) * U
      BY <1>1, Products
    <2>2. ~(c * U < S * h)
      BY <1>1, <1>2, BelowCeil
    <2>3. c * U \in Nat /\ (w * h) * U \in Nat
      BY <1>1, <1>2, Products
    <2> HIDE DEF c, w
    <2>4. (w * h) * U <= c * U
      BY <1>1, <2>1, <2>2, <2>3
    <2>5. w * h \in Nat /\ c \in Nat
      BY <1>1, <1>2 DEF w, c
    <2>6. w * h <= c
      BY <2>4, <2>5, Cancel
    <2> QED
      BY <2>6 DEF w, c
  <1>5. \A n \in Nat : n < CeilDiv(S, U) <=> n * h < CeilDiv(S * h, U)
    <2> TAKE n \in Nat
    <2>1. n * h \in Nat /\ n * U \in Nat
      BY Products
    <2>2. n < CeilDiv(S, U) <=> n * U < S
      BY BelowCeil
    <2>3. n * h < CeilDiv(S * h, U) <=> (n * h) * U < S * h
      BY <1>1, <2>1, BelowCeil
    <2>4. (n * h) * U = (n * U) * h
      BY Products
    <2>5. (n * U) * h < S * h <=> n * U < S
      BY <2>1, Cancel
    <2> QED
      BY <2>2, <2>3, <2>4, <2>5
  <1>6. CeilDiv(CeilDiv(S * h, U), h) = CeilDiv(S, U)
    BY <1>2, <1>5, CeilIs
  <1>7. CeilDiv(S * h, U) <= CeilDiv(S, U) * h
    <2>1. ~(CeilDiv(S, U) < CeilDiv(S, U))
      BY <1>2
    <2>2. ~(CeilDiv(S, U) * h < CeilDiv(S * h, U))
      BY <1>2, <1>5, <2>1
    <2> QED
      BY <1>2, <1>3, <2>2
  <1> QED
    BY <1>1, <1>2, <1>3, <1>4, <1>6, <1>7 DEF Padded

----------------------------------------------------------------------------
\* The request, axis by axis.

\* A crop that is not refused lies within the image, or the image within it.
LEMMA CropFits ==
    ASSUME NEW spec \in CropSpecs, NEW S \in Nat \ {0}, NEW t, ~BadCrop(spec, S, t)
    PROVE  /\ CropLength(spec, S) \in Nat \ {0} /\ CropOffset(spec, S) \in Nat
           /\ CropLength(spec, S) <= S => CropOffset(spec, S) + CropLength(spec, S) <= S
           /\ CropLength(spec, S) > S =>
                 t = "none" /\ CropOffset(spec, S) + S <= CropLength(spec, S)
  <1>1. /\ spec.set \in {"unset", "pos", "force"} /\ spec.length \in Nat
        /\ spec.side \in {"near", "far"} /\ spec.offset \in Nat
    BY DEF CropSpecs
  <1>2. CASE spec.set = "unset"
    BY <1>1, <1>2 DEF BadCrop, CropLength, CropOffset
  <1>3. CASE spec.set # "unset"
    BY <1>1, <1>3 DEF BadCrop, CropLength, CropOffset
  <1> QED
    BY <1>2, <1>3

\* What CropFits and the iMCU make of the size and the offset.
LEMMA CroppedFits ==
    ASSUME NEW spec \in CropSpecs, NEW S \in Nat \ {0}, NEW U \in Nat \ {0}, NEW t,
           ~BadCrop(spec, S, t),
           NEW o, o = CropOffset(spec, S) \div U,
           NEW c, c = CroppedSize(spec, S, U)
    PROVE  /\ o \in Nat /\ c \in Nat \ {0}
           /\ o * U <= CropOffset(spec, S) /\ CropOffset(spec, S) < (o + 1) * U
           /\ c <= S => o * U + c <= S
           /\ c > S => t = "none" /\ S + o * U <= c
           /\ spec.set # "force" /\ c <= S =>
                 CropOffset(spec, S) + CropLength(spec, S) = o * U + c
  <1> DEFINE L == CropLength(spec, S)
             O == CropOffset(spec, S)
  <1>1. /\ L \in Nat \ {0} /\ O \in Nat
        /\ L <= S => O + L <= S
        /\ L > S => t = "none" /\ O + S <= L
    BY CropFits
  <1> DEFINE R == O % U
             P == o * U
  <1>2. c = IF spec.set = "force" \/ L > S THEN L ELSE L + R
    BY DEF CroppedSize
  <1>3. o \in Nat /\ P <= O /\ O < (o + 1) * U /\ O = P + R /\ R \in Nat /\ P \in Nat
    BY <1>1, Quotient, Products
  <1>4. /\ c \in Nat \ {0}
        /\ c <= S => P + c <= S
        /\ c > S => t = "none" /\ S + P <= c
        /\ spec.set # "force" /\ c <= S => O + L = P + c
    <2> HIDE DEF L, O, R, P
    <2>1. CASE L > S
      BY <1>1, <1>2, <1>3, <2>1
    <2>2. CASE L <= S /\ spec.set = "force"
      BY <1>1, <1>2, <1>3, <2>2
    <2>3. CASE L <= S /\ spec.set # "force"
      <3>1. c = L + R
        BY <1>1, <1>2, <2>3
      <3> QED
        BY <1>1, <1>3, <2>3, <3>1
    <2> QED
      BY <1>1, <2>1, <2>2, <2>3
  <1> QED
    BY <1>3, <1>4

\* Trimming leaves iMCUs that are whole in the source, if it leaves one at all.
LEMMA TrimmedFits ==
    ASSUME NEW size \in Nat \ {0}, NEW o \in Nat, NEW S \in Nat, NEW U \in Nat \ {0},
           o * U + size <= S, NEW c, c = Trimmed(size, o, S, U)
    PROVE  /\ c \in Nat \ {0} /\ c <= size
           /\ c >= U => o * U + c <= (S \div U) * U
  <1> DEFINE m == size \div U
             w == S \div U
  <1>1. /\ m \in Nat /\ m * U <= size /\ size < m * U + U /\ m * U \in Nat
        /\ w \in Nat /\ w * U <= S /\ w * U \in Nat /\ o * U \in Nat
    BY Quotient, Products
  <1>2. c = IF m > 0 /\ o + m = w THEN m * U ELSE size
    BY DEF Trimmed
  <1> HIDE DEF m, w
  <1>3. (o + m) * U = o * U + m * U /\ o + m \in Nat
    BY <1>1, Products
  <1>4. CASE m > 0 /\ o + m = w
    <2>1. c = m * U /\ o * U + c = w * U
      BY <1>2, <1>3, <1>4
    <2>2. 0 < m => 0 * U < m * U
      BY <1>1, Cancel
    <2> QED
      BY <1>1, <1>4, <2>1, <2>2 DEF w
  <1>5. CASE ~(m > 0 /\ o + m = w)
    <2>1. c = size
      BY <1>2, <1>5
    <2>2. ASSUME c >= U PROVE o * U + c <= w * U
      <3>1. m > 0
        <4>1. m = 0 => m * U = 0
          OBVIOUS
        <4> QED
          BY <1>1, <2>1, <2>2, <4>1
      <3>2. o + m <= S \div U
        BY <1>1, <1>3, BelowDiv
      <3>3. o + m < w
        BY <1>1, <1>3, <1>5, <3>1, <3>2 DEF w
      <3>4. (o + m) * U + U <= w * U
        BY <1>1, <1>3, <3>3, Cancel
      <3> QED
        BY <1>1, <1>3, <2>1, <3>4
    <2> QED
      BY <2>1, <2>2 DEF w
  <1> QED
    BY <1>4, <1>5

\* An axis of what jtransform_request_workspace has worked out: the window lies
\* within the image, or the image, that is not transformed, within the window; and
\* a trimmed one that has an iMCU lies within the whole iMCUs.
AxisFits(crop, t, a, S, U, trims) ==
    /\ a.size \in Nat \ {0} /\ a.offset \in Nat /\ a.drop \in Nat
    /\ ~crop => a.offset = 0 /\ (~trims => a.size = S)
    /\ t = "wipe" => a.size = S
    /\ t # "wipe" /\ a.size <= S => a.offset * U + a.size <= S
    /\ a.size > S => t = "none" /\ S + a.offset * U <= a.size
    /\ trims /\ a.size >= U => a.offset * U + a.size <= (S \div U) * U

LEMMA Requested ==
    ASSUME NEW crop \in BOOLEAN, NEW spec \in CropSpecs, NEW S \in Nat \ {0},
           NEW U \in Nat \ {0}, NEW t, NEW trims \in BOOLEAN,
           crop => ~BadCrop(spec, S, t),
           trims => t \notin {"none", "wipe"},
           NEW a, a = RequestedSize(crop, spec, S, U, t, trims), t = "wipe" => crop
    PROVE  AxisFits(crop, t, a, S, U, trims)
  <1> DEFINE o == IF crop THEN CropOffset(spec, S) \div U ELSE 0
             c == IF crop /\ t # "wipe" THEN CroppedSize(spec, S, U) ELSE S
  <1>1. /\ a.size = IF trims THEN Trimmed(c, o, S, U) ELSE c
        /\ a.offset = o
        /\ a.drop = IF t = "wipe" THEN DropSize(spec, S, U) ELSE 0
    BY DEF RequestedSize
  <1>2. crop => CropLength(spec, S) \in Nat /\ CropOffset(spec, S) \in Nat
    BY CropFits
  <1>3. a.drop \in Nat
    <2>1. CASE t = "wipe"
      <3>1. CropLength(spec, S) + (CropOffset(spec, S) % U) \in Nat
        BY <1>2, <2>1, Quotient
      <3> QED
        BY <1>1, <2>1, <3>1, BelowCeil DEF DropSize
    <2>2. CASE t # "wipe"
      BY <1>1, <2>2
    <2> QED
      BY <2>1, <2>2
  <1>4. o \in Nat
    BY <1>2, Quotient
  <1>5. crop /\ t # "wipe" =>
           /\ c \in Nat \ {0}
           /\ c <= S => o * U + c <= S
           /\ c > S => t = "none" /\ S + o * U <= c
    BY CroppedFits
  <1>6. ~(crop /\ t # "wipe") => c = S /\ (t # "wipe" => o = 0)
    OBVIOUS
  <1>7. ~crop => o = 0 /\ c = S
    OBVIOUS
  <1>8. o * U \in Nat /\ (o = 0 => o * U = 0)
    BY <1>4, Products
  <1> HIDE DEF o, c
  <1>9. /\ c \in Nat \ {0}
        /\ t # "wipe" /\ c <= S => o * U + c <= S
        /\ c > S => t = "none" /\ S + o * U <= c
        /\ t = "wipe" => c = S
    BY <1>5, <1>6, <1>7, <1>8
  <1>10. CASE ~trims
    BY <1>1, <1>3, <1>4, <1>7, <1>9, <1>10 DEF AxisFits
  <1>11. CASE trims
    <2>1. c <= S /\ o * U + c <= S
      BY <1>9, <1>11
    <2>2. /\ a.size \in Nat \ {0} /\ a.size <= c
          /\ a.size >= U => o * U + a.size <= (S \div U) * U
      BY <1>1, <1>4, <1>9, <1>11, <2>1, TrimmedFits
    <2>3. o * U + a.size <= S
      BY <1>8, <1>9, <2>1, <2>2
    <2> QED
      BY <1>1, <1>3, <1>4, <1>7, <1>9, <1>11, <2>1, <2>2, <2>3 DEF AxisFits
  <1> QED
    BY <1>10, <1>11

----------------------------------------------------------------------------
\* Images: the source and what is written.

LEMMA MaxIs ==
    ASSUME NEW S, S \subseteq 1..4, S # {}
    PROVE  Max(S) \in S /\ \A y \in S : y <= Max(S)
  <1>1. \E m \in S : \A y \in S : m >= y
    <2>1. S \subseteq {1, 2, 3, 4}
      OBVIOUS
    <2>2. CASE 4 \in S
      BY <2>1, <2>2
    <2>3. CASE 4 \notin S /\ 3 \in S
      BY <2>1, <2>3
    <2>4. CASE 4 \notin S /\ 3 \notin S /\ 2 \in S
      BY <2>1, <2>4
    <2>5. CASE 4 \notin S /\ 3 \notin S /\ 2 \notin S
      <3>1. S = {1}
        BY <2>1, <2>5
      <3> QED
        BY <3>1
    <2> QED
      BY <2>2, <2>3, <2>4, <2>5
  <1>2. Max(S) \in S /\ \A y \in S : Max(S) >= y
    BY <1>1 DEF Max
  <1> QED
    BY <1>2

LEMMA Comps ==
    ASSUME NEW comps \in Seq(Factors) \ {<<>>}
    PROVE  /\ Len(comps) \in Nat \ {0} /\ DOMAIN comps = 1..Len(comps) /\ 1 \in DOMAIN comps
           /\ \A i \in DOMAIN comps : /\ comps[i] \in Factors
                                      /\ comps[i].h \in 1..4 /\ comps[i].v \in 1..4
           /\ MaxH(comps) \in 1..4 /\ MaxV(comps) \in 1..4
           /\ Len(comps) = 1 => MaxH(comps) = comps[1].h /\ MaxV(comps) = comps[1].v
  <1>1. /\ Len(comps) \in Nat \ {0} /\ DOMAIN comps = 1..Len(comps)
        /\ \A i \in DOMAIN comps : comps[i] \in Factors
    OBVIOUS
  <1>2. \A i \in DOMAIN comps : comps[i].h \in 1..4 /\ comps[i].v \in 1..4
    BY <1>1 DEF Factors
  <1>3. 1 \in DOMAIN comps
    BY <1>1
  <1>4. MaxH(comps) \in {comps[i].h : i \in DOMAIN comps}
    BY <1>2, <1>3, MaxIs DEF MaxH
  <1>5. MaxV(comps) \in {comps[i].v : i \in DOMAIN comps}
    BY <1>2, <1>3, MaxIs DEF MaxV
  <1>6. Len(comps) = 1 => \A i \in DOMAIN comps : i = 1
    BY <1>1
  <1> QED
    BY <1>1, <1>2, <1>3, <1>4, <1>5, <1>6

\* transpose_critical_parameters exchanges the factors, so their maxima.
Turned90(comps) == [i \in DOMAIN comps |-> Transposed(comps[i])]

LEMMA TurnedComps ==
    ASSUME NEW comps \in Seq(Factors) \ {<<>>}
    PROVE  /\ Turned90(comps) \in Seq(Factors) \ {<<>>}
           /\ DOMAIN Turned90(comps) = DOMAIN comps /\ Len(Turned90(comps)) = Len(comps)
           /\ \A i \in DOMAIN comps : /\ Turned90(comps)[i].h = comps[i].v
                                      /\ Turned90(comps)[i].v = comps[i].h
           /\ MaxH(Turned90(comps)) = MaxV(comps) /\ MaxV(Turned90(comps)) = MaxH(comps)
           /\ Turned90(Turned90(comps)) = comps
  <1> DEFINE turned == Turned90(comps)
  <1>1. /\ DOMAIN turned = DOMAIN comps
        /\ \A i \in DOMAIN comps : turned[i] = [h |-> comps[i].v, v |-> comps[i].h]
    BY DEF Turned90, Transposed
  <1>2. \A i \in DOMAIN comps : turned[i] \in Factors
    BY <1>1, Comps DEF Factors
  <1>3. DOMAIN comps = 1..Len(comps) /\ Len(comps) \in Nat \ {0}
    BY Comps
  <1>4. turned = [i \in 1..Len(comps) |-> turned[i]]
    BY <1>1, <1>3 DEF Turned90
  <1>5. turned \in Seq(Factors) /\ Len(turned) = Len(comps)
    BY <1>2, <1>3, <1>4
  <1>6. turned # <<>>
    BY <1>3, <1>5
  <1>7. /\ {turned[i].h : i \in DOMAIN turned} = {comps[i].v : i \in DOMAIN comps}
        /\ {turned[i].v : i \in DOMAIN turned} = {comps[i].h : i \in DOMAIN comps}
    BY <1>1
  <1>8. MaxH(turned) = MaxV(comps) /\ MaxV(turned) = MaxH(comps)
    BY <1>7 DEF MaxH, MaxV
  <1>9. Turned90(turned) = comps
    <2>1. \A i \in DOMAIN comps : Transposed(turned[i]) = comps[i]
      <3> TAKE i \in DOMAIN comps
      <3>1. comps[i] \in [h : 1..4, v : 1..4]
        BY Comps DEF Factors
      <3>2. comps[i] = [h |-> comps[i].h, v |-> comps[i].v]
        BY <3>1
      <3> QED
        BY <1>1, <3>2 DEF Transposed
    <2>2. Turned90(turned) = [i \in DOMAIN comps |-> comps[i]]
      BY <1>1, <2>1 DEF Turned90
    <2>3. comps = [i \in DOMAIN comps |-> comps[i]]
      BY <1>3
    <2> QED
      BY <2>2, <2>3
  <1> QED
    BY <1>1, <1>5, <1>6, <1>8, <1>9

\* A job that gets as far as writing an image.
Fits(image, j) ==
    /\ image \in Images /\ j \in Options
    /\ j.transform = "wipe" => j.crop
    /\ ~CropRefused(image, j) /\ ~CannotConvert(image, j)

LEMMA Types ==
    ASSUME NEW image \in Images, NEW j \in Options
    PROVE  /\ image.width \in Nat \ {0} /\ image.height \in Nat \ {0}
           /\ image.ycc \in BOOLEAN /\ image.comps \in Seq(Factors) \ {<<>>}
           /\ j.transform \in Turns \cup {"none", "wipe"}
           /\ j.trim \in BOOLEAN /\ j.perfect \in BOOLEAN /\ j.crop \in BOOLEAN
           /\ j.force_grayscale \in BOOLEAN /\ j.x \in CropSpecs /\ j.y \in CropSpecs
  BY DEF Images, Options

LEMMA Units ==
    ASSUME NEW image \in Images, NEW j \in Options
    PROVE  /\ Across(image, j) \in Nat \ {0} /\ Down(image, j) \in Nat \ {0}
           /\ SourceIMCU(image, j).w \in Nat \ {0} /\ SourceIMCU(image, j).h \in Nat \ {0}
           /\ IMCUAcross(image, j) \in Nat \ {0} /\ IMCUDown(image, j) \in Nat \ {0}
  <1>1. DCTSIZE \in Nat \ {0} /\ MaxH(image.comps) \in 1..4 /\ MaxV(image.comps) \in 1..4
    BY TransformAssumption, Types, Comps
  <1>2. MaxH(image.comps) * DCTSIZE \in Nat \ {0} /\ MaxV(image.comps) * DCTSIZE \in Nat \ {0}
    BY <1>1
  <1>3. SourceIMCU(image, j).w \in Nat \ {0} /\ SourceIMCU(image, j).h \in Nat \ {0}
    BY <1>1, <1>2 DEF SourceIMCU
  <1> QED
    BY <1>3, Types DEF Across, Down, IMCUAcross, IMCUDown

\* Both axes of the request.
LEMMA RequestFits ==
    ASSUME NEW image, NEW j, Fits(image, j), NEW r, r = Request(image, j)
    PROVE  /\ AxisFits(j.crop, j.transform, r.x, Across(image, j), IMCUAcross(image, j),
                       j.trim /\ j.transform \in TrimsRight)
           /\ AxisFits(j.crop, j.transform, r.y, Down(image, j), IMCUDown(image, j),
                       j.trim /\ j.transform \in TrimsBottom)
           /\ r.num_components = NumComponents(image, j)
  <1>1. image \in Images /\ j \in Options
    BY DEF Fits
  <1>2. /\ j.crop \in BOOLEAN /\ j.trim \in BOOLEAN /\ j.x \in CropSpecs /\ j.y \in CropSpecs
        /\ Across(image, j) \in Nat \ {0} /\ Down(image, j) \in Nat \ {0}
        /\ IMCUAcross(image, j) \in Nat \ {0} /\ IMCUDown(image, j) \in Nat \ {0}
    BY <1>1, Types, Units
  <1>3. /\ j.crop => ~BadCrop(j.x, Across(image, j), j.transform)
        /\ j.crop => ~BadCrop(j.y, Down(image, j), j.transform)
        /\ j.transform = "wipe" => j.crop
    BY DEF Fits, CropRefused
  <1> DEFINE tx == j.trim /\ j.transform \in TrimsRight
             ty == j.trim /\ j.transform \in TrimsBottom
  <1>4. /\ tx \in BOOLEAN /\ (tx => j.transform \notin {"none", "wipe"})
        /\ ty \in BOOLEAN /\ (ty => j.transform \notin {"none", "wipe"})
    BY <1>2 DEF TrimsRight, TrimsBottom
  <1>5. /\ r.x = RequestedSize(j.crop, j.x, Across(image, j), IMCUAcross(image, j), j.transform, tx)
        /\ r.y = RequestedSize(j.crop, j.y, Down(image, j), IMCUDown(image, j), j.transform, ty)
        /\ r.num_components = NumComponents(image, j)
    BY DEF Request
  <1> HIDE DEF tx, ty
  <1>6. AxisFits(j.crop, j.transform, r.x, Across(image, j), IMCUAcross(image, j), tx)
    BY <1>2, <1>3, <1>4, <1>5, Requested
  <1>7. AxisFits(j.crop, j.transform, r.y, Down(image, j), IMCUDown(image, j), ty)
    BY <1>2, <1>3, <1>4, <1>5, Requested
  <1> QED
    BY <1>5, <1>6, <1>7 DEF tx, ty

\* The image that is written is one: its iMCUs are those of the request.
LEMMA OutImage ==
    ASSUME NEW image, NEW j, Fits(image, j), NEW r, r = Request(image, j),
           NEW out, out = Adjust(image, j, r)
    PROVE  /\ out \in Images
           /\ out.width = r.x.size /\ out.height = r.y.size
           /\ out.ycc = (image.ycc /\ r.num_components # 1)
           /\ DOMAIN out.comps = 1..r.num_components
           /\ Len(out.comps) = r.num_components
           /\ DOMAIN out.comps \subseteq DOMAIN image.comps
           /\ r.num_components \in {1, Len(image.comps)}
           /\ r.num_components = 1 =>
                 /\ out.comps = <<[h |-> 1, v |-> 1]>>
                 /\ MaxH(image.comps) = image.comps[1].h
                 /\ MaxV(image.comps) = image.comps[1].v
           /\ r.num_components # 1 =>
                 out.comps = IF j.transform \in Transposing THEN Turned90(image.comps)
                             ELSE image.comps
           /\ MaxH(out.comps) * DCTSIZE = IMCUAcross(image, j)
           /\ MaxV(out.comps) * DCTSIZE = IMCUDown(image, j)
  <1>1. image \in Images /\ j \in Options
    BY DEF Fits
  <1>2. image.comps \in Seq(Factors) \ {<<>>}
    BY <1>1, Types
  <1>3. r.num_components = NumComponents(image, j)
    BY RequestFits
  <1>4. /\ Len(image.comps) \in Nat \ {0} /\ 1 \in DOMAIN image.comps
        /\ DOMAIN image.comps = 1..Len(image.comps)
    BY <1>2, Comps
  <1>5. r.x.size \in Nat \ {0} /\ r.y.size \in Nat \ {0}
    BY RequestFits DEF AxisFits
  <1>6. /\ out.width = r.x.size /\ out.height = r.y.size
        /\ out.ycc = (image.ycc /\ r.num_components # 1)
        /\ out = [width |-> out.width, height |-> out.height, ycc |-> out.ycc,
                  comps |-> out.comps]
    BY DEF Adjust
  <1>7. CASE r.num_components = 1
    <2> DEFINE one == <<[h |-> 1, v |-> 1]>>
    <2>1. one \in Seq(Factors) \ {<<>>} /\ Len(one) = 1 /\ DOMAIN one = {1}
          /\ one[1] = [h |-> 1, v |-> 1]
      <3>1. [h |-> 1, v |-> 1] \in Factors
        BY DEF Factors
      <3> QED
        BY <3>1
    <2>2. Turned90(one) = one
      <3> HIDE DEF one
      <3>1. DOMAIN one = 1..1 /\ one = [i \in 1..1 |-> one[i]]
        BY <2>1 DEF one
      <3>2. \A i \in 1..1 : Transposed(one[i]) = one[i]
        BY <2>1 DEF Transposed
      <3>3. Turned90(one) = [i \in 1..1 |-> Transposed(one[i])]
        BY <3>1 DEF Turned90
      <3>4. [i \in 1..1 |-> Transposed(one[i])] = [i \in 1..1 |-> one[i]]
        BY <3>2
      <3> QED
        BY <3>1, <3>3, <3>4
    <2>3. out.comps = one
      BY <1>7, <2>2 DEF Adjust, Turned90
    <2>4. MaxH(one) = 1 /\ MaxV(one) = 1
      <3> HIDE DEF one
      <3> QED
        BY <2>1, Comps
    <2>5. MaxH(image.comps) = image.comps[1].h /\ MaxV(image.comps) = image.comps[1].v
      <3>1. CASE Len(image.comps) = 1
        BY <1>2, <3>1, Comps
      <3>2. CASE Len(image.comps) # 1
        BY <1>3, <1>7, <3>2 DEF NumComponents, Fits, CannotConvert
      <3> QED
        BY <3>1, <3>2
    <2>6. SourceIMCU(image, j) = [w |-> DCTSIZE, h |-> DCTSIZE]
      BY <1>3, <1>7 DEF SourceIMCU
    <2>7. IMCUAcross(image, j) = DCTSIZE /\ IMCUDown(image, j) = DCTSIZE
      BY <2>6 DEF IMCUAcross, IMCUDown
    <2>8. /\ MaxH(out.comps) * DCTSIZE = IMCUAcross(image, j)
          /\ MaxV(out.comps) * DCTSIZE = IMCUDown(image, j)
      BY <2>3, <2>4, <2>7, TransformAssumption
    <2>9. out \in Images
      BY <1>5, <1>6, <2>1, <2>3, <1>1, Types DEF Images
    <2> QED
      BY <1>4, <1>6, <1>7, <2>1, <2>3, <2>5, <2>8, <2>9
  <1>8. CASE r.num_components # 1
    <2>1. r.num_components = Len(image.comps)
      BY <1>3, <1>8 DEF NumComponents
    <2>2. out.comps = IF j.transform \in Transposing THEN Turned90(image.comps)
                      ELSE image.comps
      BY <1>8 DEF Adjust, Turned90
    <2>3. /\ out.comps \in Seq(Factors) \ {<<>>}
          /\ DOMAIN out.comps = DOMAIN image.comps /\ Len(out.comps) = Len(image.comps)
      BY <1>2, <2>2, TurnedComps
    <2>4. SourceIMCU(image, j) =
             [w |-> MaxH(image.comps) * DCTSIZE, h |-> MaxV(image.comps) * DCTSIZE]
      BY <1>3, <1>8 DEF SourceIMCU
    <2>5. /\ MaxH(out.comps) * DCTSIZE = IMCUAcross(image, j)
          /\ MaxV(out.comps) * DCTSIZE = IMCUDown(image, j)
      BY <1>2, <2>2, <2>4, TurnedComps DEF IMCUAcross, IMCUDown
    <2>6. out \in Images
      BY <1>5, <1>6, <1>1, <2>3, Types DEF Images
    <2> QED
      BY <1>4, <1>6, <1>8, <2>1, <2>2, <2>3, <2>5, <2>6
  <1> QED
    BY <1>7, <1>8

LEMMA OutBlocks ==
    ASSUME NEW image, NEW j, Fits(image, j), NEW r, r = Request(image, j),
           NEW out, out = Adjust(image, j, r), NEW i \in DOMAIN out.comps
    PROVE  /\ out.comps[i].h \in Nat \ {0} /\ out.comps[i].v \in Nat \ {0}
           /\ WidthInBlocks(out, i) = CeilDiv(r.x.size * out.comps[i].h, IMCUAcross(image, j))
           /\ HeightInBlocks(out, i) = CeilDiv(r.y.size * out.comps[i].v, IMCUDown(image, j))
           /\ Array(out, i) =
                 Span(CeilDiv(r.x.size, IMCUAcross(image, j)) * out.comps[i].h)
                     \X Span(CeilDiv(r.y.size, IMCUDown(image, j)) * out.comps[i].v)
           /\ Visible(out, i) \subseteq Array(out, i)
  <1>1. /\ out \in Images /\ out.width = r.x.size /\ out.height = r.y.size
        /\ MaxH(out.comps) * DCTSIZE = IMCUAcross(image, j)
        /\ MaxV(out.comps) * DCTSIZE = IMCUDown(image, j)
    BY OutImage
  <1>2. out.comps \in Seq(Factors) \ {<<>>}
    BY <1>1 DEF Images
  <1>3. out.comps[i].h \in Nat \ {0} /\ out.comps[i].v \in Nat \ {0}
    <2>1. out.comps[i].h \in 1..4 /\ out.comps[i].v \in 1..4
      BY <1>2, Comps
    <2> QED
      BY <2>1
  <1>4. r.x.size \in Nat /\ r.y.size \in Nat
    BY RequestFits DEF AxisFits
  <1>5. IMCUAcross(image, j) \in Nat \ {0} /\ IMCUDown(image, j) \in Nat \ {0}
    BY Units DEF Fits
  <1>6. /\ WidthInBlocks(out, i) = CeilDiv(r.x.size * out.comps[i].h, IMCUAcross(image, j))
        /\ HeightInBlocks(out, i) = CeilDiv(r.y.size * out.comps[i].v, IMCUDown(image, j))
    BY <1>1 DEF WidthInBlocks, HeightInBlocks
  <1> DEFINE h == out.comps[i].h
             v == out.comps[i].v
             UA == IMCUAcross(image, j)
             UD == IMCUDown(image, j)
             s == r.x.size
             t == r.y.size
             W == WidthInBlocks(out, i)
             H == HeightInBlocks(out, i)
  <1>7. /\ W = CeilDiv(s * h, UA) /\ H = CeilDiv(t * v, UD)
        /\ s \in Nat /\ t \in Nat /\ UA \in Nat \ {0} /\ UD \in Nat \ {0}
        /\ h \in Nat \ {0} /\ v \in Nat \ {0}
    BY <1>3, <1>4, <1>5, <1>6
  <1>8. /\ Padded(W, h) = CeilDiv(s, UA) * h /\ Padded(W, h) \in Nat
        /\ W <= Padded(W, h) /\ W \in Nat
        /\ Padded(H, v) = CeilDiv(t, UD) * v /\ Padded(H, v) \in Nat
        /\ H <= Padded(H, v) /\ H \in Nat
    <2> HIDE DEF h, v, UA, UD, s, t, W, H
    <2>1. /\ CeilDiv(s * h, UA) \in Nat /\ CeilDiv(s, UA) * h \in Nat
          /\ CeilDiv(s * h, UA) <= CeilDiv(s, UA) * h
          /\ Padded(CeilDiv(s * h, UA), h) = CeilDiv(s, UA) * h
      BY <1>7, WholeSeenPadded
    <2>2. /\ CeilDiv(t * v, UD) \in Nat /\ CeilDiv(t, UD) * v \in Nat
          /\ CeilDiv(t * v, UD) <= CeilDiv(t, UD) * v
          /\ Padded(CeilDiv(t * v, UD), v) = CeilDiv(t, UD) * v
      BY <1>7, WholeSeenPadded
    <2> QED
      BY <1>7, <2>1, <2>2
  <1>9. Visible(out, i) \subseteq Array(out, i)
    BY <1>8 DEF Visible, Array, Span
  <1> QED
    BY <1>3, <1>6, <1>8, <1>9 DEF Array

\* The blocks of the source along the axes of what is written: those that are seen,
\* and those the array holds.
SeenAcross(image, j, i) ==
    IF j.transform \in Transposing THEN HeightInBlocks(image, i) ELSE WidthInBlocks(image, i)
SeenDown(image, j, i) ==
    IF j.transform \in Transposing THEN WidthInBlocks(image, i) ELSE HeightInBlocks(image, i)
HeldAcross(image, j, i) ==
    IF j.transform \in Transposing
    THEN Padded(HeightInBlocks(image, i), image.comps[i].v)
    ELSE Padded(WidthInBlocks(image, i), image.comps[i].h)
HeldDown(image, j, i) ==
    IF j.transform \in Transposing
    THEN Padded(WidthInBlocks(image, i), image.comps[i].h)
    ELSE Padded(HeightInBlocks(image, i), image.comps[i].v)

\* A place along those axes, in the source.
Place(t, a, b) == IF t \in Transposing THEN <<b, a>> ELSE <<a, b>>

LEMMA InPlace ==
    ASSUME NEW image, NEW j, NEW i, NEW a \in Int, NEW b \in Int,
           SeenAcross(image, j, i) \in Nat, SeenDown(image, j, i) \in Nat,
           HeldAcross(image, j, i) \in Nat, HeldDown(image, j, i) \in Nat
    PROVE  /\ Place(j.transform, a, b) \in Visible(image, i) <=>
                 /\ 0 <= a /\ a < SeenAcross(image, j, i)
                 /\ 0 <= b /\ b < SeenDown(image, j, i)
           /\ Place(j.transform, a, b) \in Array(image, i) <=>
                 /\ 0 <= a /\ a < HeldAcross(image, j, i)
                 /\ 0 <= b /\ b < HeldDown(image, j, i)
  BY DEF Place, Visible, Array, Span, SeenAcross, SeenDown, HeldAcross, HeldDown

\* A single component has one block in an iMCU, whatever its factors are.
LEMMA CeilScaled ==
    ASSUME NEW a \in Nat, NEW m \in Nat \ {0}, NEW d \in Nat \ {0}
    PROVE  CeilDiv(a * m, m * d) = CeilDiv(a, d)
  <1>1. a * m \in Nat /\ m * d \in Nat \ {0}
    <2>1. 0 * d < m * d
      BY Cancel
    <2> QED
      BY <2>1, Products
  <1>2. \A n \in Nat : n < CeilDiv(a, d) <=> n * (m * d) < a * m
    <2> TAKE n \in Nat
    <2>1. n < CeilDiv(a, d) <=> n * d < a
      BY BelowCeil
    <2>2. n * d \in Nat /\ n * (m * d) = (n * d) * m
      <3>1. n * (m * d) = (n * m) * d /\ (n * m) * d = n * (d * m) /\ (n * d) * m = n * (d * m)
        BY Products
      <3> QED
        BY <3>1, Products
    <2>3. n * d < a <=> (n * d) * m < a * m
      BY <2>2, Cancel
    <2> QED
      BY <2>1, <2>2, <2>3
  <1>3. CeilDiv(a, d) \in Nat
    BY BelowCeil
  <1> QED
    BY <1>1, <1>2, <1>3, CeilIs

LEMMA PaddedMore ==
    ASSUME NEW n \in Nat, NEW f \in Nat \ {0}
    PROVE  Padded(n, f) \in Nat /\ n <= Padded(n, f)
  <1> DEFINE q == CeilDiv(n, f)
  <1>1. q \in Nat /\ ~(q * f < n) /\ q * f \in Nat
    BY BelowCeil, Products
  <1> QED
    BY <1>1 DEF Padded

LEMMA SourceBlocks ==
    ASSUME NEW image, NEW j, Fits(image, j), NEW r, r = Request(image, j),
           NEW out, out = Adjust(image, j, r), NEW i \in DOMAIN out.comps
    PROVE  /\ SeenAcross(image, j, i)
                 = CeilDiv(Across(image, j) * out.comps[i].h, IMCUAcross(image, j))
           /\ SeenDown(image, j, i)
                 = CeilDiv(Down(image, j) * out.comps[i].v, IMCUDown(image, j))
           /\ SeenAcross(image, j, i) \in Nat /\ SeenDown(image, j, i) \in Nat
           /\ HeldAcross(image, j, i) \in Nat /\ HeldDown(image, j, i) \in Nat
           /\ CeilDiv(Across(image, j), IMCUAcross(image, j)) * out.comps[i].h
                 <= HeldAcross(image, j, i)
           /\ CeilDiv(Down(image, j), IMCUDown(image, j)) * out.comps[i].v
                 <= HeldDown(image, j, i)
  <1> DEFINE SA == Across(image, j)
             SD == Down(image, j)
             UA == IMCUAcross(image, j)
             UD == IMCUDown(image, j)
             c == out.comps[i]
             s == image.comps[i]
  <1>1. image \in Images /\ j \in Options
    BY DEF Fits
  <1>2. SA \in Nat \ {0} /\ SD \in Nat \ {0} /\ UA \in Nat \ {0} /\ UD \in Nat \ {0}
    BY <1>1, Units
  <1>3. c.h \in Nat \ {0} /\ c.v \in Nat \ {0}
    BY OutBlocks
  <1>4. image.comps \in Seq(Factors) \ {<<>>} /\ image.width \in Nat /\ image.height \in Nat
    BY <1>1, Types
  <1>5. i \in DOMAIN image.comps
    BY OutImage
  <1>6. s.h \in Nat \ {0} /\ s.v \in Nat \ {0}
    <2>1. s.h \in 1..4 /\ s.v \in 1..4
      BY <1>4, <1>5, Comps
    <2> QED
      BY <2>1
  <1>7. SA * c.h \in Nat /\ SD * c.v \in Nat
    BY <1>2, <1>3, Products
  <1>8. CASE r.num_components = 1
    <2>1. /\ i = 1 /\ c = [h |-> 1, v |-> 1]
          /\ MaxH(image.comps) = s.h /\ MaxV(image.comps) = s.v
      BY <1>8, OutImage
    <2>2. UA = DCTSIZE /\ UD = DCTSIZE
      BY <1>8, RequestFits DEF IMCUAcross, IMCUDown, SourceIMCU
    <2>3. /\ WidthInBlocks(image, i) = CeilDiv(image.width, DCTSIZE)
          /\ HeightInBlocks(image, i) = CeilDiv(image.height, DCTSIZE)
      <3>1. /\ WidthInBlocks(image, i) = CeilDiv(image.width * s.h, s.h * DCTSIZE)
            /\ HeightInBlocks(image, i) = CeilDiv(image.height * s.v, s.v * DCTSIZE)
        BY <2>1 DEF WidthInBlocks, HeightInBlocks
      <3> HIDE DEF s
      <3> QED
        BY <1>4, <1>6, <3>1, TransformAssumption, CeilScaled
    <2>4. /\ SeenAcross(image, j, i) = CeilDiv(SA, UA)
          /\ SeenDown(image, j, i) = CeilDiv(SD, UD)
      BY <2>2, <2>3 DEF SeenAcross, SeenDown, Across, Down
    <2>5. SA * c.h = SA /\ SD * c.v = SD
      BY <1>2, <2>1
    <2>6. CeilDiv(SA, UA) \in Nat /\ CeilDiv(SD, UD) \in Nat
      BY <1>2, BelowCeil
    <2>7. CeilDiv(SA, UA) * c.h = CeilDiv(SA, UA) /\ CeilDiv(SD, UD) * c.v = CeilDiv(SD, UD)
      BY <2>1, <2>6
    <2>8. /\ HeldAcross(image, j, i) \in Nat /\ HeldDown(image, j, i) \in Nat
          /\ SeenAcross(image, j, i) <= HeldAcross(image, j, i)
          /\ SeenDown(image, j, i) <= HeldDown(image, j, i)
      <3>1. SeenAcross(image, j, i) \in Nat /\ SeenDown(image, j, i) \in Nat
        BY <2>4, <2>6
      <3> QED
        BY <1>6, <3>1, PaddedMore DEF SeenAcross, SeenDown, HeldAcross, HeldDown
    <2> HIDE DEF SA, SD, UA, UD, c, s
    <2>9. /\ SeenAcross(image, j, i) = CeilDiv(SA * c.h, UA)
          /\ SeenDown(image, j, i) = CeilDiv(SD * c.v, UD)
          /\ SeenAcross(image, j, i) \in Nat /\ SeenDown(image, j, i) \in Nat
          /\ HeldAcross(image, j, i) \in Nat /\ HeldDown(image, j, i) \in Nat
          /\ CeilDiv(SA, UA) * c.h <= HeldAcross(image, j, i)
          /\ CeilDiv(SD, UD) * c.v <= HeldDown(image, j, i)
      BY <2>4, <2>5, <2>6, <2>7, <2>8
    <2> QED
      BY <2>9 DEF SA, SD, UA, UD, c, s
  <1>9. CASE r.num_components # 1
    <2>1. SourceIMCU(image, j) =
             [w |-> MaxH(image.comps) * DCTSIZE, h |-> MaxV(image.comps) * DCTSIZE]
      BY <1>9, RequestFits DEF SourceIMCU
    <2>2. IF j.transform \in Transposing
          THEN /\ UA = MaxV(image.comps) * DCTSIZE /\ UD = MaxH(image.comps) * DCTSIZE
               /\ SA = image.height /\ SD = image.width
               /\ c.h = s.v /\ c.v = s.h
          ELSE /\ UA = MaxH(image.comps) * DCTSIZE /\ UD = MaxV(image.comps) * DCTSIZE
               /\ SA = image.width /\ SD = image.height
               /\ c.h = s.h /\ c.v = s.v
      <3>1. /\ j.transform \in Transposing => c.h = s.v /\ c.v = s.h
            /\ j.transform \notin Transposing => c = s
        BY <1>4, <1>5, <1>9, OutImage, TurnedComps
      <3> QED
        BY <2>1, <3>1 DEF Across, Down, IMCUAcross, IMCUDown
    <2>3. /\ SeenAcross(image, j, i) = CeilDiv(SA * c.h, UA)
          /\ SeenDown(image, j, i) = CeilDiv(SD * c.v, UD)
          /\ HeldAcross(image, j, i) = Padded(CeilDiv(SA * c.h, UA), c.h)
          /\ HeldDown(image, j, i) = Padded(CeilDiv(SD * c.v, UD), c.v)
      <3> HIDE DEF SA, SD, UA, UD, c
      <3> QED
        BY <2>2 DEF SeenAcross, SeenDown, HeldAcross, HeldDown, WidthInBlocks, HeightInBlocks
    <2> HIDE DEF SA, SD, UA, UD, c, s
    <2>4. /\ CeilDiv(SA * c.h, UA) \in Nat
          /\ CeilDiv(SA, UA) * c.h \in Nat
          /\ Padded(CeilDiv(SA * c.h, UA), c.h) = CeilDiv(SA, UA) * c.h
      BY <1>2, <1>3, WholeSeenPadded
    <2>5. /\ CeilDiv(SD * c.v, UD) \in Nat
          /\ CeilDiv(SD, UD) * c.v \in Nat
          /\ Padded(CeilDiv(SD * c.v, UD), c.v) = CeilDiv(SD, UD) * c.v
      BY <1>2, <1>3, WholeSeenPadded
    <2> QED
      BY <2>3, <2>4, <2>5 DEF SA, SD, UA, UD, c, s
  <1> QED
    BY <1>8, <1>9

----------------------------------------------------------------------------
\* The routines.  In absolute coordinates each of them mirrors the whole iMCUs of
\* the axes it mirrors, leaves what is over at the edge where it is, and exchanges
\* the axes if it transposes; A and B are the blocks of the whole iMCUs.
Turn(t, A, B, X, Y) ==
    LET mx == t \in TrimsRight /\ X < A
        my == t \in TrimsBottom /\ Y < B
        a == IF mx THEN A - 1 - X ELSE X
        b == IF my THEN B - 1 - Y ELSE Y
    IN  IF t \in Transposing THEN Block(b, a, TRUE, mx, my)
        ELSE Block(a, b, FALSE, mx, my)

\* Geometry as a routine sees it, which takes one pair of its widths and heights.
Seen(g, width, height, wa, wb, ox, oy) ==
    /\ wa \in Nat /\ wb \in Nat /\ ox \in Nat /\ oy \in Nat
    /\ g.h \in Nat \ {0} /\ g.v \in Nat \ {0}
    /\ g.xc = ox * g.h /\ g.yc = oy * g.v
    /\ width = wa * g.h /\ height = wb * g.v

\* What the strips of a row or column come to.
LEMMA Rows ==
    ASSUME NEW n \in Nat, NEW f \in Nat \ {0}, NEW o \in Nat, NEW w \in Nat
    PROVE  /\ o * f \in Nat /\ w * f \in Nat
           /\ o * f + First(n, f) < w * f <=> n + o * f < w * f
           /\ Backwards(w * f, o * f, n, f) = w * f - 1 - (n + o * f)
  <1>1. o * f \in Nat /\ w * f \in Nat /\ First(n, f) \in Nat
    BY Products, Strip
  <1>2. First(n, f) + o * f < w * f <=> n + o * f < w * f
    BY StripBefore
  <1>3. Backwards(w * f, o * f, n, f) = w * f - 1 - (n + o * f)
    BY <1>1, BackwardsIs
  <1> QED
    BY <1>1, <1>2, <1>3

StraightTurn(g, x, y, oy, A, B, X, Y) ==
    /\ do_crop(g, x, y) = Turn("none", A, B, X, Y)
    /\ do_flip_h(g, x, y) = Turn("flip_h", A, B, X, Y)
    /\ oy = 0 => do_flip_h_no_crop(g, x, y) = Turn("flip_h", A, B, X, Y)
    /\ do_flip_v(g, x, y) = Turn("flip_v", A, B, X, Y)
    /\ do_rot_180(g, x, y) = Turn("rot_180", A, B, X, Y)

LEMMA Straight ==
    ASSUME NEW g, NEW wa, NEW wb, NEW ox, NEW oy,
           Seen(g, g.width, g.height, wa, wb, ox, oy),
           NEW x \in Nat, NEW y \in Nat, NEW A, NEW B, NEW X, NEW Y,
           A = wa * g.h, B = wb * g.v, X = x + ox * g.h, Y = y + oy * g.v
    PROVE  StraightTurn(g, x, y, oy, A, B, X, Y)
  <1>1. /\ wa \in Nat /\ wb \in Nat /\ ox \in Nat /\ oy \in Nat
        /\ g.h \in Nat \ {0} /\ g.v \in Nat \ {0}
        /\ g.xc = ox * g.h /\ g.yc = oy * g.v
        /\ g.width = A /\ g.height = B
    BY DEF Seen
  <1>2. /\ g.xc \in Nat /\ A \in Nat
        /\ g.yc \in Nat /\ B \in Nat
        /\ g.yc + First(y, g.v) < g.height <=> Y < B
        /\ Backwards(g.height, g.yc, y, g.v) = B - 1 - Y
    <2>1. ox * g.h \in Nat /\ wa * g.h \in Nat
      BY <1>1, Products
    <2>a. oy * g.v \in Nat /\ wb * g.v \in Nat
      BY <1>1, Products
    <2>b. oy * g.v + First(y, g.v) < wb * g.v <=> y + oy * g.v < wb * g.v
      BY <1>1, Rows, Zenon
    <2>c. Backwards(wb * g.v, oy * g.v, y, g.v) = wb * g.v - 1 - (y + oy * g.v)
      <3> DEFINE f == g.v
                 l == wb * g.v
                 o == oy * g.v
      <3>1. f \in Nat \ {0} /\ l \in Nat /\ o \in Nat
        BY <1>1, <2>a
      <3> HIDE DEF f, l, o
      <3>2. Backwards(l, o, y, f) = l - 1 - (y + o)
        BY <3>1, BackwardsIs
      <3> QED
        BY <3>2 DEF f, l, o
    <2> QED
      BY <1>1, <2>1, <2>a, <2>b, <2>c
  <1>3. oy = 0 => g.yc = 0
    BY <1>1
  <1>4. X = x + g.xc /\ Y = y + g.yc
    BY <1>1
  <1>5. /\ g.xc + x < g.width <=> X < A
        /\ g.width - g.xc - x - 1 = A - 1 - X
        /\ g.width - X - 1 = A - 1 - X
        /\ X < g.width <=> X < A
        /\ x + g.xc = X /\ y + g.yc = Y
        /\ oy = 0 => y = Y
    <2>1. g.width = A /\ g.height = B
      BY <1>1
    <2> QED
      BY ONLY <1>2, <1>3, <1>4, <2>1, x \in Nat, y \in Nat
  <1>6. /\ "none" \notin TrimsRight \cup TrimsBottom \cup Transposing
        /\ "flip_h" \in TrimsRight /\ "flip_h" \notin TrimsBottom \cup Transposing
        /\ "flip_v" \in TrimsBottom /\ "flip_v" \notin TrimsRight \cup Transposing
        /\ "rot_180" \in TrimsRight \cap TrimsBottom /\ "rot_180" \notin Transposing
    BY DEF TrimsRight, TrimsBottom, Transposing
  <1> USE <1>2, <1>5, <1>6 DEF Turn
  <1>7. do_crop(g, x, y) = Turn("none", A, B, X, Y)
    BY DEF do_crop, Verbatim
  <1>8. do_flip_h(g, x, y) = Turn("flip_h", A, B, X, Y)
    <2>1. CASE X < A
      BY <2>1 DEF do_flip_h, MirroredX
    <2>2. CASE ~(X < A)
      BY <2>2 DEF do_flip_h, Verbatim
    <2> QED
      BY <2>1, <2>2
  <1>9. oy = 0 => do_flip_h_no_crop(g, x, y) = Turn("flip_h", A, B, X, Y)
    <2>1. CASE X < A
      BY <2>1 DEF do_flip_h_no_crop, MirroredX
    <2>2. CASE ~(X < A)
      BY <2>2 DEF do_flip_h_no_crop, Verbatim
    <2> QED
      BY <2>1, <2>2
  <1>10. do_flip_v(g, x, y) = Turn("flip_v", A, B, X, Y)
    <2>1. CASE Y < B
      BY <2>1 DEF do_flip_v, MirroredY
    <2>2. CASE ~(Y < B)
      BY <2>2 DEF do_flip_v, Verbatim
    <2> QED
      BY <2>1, <2>2
  <1>11. do_rot_180(g, x, y) = Turn("rot_180", A, B, X, Y)
    <2>1. CASE X < A /\ Y < B
      <3>1. Turn("rot_180", A, B, X, Y) = Block(A - 1 - X, B - 1 - Y, FALSE, TRUE, TRUE)
        BY <2>1
      <3>2. do_rot_180(g, x, y) = Block(A - 1 - X, B - 1 - Y, FALSE, TRUE, TRUE)
        BY <2>1 DEF do_rot_180
      <3> QED
        BY <3>1, <3>2
    <2>2. CASE X < A /\ ~(Y < B)
      <3>1. Turn("rot_180", A, B, X, Y) = Block(A - 1 - X, Y, FALSE, TRUE, FALSE)
        BY <2>2
      <3>2. (g.xc + x < g.width) = TRUE /\ (g.yc + First(y, g.v) < g.height) = FALSE
        BY <2>2
      <3>3. do_rot_180(g, x, y) = Block(g.width - g.xc - x - 1, y + g.yc, FALSE, TRUE, FALSE)
        BY ONLY <3>2, Zenon DEF do_rot_180
      <3> QED
        BY <3>1, <3>3
    <2>3. CASE ~(X < A) /\ Y < B
      <3>1. Turn("rot_180", A, B, X, Y) = Block(X, B - 1 - Y, FALSE, FALSE, TRUE)
        BY <2>3
      <3>2. (g.xc + x < g.width) = FALSE /\ (g.yc + First(y, g.v) < g.height) = TRUE
        BY <2>3
      <3>3. do_rot_180(g, x, y)
               = Block(x + g.xc, Backwards(g.height, g.yc, y, g.v), FALSE, FALSE, TRUE)
        BY ONLY <3>2, Zenon DEF do_rot_180
      <3> QED
        BY <3>1, <3>3
    <2>4. CASE ~(X < A) /\ ~(Y < B)
      <3>1. Turn("rot_180", A, B, X, Y) = Block(X, Y, FALSE, FALSE, FALSE)
        BY <2>4
      <3>2. (g.xc + x < g.width) = FALSE /\ (g.yc + First(y, g.v) < g.height) = FALSE
        BY <2>4
      <3>3. do_rot_180(g, x, y) = Block(x + g.xc, y + g.yc, FALSE, FALSE, FALSE)
        BY ONLY <3>2, Zenon DEF do_rot_180
      <3> QED
        BY <3>1, <3>3
    <2> QED
      BY <2>1, <2>2, <2>3, <2>4
  <1> QED
    BY <1>7, <1>8, <1>9, <1>10, <1>11, Zenon DEF StraightTurn

TransposingTurn(g, x, y, A, B, X, Y) ==
    /\ do_transpose(g, x, y) = Turn("transpose", A, B, X, Y)
    /\ do_rot_90(g, x, y) = Turn("rot_90", A, B, X, Y)
    /\ do_rot_270(g, x, y) = Turn("rot_270", A, B, X, Y)
    /\ do_transverse(g, x, y) = Turn("transverse", A, B, X, Y)

LEMMA Turning ==
    ASSUME NEW g, NEW wa, NEW wb, NEW ox, NEW oy,
           Seen(g, g.turned_width, g.turned_height, wa, wb, ox, oy),
           NEW x \in Nat, NEW y \in Nat, NEW A, NEW B, NEW X, NEW Y,
           A = wa * g.h, B = wb * g.v, X = x + ox * g.h, Y = y + oy * g.v
    PROVE  TransposingTurn(g, x, y, A, B, X, Y)
  <1>0. /\ wa \in Nat /\ wb \in Nat /\ ox \in Nat /\ oy \in Nat
        /\ g.h \in Nat \ {0} /\ g.v \in Nat \ {0}
        /\ g.xc = ox * g.h /\ g.yc = oy * g.v
        /\ g.turned_width = A /\ g.turned_height = B
    BY DEF Seen
  <1>1. /\ g.xc \in Nat /\ g.yc \in Nat /\ A \in Nat /\ B \in Nat
        /\ X = x + g.xc /\ Y = y + g.yc
        /\ g.xc + First(x, g.h) < g.turned_width <=> X < A
        /\ Backwards(g.turned_width, g.xc, x, g.h) = A - 1 - X
        /\ g.yc + First(y, g.v) < g.turned_height <=> Y < B
    <2>d. ox * g.h \in Nat /\ wa * g.h \in Nat
      BY <1>0, Products
    <2>e. ox * g.h + First(x, g.h) < wa * g.h <=> x + ox * g.h < wa * g.h
      BY <1>0, Rows, Zenon
    <2>f. Backwards(wa * g.h, ox * g.h, x, g.h) = wa * g.h - 1 - (x + ox * g.h)
      <3> DEFINE f == g.h
                 l == wa * g.h
                 o == ox * g.h
      <3>1. f \in Nat \ {0} /\ l \in Nat /\ o \in Nat
        BY <1>0, <2>d
      <3> HIDE DEF f, l, o
      <3>2. Backwards(l, o, x, f) = l - 1 - (x + o)
        BY <3>1, BackwardsIs
      <3> QED
        BY <3>2 DEF f, l, o
    <2>a. oy * g.v \in Nat /\ wb * g.v \in Nat
      BY <1>0, Products
    <2>b. oy * g.v + First(y, g.v) < wb * g.v <=> y + oy * g.v < wb * g.v
      BY <1>0, Rows, Zenon
    <2>c. Backwards(wb * g.v, oy * g.v, y, g.v) = wb * g.v - 1 - (y + oy * g.v)
      <3> DEFINE f == g.v
                 l == wb * g.v
                 o == oy * g.v
      <3>1. f \in Nat \ {0} /\ l \in Nat /\ o \in Nat
        BY <1>0, <2>a
      <3> HIDE DEF f, l, o
      <3>2. Backwards(l, o, y, f) = l - 1 - (y + o)
        BY <3>1, BackwardsIs
      <3> QED
        BY <3>2 DEF f, l, o
    <2> QED
      BY <1>0, <2>a, <2>b, <2>d, <2>e, <2>f
  <1>a. /\ g.turned_height - g.yc - y - 1 = B - 1 - Y
        /\ x + g.xc = X /\ y + g.yc = Y
    BY <1>0, <1>1
  <1> USE <1>a DEF Turn
  <1>2. /\ {"transpose", "rot_90", "rot_270", "transverse"} = Transposing
        /\ "transpose" \notin TrimsRight /\ "transpose" \notin TrimsBottom
        /\ "rot_90" \in TrimsRight /\ "rot_90" \notin TrimsBottom
        /\ "rot_270" \notin TrimsRight /\ "rot_270" \in TrimsBottom
        /\ "transverse" \in TrimsRight /\ "transverse" \in TrimsBottom
    BY DEF TrimsRight, TrimsBottom, Transposing
  <1>3. do_transpose(g, x, y) = Turn("transpose", A, B, X, Y)
    BY <1>1, <1>2 DEF do_transpose
  <1>4. do_rot_90(g, x, y) = Turn("rot_90", A, B, X, Y)
    <2>1. CASE X < A
      BY <1>1, <1>2, <2>1 DEF do_rot_90
    <2>2. CASE ~(X < A)
      BY <1>1, <1>2, <2>2 DEF do_rot_90
    <2> QED
      BY <2>1, <2>2
  <1>5. do_rot_270(g, x, y) = Turn("rot_270", A, B, X, Y)
    <2>1. CASE Y < B
      BY <1>1, <1>2, <2>1 DEF do_rot_270
    <2>2. CASE ~(Y < B)
      BY <1>1, <1>2, <2>2 DEF do_rot_270
    <2> QED
      BY <2>1, <2>2
  <1>6. do_transverse(g, x, y) = Turn("transverse", A, B, X, Y)
    <2>1. CASE X < A /\ Y < B
      <3>1. Turn("transverse", A, B, X, Y) = Block(B - 1 - Y, A - 1 - X, TRUE, TRUE, TRUE)
        BY <1>2, <2>1
      <3>2. /\ (g.xc + First(x, g.h) < g.turned_width) = TRUE
            /\ (g.yc + First(y, g.v) < g.turned_height) = TRUE
        BY <1>1, <2>1
      <3>3. do_transverse(g, x, y)
               = Block(g.turned_height - g.yc - y - 1, Backwards(g.turned_width, g.xc, x, g.h),
                       TRUE, TRUE, TRUE)
        BY ONLY <3>2, Zenon DEF do_transverse
      <3> QED
        BY <1>1, <3>1, <3>3
    <2>2. CASE X < A /\ ~(Y < B)
      <3>1. Turn("transverse", A, B, X, Y) = Block(Y, A - 1 - X, TRUE, TRUE, FALSE)
        BY <1>2, <2>2
      <3>2. /\ (g.xc + First(x, g.h) < g.turned_width) = TRUE
            /\ (g.yc + First(y, g.v) < g.turned_height) = FALSE
        BY <1>1, <2>2
      <3>3. do_transverse(g, x, y)
               = Block(y + g.yc, Backwards(g.turned_width, g.xc, x, g.h),
                       TRUE, TRUE, FALSE)
        BY ONLY <3>2, Zenon DEF do_transverse
      <3> QED
        BY <1>1, <3>1, <3>3
    <2>3. CASE ~(X < A) /\ Y < B
      <3>1. Turn("transverse", A, B, X, Y) = Block(B - 1 - Y, X, TRUE, FALSE, TRUE)
        BY <1>2, <2>3
      <3>2. /\ (g.xc + First(x, g.h) < g.turned_width) = FALSE
            /\ (g.yc + First(y, g.v) < g.turned_height) = TRUE
        BY <1>1, <2>3
      <3>3. do_transverse(g, x, y)
               = Block(g.turned_height - g.yc - y - 1, x + g.xc,
                       TRUE, FALSE, TRUE)
        BY ONLY <3>2, Zenon DEF do_transverse
      <3> QED
        BY <1>1, <3>1, <3>3
    <2>4. CASE ~(X < A) /\ ~(Y < B)
      <3>1. Turn("transverse", A, B, X, Y) = Block(Y, X, TRUE, FALSE, FALSE)
        BY <1>2, <2>4
      <3>2. /\ (g.xc + First(x, g.h) < g.turned_width) = FALSE
            /\ (g.yc + First(y, g.v) < g.turned_height) = FALSE
        BY <1>1, <2>4
      <3>3. do_transverse(g, x, y)
               = Block(y + g.yc, x + g.xc,
                       TRUE, FALSE, FALSE)
        BY ONLY <3>2, Zenon DEF do_transverse
      <3> QED
        BY <1>1, <3>1, <3>3
    <2> QED
      BY <2>1, <2>2, <2>3, <2>4
  <1> QED
    BY <1>3, <1>4, <1>5, <1>6, Zenon DEF TransposingTurn

\* The blocks of the whole iMCUs of the source along an axis of what is written.
WholeAcross(image, j, f) == (Across(image, j) \div IMCUAcross(image, j)) * f
WholeDown(image, j, f) == (Down(image, j) \div IMCUDown(image, j)) * f

LEMMA GeometrySeen ==
    ASSUME NEW image, NEW j, Fits(image, j), NEW r, r = Request(image, j),
           NEW out, out = Adjust(image, j, r), NEW i \in DOMAIN out.comps,
           NEW g, g = Geometry(image, r, out, i)
    PROVE  /\ Seen(g, IF j.transform \in Transposing THEN g.turned_width ELSE g.width,
                   IF j.transform \in Transposing THEN g.turned_height ELSE g.height,
                   Across(image, j) \div IMCUAcross(image, j),
                   Down(image, j) \div IMCUDown(image, j), r.x.offset, r.y.offset)
           /\ g.h = out.comps[i].h /\ g.v = out.comps[i].v
           /\ g.xc = r.x.offset * out.comps[i].h /\ g.yc = r.y.offset * out.comps[i].v
  <1> DEFINE h == out.comps[i].h
             v == out.comps[i].v
             UA == IMCUAcross(image, j)
             UD == IMCUDown(image, j)
             ox == r.x.offset
             oy == r.y.offset
  <1>1. /\ MaxH(out.comps) * DCTSIZE = UA /\ MaxV(out.comps) * DCTSIZE = UD
    BY OutImage
  <1>2. /\ g.h = h /\ g.v = v /\ g.xc = ox * h /\ g.yc = oy * v
        /\ g.width = (image.width \div UA) * h
        /\ g.height = (image.height \div UD) * v
        /\ g.turned_width = (image.height \div UA) * h
        /\ g.turned_height = (image.width \div UD) * v
    BY <1>1 DEF Geometry
  <1>3. h \in Nat \ {0} /\ v \in Nat \ {0}
    BY OutBlocks
  <1>4. /\ Across(image, j) \in Nat /\ Down(image, j) \in Nat
        /\ UA \in Nat \ {0} /\ UD \in Nat \ {0}
    BY Units DEF Fits
  <1>5. Across(image, j) \div UA \in Nat /\ Down(image, j) \div UD \in Nat
    BY <1>4, Quotient
  <1>6. ox \in Nat /\ oy \in Nat
    BY RequestFits DEF AxisFits
  <1>7. IF j.transform \in Transposing
        THEN /\ g.turned_width = (Across(image, j) \div UA) * h
             /\ g.turned_height = (Down(image, j) \div UD) * v
        ELSE /\ g.width = (Across(image, j) \div UA) * h
             /\ g.height = (Down(image, j) \div UD) * v
    <2> HIDE DEF h, v, UA, UD
    <2> QED
      BY <1>2 DEF Across, Down
  <1> HIDE DEF h, v, UA, UD, ox, oy
  <1>8. Seen(g, IF j.transform \in Transposing THEN g.turned_width ELSE g.width,
             IF j.transform \in Transposing THEN g.turned_height ELSE g.height,
             Across(image, j) \div UA, Down(image, j) \div UD, ox, oy)
    BY <1>2, <1>3, <1>5, <1>6, <1>7 DEF Seen
  <1> QED
    BY <1>2, <1>8 DEF h, v, UA, UD, ox, oy

\* The routines are one: the loops of do_crop, do_crop_ext, do_flip_h_no_crop,
\* do_flip_h, do_flip_v, do_transpose, do_rot_90, do_rot_270, do_rot_180 and
\* do_transverse (transupp.c:79-855), each with its own conditions for edges and
\* offsets, take the same block, turned, from the whole iMCUs of the image.
THEOREM TakenIs ==
    ASSUME NEW image, NEW j, Fits(image, j), NEW r, r = Request(image, j),
           NEW out, out = Adjust(image, j, r), NEW i \in DOMAIN out.comps,
           j.transform \in Turns \cup {"none"},
           r.x.size <= Across(image, j), r.y.size <= Down(image, j),
           NEW x \in Nat, NEW y \in Nat
    PROVE  Taken(image, j, r, out, i, x, y) =
               Turn(j.transform, WholeAcross(image, j, out.comps[i].h),
                    WholeDown(image, j, out.comps[i].v),
                    x + r.x.offset * out.comps[i].h, y + r.y.offset * out.comps[i].v)
  <1> DEFINE g == Geometry(image, r, out, i)
             t == j.transform
             wa == Across(image, j) \div IMCUAcross(image, j)
             wb == Down(image, j) \div IMCUDown(image, j)
             ox == r.x.offset
             oy == r.y.offset
             A == wa * g.h
             B == wb * g.v
             X == x + ox * g.h
             Y == y + oy * g.v
             turn == Turn(t, A, B, X, Y)
             wider == r.x.size > image.width
             higher == r.y.size > image.height
  <1>1. /\ Seen(g, IF t \in Transposing THEN g.turned_width ELSE g.width,
                IF t \in Transposing THEN g.turned_height ELSE g.height, wa, wb, ox, oy)
        /\ g.h = out.comps[i].h /\ g.v = out.comps[i].v
    BY GeometrySeen
  <1>2. Taken(image, j, r, out, i, x, y) =
           CASE t = "none" ->
                    IF wider \/ higher THEN do_crop_ext(g, x, y, wider, higher)
                    ELSE IF ox # 0 \/ oy # 0 THEN do_crop(g, x, y)
                    ELSE Verbatim(x, y)
              [] t = "flip_h" ->
                    IF oy # 0 THEN do_flip_h(g, x, y)
                    ELSE do_flip_h_no_crop(g, x, y)
              [] t = "flip_v" -> do_flip_v(g, x, y)
              [] t = "transpose" -> do_transpose(g, x, y)
              [] t = "transverse" -> do_transverse(g, x, y)
              [] t = "rot_90" -> do_rot_90(g, x, y)
              [] t = "rot_180" -> do_rot_180(g, x, y)
              [] t = "rot_270" -> do_rot_270(g, x, y)
              [] t = "wipe" -> do_wipe(g, x, y)
    BY DEF Taken
  <1>3. t = "none" => ~wider /\ ~higher
    <2>1. ASSUME t = "none" PROVE Across(image, j) = image.width /\ Down(image, j) = image.height
      BY <2>1 DEF Across, Down, Transposing
    <2>2. r.x.size \in Nat /\ r.y.size \in Nat /\ image.width \in Nat /\ image.height \in Nat
      BY RequestFits, Types DEF AxisFits, Fits
    <2> QED
      BY <2>1, <2>2
  <1>4. ox = 0 /\ oy = 0 => do_crop(g, x, y) = Verbatim(x, y)
    <2>1. /\ g.xc = ox * g.h /\ g.yc = oy * g.v /\ g.h \in Nat /\ g.v \in Nat
      BY <1>1 DEF Seen
    <2> HIDE DEF g
    <2> QED
      BY <2>1 DEF do_crop
  <1>5. t \in Transposing => t \in {"transpose", "transverse", "rot_90", "rot_270"}
    BY DEF Transposing
  <1>6. t \notin Transposing => t \in {"none", "flip_h", "flip_v", "rot_180"}
    BY DEF Transposing, Turns
  <1>a. A = wa * g.h /\ B = wb * g.v /\ X = x + ox * g.h /\ Y = y + oy * g.v
    OBVIOUS
  <1> HIDE DEF g, t, wa, wb, ox, oy, wider, higher, A, B, X, Y
  <1>7. Taken(image, j, r, out, i, x, y) = turn
    <2>1. CASE t \in Transposing
      <3>2. Seen(g, g.turned_width, g.turned_height, wa, wb, ox, oy)
        BY <1>1, <2>1
      <3>3. TransposingTurn(g, x, y, A, B, X, Y)
        BY <1>a, <3>2, Turning, Zenon
      <3> QED
        BY <1>2, <1>5, <2>1, <3>3 DEF TransposingTurn
    <2>2. CASE t \notin Transposing
      <3>2. Seen(g, g.width, g.height, wa, wb, ox, oy)
        BY <1>1, <2>2
      <3>3. StraightTurn(g, x, y, oy, A, B, X, Y)
        BY <1>a, <3>2, Straight, Zenon
      <3> QED
        BY <1>2, <1>3, <1>4, <1>6, <2>2, <3>3 DEF StraightTurn
    <2> QED
      BY <2>1, <2>2
  <1> QED
    BY <1>1, <1>7 DEF g, t, wa, wb, ox, oy, A, B, X, Y, WholeAcross, WholeDown

----------------------------------------------------------------------------
\* Where the routines read.

\* A block x of an axis that is written with s samples is taken from a place a of
\* the source's axis of S samples: it is in the array, and seen, if x is.
Reaches(s, S, U, h, x, a) ==
    /\ a \in Nat
    /\ x < CeilDiv(s, U) * h => a < CeilDiv(S, U) * h
    /\ x < CeilDiv(s * h, U) => a < CeilDiv(S * h, U)

LEMMA ReachTurned ==
    ASSUME NEW S \in Nat, NEW s \in Nat, NEW U \in Nat \ {0}, NEW h \in Nat \ {0},
           NEW o \in Nat, o * U + s <= S, NEW x \in Nat, NEW X, X = x + o * h,
           NEW a, a = X \/ (X < (S \div U) * h /\ a = (S \div U) * h - 1 - X)
    PROVE  Reaches(s, S, U, h, x, a)
  <1> DEFINE A == (S \div U) * h
             P == CeilDiv(S, U) * h
             V == CeilDiv(S * h, U)
             p == CeilDiv(s, U) * h
             w == CeilDiv(s * h, U)
  <1>1. A \in Nat /\ P \in Nat /\ V \in Nat /\ A <= V /\ V <= P
    BY WholeSeenPadded
  <1>2. (x < p => X < P) /\ (x < w => X < V)
    BY Window
  <1>3. X \in Nat
    BY Products
  <1>4. a = X \/ (X < A /\ a = A - 1 - X)
    OBVIOUS
  <1> HIDE DEF A, P, V, p, w
  <1>5. a \in Nat /\ (x < p => a < P) /\ (x < w => a < V)
    BY ONLY <1>1, <1>2, <1>3, <1>4
  <1> QED
    BY <1>5 DEF P, V, p, w, Reaches

\* Only whole iMCUs are taken into a larger image.
LEMMA ReachExtended ==
    ASSUME NEW S \in Nat, NEW s \in Nat, NEW U \in Nat \ {0}, NEW h \in Nat \ {0},
           NEW o \in Nat, NEW x \in Nat, o * h <= x, x < (S \div U) * h + o * h,
           NEW a, a = x - o * h
    PROVE  Reaches(s, S, U, h, x, a)
  <1> DEFINE A == (S \div U) * h
             P == CeilDiv(S, U) * h
             V == CeilDiv(S * h, U)
             n == o * h
  <1>1. A \in Nat /\ P \in Nat /\ V \in Nat /\ A <= V /\ V <= P
    BY WholeSeenPadded
  <1>2. n \in Nat /\ n <= x /\ x < A + n /\ a = x - n
    BY Products
  <1> HIDE DEF A, P, V, n
  <1>3. a \in Nat /\ a < P /\ a < V
    BY ONLY <1>1, <1>2, x \in Nat
  <1> QED
    BY <1>3 DEF P, V, Reaches

\* A block of a file: one that is not taken for Zero or Dummy.
Blocks == [x : Nat, y : Nat, transposed : BOOLEAN, mx : BOOLEAN, my : BOOLEAN]

LEMMA NotFilling ==
    ASSUME NEW b \in Blocks
    PROVE  b \notin {Zero, Dummy}
  <1>1. b.x \in Nat
    BY DEF Blocks
  <1>2. Zero.x = -1 /\ Dummy.x = -2
    BY DEF Zero, Dummy, Verbatim, Block
  <1> QED
    BY <1>1, <1>2

LEMMA BlockIs ==
    ASSUME NEW x \in Nat, NEW y \in Nat, NEW t \in BOOLEAN, NEW mx \in BOOLEAN,
           NEW my \in BOOLEAN
    PROVE  /\ Block(x, y, t, mx, my) \in Blocks
           /\ Block(x, y, t, mx, my).x = x /\ Block(x, y, t, mx, my).y = y
           /\ Block(x, y, t, mx, my).transposed = t
           /\ Block(x, y, t, mx, my).mx = mx /\ Block(x, y, t, mx, my).my = my
  BY DEF Block, Blocks

\* The parts of what Turn gives.
TurnedFrom(t, A, B, X, Y, how) ==
    LET mx == t \in TrimsRight /\ X < A
        my == t \in TrimsBottom /\ Y < B
        a == IF mx THEN A - 1 - X ELSE X
        b == IF my THEN B - 1 - Y ELSE Y
    IN  /\ how \in Blocks
        /\ <<how.x, how.y>> = Place(t, a, b)
        /\ how.transposed = (t \in Transposing) /\ how.mx = mx /\ how.my = my

LEMMA TurnPlace ==
    ASSUME NEW t, NEW A \in Nat, NEW B \in Nat, NEW X \in Nat, NEW Y \in Nat
    PROVE  TurnedFrom(t, A, B, X, Y, Turn(t, A, B, X, Y))
  <1> DEFINE mx == t \in TrimsRight /\ X < A
             my == t \in TrimsBottom /\ Y < B
             a == IF mx THEN A - 1 - X ELSE X
             b == IF my THEN B - 1 - Y ELSE Y
             how == Turn(t, A, B, X, Y)
  <1>1. mx \in BOOLEAN /\ my \in BOOLEAN /\ a \in Nat /\ b \in Nat
    OBVIOUS
  <1>2. how = IF t \in Transposing THEN Block(b, a, TRUE, mx, my)
              ELSE Block(a, b, FALSE, mx, my)
    BY Zenon DEF Turn
  <1> HIDE DEF mx, my, a, b, how
  <1>3. CASE t \in Transposing
    <2>1. how = Block(b, a, TRUE, mx, my)
      BY <1>2, <1>3, Zenon
    <2>2. /\ how \in Blocks /\ how.x = b /\ how.y = a
          /\ how.transposed = TRUE /\ how.mx = mx /\ how.my = my
      BY <1>1, <2>1 DEF Block, Blocks
    <2>3. (t \in Transposing) = TRUE
      BY <1>3
    <2> QED
      BY <1>3, <2>2, <2>3, Zenon DEF Place, mx, my, a, b, how, TurnedFrom
  <1>4. CASE t \notin Transposing
    <2>1. how = Block(a, b, FALSE, mx, my)
      BY <1>2, <1>4, Zenon
    <2>2. /\ how \in Blocks /\ how.x = a /\ how.y = b
          /\ how.transposed = FALSE /\ how.mx = mx /\ how.my = my
      BY <1>1, <2>1 DEF Block, Blocks
    <2>3. (t \in Transposing) = FALSE
      BY <1>4
    <2> QED
      BY <1>4, <2>2, <2>3, Zenon DEF Place, mx, my, a, b, how, TurnedFrom
  <1> QED
    BY <1>3, <1>4, Zenon

\* Every block but a zero one is taken from a place that the source has, and a
\* block that will be seen from one that is seen.
Found(image, j, r, f, x, y, how) ==
    /\ how \in Blocks
    /\ \E a, b \in Nat :
          /\ <<how.x, how.y>> = Place(j.transform, a, b)
          /\ Reaches(r.x.size, Across(image, j), IMCUAcross(image, j), f.h, x, a)
          /\ Reaches(r.y.size, Down(image, j), IMCUDown(image, j), f.v, y, b)

LEMMA FoundTurned ==
    ASSUME NEW image, NEW j, Fits(image, j), NEW r, r = Request(image, j),
           NEW out, out = Adjust(image, j, r), NEW i \in DOMAIN out.comps,
           j.transform \in Turns \cup {"none"},
           r.x.size <= Across(image, j), r.y.size <= Down(image, j),
           NEW x \in Nat, NEW y \in Nat
    PROVE  Found(image, j, r, out.comps[i], x, y, Taken(image, j, r, out, i, x, y))
  <1> DEFINE SA == Across(image, j)
             SD == Down(image, j)
             UA == IMCUAcross(image, j)
             UD == IMCUDown(image, j)
             h == out.comps[i].h
             v == out.comps[i].v
             t == j.transform
             A == (SA \div UA) * h
             B == (SD \div UD) * v
             X == x + r.x.offset * h
             Y == y + r.y.offset * v
             mx == t \in TrimsRight /\ X < A
             my == t \in TrimsBottom /\ Y < B
             a == IF mx THEN A - 1 - X ELSE X
             b == IF my THEN B - 1 - Y ELSE Y
             how == Taken(image, j, r, out, i, x, y)
  <1>1. how = Turn(t, A, B, X, Y)
    BY TakenIs DEF WholeAcross, WholeDown
  <1>2. SA \in Nat /\ SD \in Nat /\ UA \in Nat \ {0} /\ UD \in Nat \ {0}
    BY Units DEF Fits
  <1>3. h \in Nat \ {0} /\ v \in Nat \ {0}
    BY OutBlocks
  <1>4. /\ r.x.size \in Nat /\ r.x.offset \in Nat /\ r.x.offset * UA + r.x.size <= SA
        /\ r.y.size \in Nat /\ r.y.offset \in Nat /\ r.y.offset * UD + r.y.size <= SD
    <2>1. t # "wipe"
      BY DEF Turns
    <2> QED
      BY <2>1, RequestFits DEF AxisFits
  <1>5. A \in Nat /\ B \in Nat /\ X \in Nat /\ Y \in Nat
    <2>1. SA \div UA \in Nat /\ SD \div UD \in Nat
      BY <1>2, Quotient
    <2>2. /\ (SA \div UA) * h \in Nat /\ (SD \div UD) * v \in Nat
          /\ r.x.offset * h \in Nat /\ r.y.offset * v \in Nat
      BY <1>3, <1>4, <2>1, Products
    <2> QED
      BY <2>2
  <1> HIDE DEF SA, SD, UA, UD, h, v, t, A, B, X, Y, how
  <1>6. /\ how \in Blocks /\ <<how.x, how.y>> = Place(t, a, b)
    <2>1. TurnedFrom(t, A, B, X, Y, how)
      BY <1>1, <1>5, TurnPlace, Zenon
    <2> QED
      BY <2>1, Zenon DEF TurnedFrom
  <1>7. a \in Nat /\ b \in Nat
    BY <1>5
  <1>8. Reaches(r.x.size, SA, UA, h, x, a)
    <2>1. a = X \/ (X < A /\ a = A - 1 - X)
      OBVIOUS
    <2> HIDE DEF a
    <2>2. X = x + r.x.offset * h
      BY DEF X
    <2>3. a = X \/ (X < (SA \div UA) * h /\ a = (SA \div UA) * h - 1 - X)
      BY <2>1 DEF A
    <2> QED
      BY <1>2, <1>3, <1>4, <2>2, <2>3, ReachTurned
  <1>9. Reaches(r.y.size, SD, UD, v, y, b)
    <2>1. b = Y \/ (Y < B /\ b = B - 1 - Y)
      OBVIOUS
    <2> HIDE DEF b
    <2>2. Y = y + r.y.offset * v
      BY DEF Y
    <2>3. b = Y \/ (Y < (SD \div UD) * v /\ b = (SD \div UD) * v - 1 - Y)
      BY <2>1 DEF B
    <2> QED
      BY <1>2, <1>3, <1>4, <2>2, <2>3, ReachTurned
  <1> HIDE DEF a, b
  <1>10. Found(image, j, r, out.comps[i], x, y, how)
    BY <1>6, <1>7, <1>8, <1>9, Zenon DEF Found, SA, SD, UA, UD, h, v, t
  <1> QED
    BY <1>10 DEF how

LEMMA FoundWiped ==
    ASSUME NEW image, NEW j, Fits(image, j), NEW r, r = Request(image, j),
           NEW out, out = Adjust(image, j, r), NEW i \in DOMAIN out.comps,
           j.transform = "wipe", NEW x \in Nat, NEW y \in Nat,
           NEW how, how = Taken(image, j, r, out, i, x, y)
    PROVE  how = Zero \/ Found(image, j, r, out.comps[i], x, y, how)
  <1> DEFINE SA == Across(image, j)
             SD == Down(image, j)
             UA == IMCUAcross(image, j)
             UD == IMCUDown(image, j)
             h == out.comps[i].h
             v == out.comps[i].v
             g == Geometry(image, r, out, i)
  <1>1. how = do_wipe(g, x, y)
    BY DEF Taken
  <1>2. how = Zero \/ how = Verbatim(x, y)
    BY <1>1 DEF do_wipe
  <1>3. ASSUME how = Verbatim(x, y)
        PROVE  Found(image, j, r, out.comps[i], x, y, how)
    <2>1. how \in Blocks /\ how.x = x /\ how.y = y
      BY <1>3 DEF Verbatim, Block, Blocks
    <2>2. <<how.x, how.y>> = Place(j.transform, x, y)
      BY <2>1 DEF Place, Transposing
    <2>3. r.x.size = SA /\ r.y.size = SD
      BY RequestFits DEF AxisFits
    <2>4. Reaches(SA, SA, UA, h, x, x) /\ Reaches(SD, SD, UD, v, y, y)
      BY DEF Reaches
    <2> HIDE DEF SA, SD, UA, UD, h, v
    <2> QED
      BY <2>1, <2>2, <2>3, <2>4, Zenon DEF Found, SA, SD, UA, UD, h, v
  <1> QED
    BY <1>2, <1>3

LEMMA FoundExtended ==
    ASSUME NEW image, NEW j, Fits(image, j), NEW r, r = Request(image, j),
           NEW out, out = Adjust(image, j, r), NEW i \in DOMAIN out.comps,
           j.transform = "none", r.x.size > image.width \/ r.y.size > image.height,
           NEW x \in Nat, NEW y \in Nat,
           NEW how, how = Taken(image, j, r, out, i, x, y)
    PROVE  how = Zero \/ Found(image, j, r, out.comps[i], x, y, how)
  <1> DEFINE SA == Across(image, j)
             SD == Down(image, j)
             UA == IMCUAcross(image, j)
             UD == IMCUDown(image, j)
             h == out.comps[i].h
             v == out.comps[i].v
             g == Geometry(image, r, out, i)
             wider == r.x.size > image.width
             higher == r.y.size > image.height
             A == (SA \div UA) * h
             B == (SD \div UD) * v
             N == r.x.offset * h
             M == r.y.offset * v
             a == IF wider THEN x - N ELSE x + N
             b == IF higher THEN y - M ELSE y + M
  <1>1. how = do_crop_ext(g, x, y, wider, higher)
    BY DEF Taken
  <1>2. SA = image.width /\ SD = image.height
    BY DEF Across, Down, Transposing
  <1>3. SA \in Nat /\ SD \in Nat /\ UA \in Nat \ {0} /\ UD \in Nat \ {0}
    BY Units DEF Fits
  <1>4. h \in Nat \ {0} /\ v \in Nat \ {0}
    BY OutBlocks
  <1>5. /\ r.x.size \in Nat /\ r.x.offset \in Nat
        /\ ~wider => r.x.offset * UA + r.x.size <= SA
        /\ r.y.size \in Nat /\ r.y.offset \in Nat
        /\ ~higher => r.y.offset * UD + r.y.size <= SD
    BY <1>2, <1>3, RequestFits DEF AxisFits
  <1>6. /\ g.h = h /\ g.v = v /\ g.xc = N /\ g.yc = M
        /\ g.width = A /\ g.height = B
    <2>1. "none" \notin Transposing
      BY DEF Transposing
    <2>2. Seen(g, g.width, g.height, SA \div UA, SD \div UD, r.x.offset, r.y.offset)
      BY <2>1, GeometrySeen
    <2>3. g.h = h /\ g.v = v /\ g.xc = N /\ g.yc = M
      BY GeometrySeen
    <2> QED
      BY <2>2, <2>3 DEF Seen
  <1>7. A \in Nat /\ B \in Nat /\ N \in Nat /\ M \in Nat
    BY <1>3, <1>4, <1>5, Quotient, Products
  <1>8. /\ First(y, v) < M <=> y < M
        /\ First(y, v) < B + M <=> y < B + M
    <2>1. /\ M <= First(y, v) <=> M <= y
      BY <1>4, <1>5, StripBefore
    <2>2. SD \div UD \in Nat
      BY <1>3, Quotient
    <2>3. (SD \div UD) + r.y.offset \in Nat
          /\ ((SD \div UD) + r.y.offset) * v = B + M
      BY <1>4, <1>5, <2>2, Products
    <2>4. First(y, v) < ((SD \div UD) + r.y.offset) * v
             <=> y < ((SD \div UD) + r.y.offset) * v
      BY <1>4, <1>5, <2>3, StripBefore
    <2>5. First(y, v) \in Nat
      BY <1>4, Strip
    <2> HIDE DEF B, M, v, First
    <2> QED
      BY <1>7, <2>1, <2>3, <2>4, <2>5
  <1> HIDE DEF SA, SD, UA, UD, h, v, g, wider, higher, A, B, N, M
  <1>9. \/ how = Zero
        \/ /\ how = Verbatim(a, b)
           /\ wider => N <= x /\ x < A + N
           /\ higher => M <= y /\ y < B + M
    <2>1. First(y, v) \in Nat
      BY <1>4, Strip
    <2> HIDE DEF First
    <2>2. CASE (wider /\ (x < N \/ x >= A + N)) \/ (higher /\ (y < M \/ y >= B + M))
      BY <1>1, <1>6, <1>7, <1>8, <2>1, <2>2 DEF do_crop_ext
    <2>3. CASE ~((wider /\ (x < N \/ x >= A + N)) \/ (higher /\ (y < M \/ y >= B + M)))
      <3>1. how = Verbatim(a, b)
        BY <1>1, <1>6, <1>7, <1>8, <2>1, <2>3 DEF do_crop_ext
      <3> QED
        BY <1>7, <2>3, <3>1
    <2> QED
      BY <2>2, <2>3
  <1>10. ASSUME how = Verbatim(a, b),
                wider => N <= x /\ x < A + N,
                higher => M <= y /\ y < B + M
         PROVE  Found(image, j, r, out.comps[i], x, y, how)
    <2>1. a \in Nat /\ b \in Nat
      BY <1>7, <1>10
    <2>2. Reaches(r.x.size, SA, UA, h, x, a)
      <3>1. CASE wider
        <4>1. r.x.offset * h <= x /\ x < (SA \div UA) * h + r.x.offset * h
              /\ a = x - r.x.offset * h
          BY <1>10, <3>1 DEF A, N
        <4> QED
          BY <1>3, <1>4, <1>5, <4>1, ReachExtended
      <3>2. CASE ~wider
        <4>1. a = x + r.x.offset * h
          BY <3>2 DEF N
        <4> QED
          BY <1>3, <1>4, <1>5, <3>2, <4>1, ReachTurned
      <3> QED
        BY <3>1, <3>2
    <2>3. Reaches(r.y.size, SD, UD, v, y, b)
      <3>1. CASE higher
        <4>1. r.y.offset * v <= y /\ y < (SD \div UD) * v + r.y.offset * v
              /\ b = y - r.y.offset * v
          BY <1>10, <3>1 DEF B, M
        <4> QED
          BY <1>3, <1>4, <1>5, <4>1, ReachExtended
      <3>2. CASE ~higher
        <4>1. b = y + r.y.offset * v
          BY <3>2 DEF M
        <4> QED
          BY <1>3, <1>4, <1>5, <3>2, <4>1, ReachTurned
      <3> QED
        BY <3>1, <3>2
    <2> HIDE DEF a, b
    <2>4. how \in Blocks /\ how.x = a /\ how.y = b
      BY <1>10, <2>1 DEF Verbatim, Block, Blocks
    <2>5. <<how.x, how.y>> = Place(j.transform, a, b)
      BY <2>4 DEF Place, Transposing
    <2> QED
      BY <2>1, <2>2, <2>3, <2>4, <2>5, Zenon DEF Found, SA, SD, UA, UD, h, v
  <1> QED
    BY <1>9, <1>10

LEMMA FoundAlways ==
    ASSUME NEW image, NEW j, Fits(image, j), NEW r, r = Request(image, j),
           NEW out, out = Adjust(image, j, r), NEW i \in DOMAIN out.comps,
           NEW x \in Nat, NEW y \in Nat,
           NEW how, how = Taken(image, j, r, out, i, x, y)
    PROVE  how = Zero \/ Found(image, j, r, out.comps[i], x, y, how)
  <1>1. /\ j.transform \in Turns \cup {"none", "wipe"}
        /\ r.x.size \in Nat /\ r.y.size \in Nat
        /\ Across(image, j) \in Nat /\ Down(image, j) \in Nat
    BY Types, Units, RequestFits DEF Fits, AxisFits
  <1>2. CASE j.transform = "wipe"
    BY <1>2, FoundWiped
  <1>3. CASE j.transform # "wipe" /\ r.x.size <= Across(image, j) /\ r.y.size <= Down(image, j)
    BY <1>1, <1>3, FoundTurned
  <1>4. CASE j.transform # "wipe"
             /\ ~(r.x.size <= Across(image, j) /\ r.y.size <= Down(image, j))
    <2>1. j.transform = "none"
      BY <1>1, <1>4, RequestFits DEF AxisFits
    <2>2. Across(image, j) = image.width /\ Down(image, j) = image.height
      BY <2>1 DEF Across, Down, Transposing
    <2>3. r.x.size > image.width \/ r.y.size > image.height
      BY <1>1, <1>4, <2>2
    <2> QED
      BY <2>1, <2>3, FoundExtended
  <1> QED
    BY <1>2, <1>3, <1>4

\* A place that is found for a block of the array, and for one that is seen.
LEMMA FoundIn ==
    ASSUME NEW image, NEW j, Fits(image, j), NEW r, r = Request(image, j),
           NEW out, out = Adjust(image, j, r), NEW i \in DOMAIN out.comps,
           NEW p \in Array(out, i), NEW how,
           Found(image, j, r, out.comps[i], p[1], p[2], how)
    PROVE  /\ <<how.x, how.y>> \in Array(image, i)
           /\ p \in Visible(out, i) => <<how.x, how.y>> \in Visible(image, i)
  <1> DEFINE h == out.comps[i].h
             v == out.comps[i].v
             x == p[1]
             y == p[2]
  <1>1. PICK a \in Nat, b \in Nat :
           /\ <<how.x, how.y>> = Place(j.transform, a, b)
           /\ Reaches(r.x.size, Across(image, j), IMCUAcross(image, j), h, x, a)
           /\ Reaches(r.y.size, Down(image, j), IMCUDown(image, j), v, y, b)
    BY Zenon DEF Found
  <1>2. /\ WidthInBlocks(out, i) = CeilDiv(r.x.size * h, IMCUAcross(image, j))
        /\ HeightInBlocks(out, i) = CeilDiv(r.y.size * v, IMCUDown(image, j))
        /\ Array(out, i) =
              Span(CeilDiv(r.x.size, IMCUAcross(image, j)) * h)
                  \X Span(CeilDiv(r.y.size, IMCUDown(image, j)) * v)
    BY OutBlocks
  <1>3. /\ SeenAcross(image, j, i) = CeilDiv(Across(image, j) * h, IMCUAcross(image, j))
        /\ SeenDown(image, j, i) = CeilDiv(Down(image, j) * v, IMCUDown(image, j))
        /\ SeenAcross(image, j, i) \in Nat /\ SeenDown(image, j, i) \in Nat
        /\ HeldAcross(image, j, i) \in Nat /\ HeldDown(image, j, i) \in Nat
        /\ CeilDiv(Across(image, j), IMCUAcross(image, j)) * h <= HeldAcross(image, j, i)
        /\ CeilDiv(Down(image, j), IMCUDown(image, j)) * v <= HeldDown(image, j, i)
    BY SourceBlocks
  <1>4. /\ h \in Nat \ {0} /\ v \in Nat \ {0}
        /\ r.x.size \in Nat /\ r.y.size \in Nat
        /\ Across(image, j) \in Nat /\ Down(image, j) \in Nat
        /\ IMCUAcross(image, j) \in Nat \ {0} /\ IMCUDown(image, j) \in Nat \ {0}
    BY OutBlocks, Units, RequestFits DEF Fits, AxisFits
  <1>5. /\ CeilDiv(r.x.size, IMCUAcross(image, j)) * h \in Nat
        /\ CeilDiv(r.y.size, IMCUDown(image, j)) * v \in Nat
        /\ CeilDiv(Across(image, j), IMCUAcross(image, j)) * h \in Nat
        /\ CeilDiv(Down(image, j), IMCUDown(image, j)) * v \in Nat
    BY <1>4, WholeSeenPadded
  <1> HIDE DEF h, v, x, y
  <1>6. /\ x < CeilDiv(r.x.size, IMCUAcross(image, j)) * h
        /\ y < CeilDiv(r.y.size, IMCUDown(image, j)) * v
    BY <1>2, <1>5 DEF Span, x, y
  <1>7. a < HeldAcross(image, j, i) /\ b < HeldDown(image, j, i)
    <2>1. /\ a < CeilDiv(Across(image, j), IMCUAcross(image, j)) * h
          /\ b < CeilDiv(Down(image, j), IMCUDown(image, j)) * v
      BY <1>1, <1>6, Zenon DEF Reaches
    <2> QED
      BY <1>3, <1>5, <2>1
  <1>8. <<how.x, how.y>> \in Array(image, i)
    <2>1. Place(j.transform, a, b) \in Array(image, i)
      <3>1. a \in Int /\ b \in Int /\ 0 <= a /\ 0 <= b
        OBVIOUS
      <3> QED
        BY <1>3, <1>7, <3>1, InPlace, Zenon
    <2> QED
      BY <1>1, <2>1
  <1>9. ASSUME p \in Visible(out, i)
        PROVE  <<how.x, how.y>> \in Visible(image, i)
    <2>1. /\ x < CeilDiv(r.x.size * h, IMCUAcross(image, j))
          /\ y < CeilDiv(r.y.size * v, IMCUDown(image, j))
      <3>1. r.x.size * h \in Nat /\ r.y.size * v \in Nat
        BY <1>4, Products
      <3>2. /\ CeilDiv(r.x.size * h, IMCUAcross(image, j)) \in Nat
            /\ CeilDiv(r.y.size * v, IMCUDown(image, j)) \in Nat
        BY <1>4, <3>1, BelowCeil
      <3> QED
        BY <1>2, <1>9, <3>2 DEF Visible, Span, x, y
    <2>2. a < SeenAcross(image, j, i) /\ b < SeenDown(image, j, i)
      BY <1>1, <1>3, <2>1, Zenon DEF Reaches
    <2>3. Place(j.transform, a, b) \in Visible(image, i)
      BY <1>3, <2>2, InPlace
    <2> QED
      BY <1>1, <2>3
  <1> QED
    BY <1>8, <1>9

\* The workspace is what the destination needs, and when there is none its blocks
\* are blocks of the source's own array.
LEMMA WorkspaceIs ==
    ASSUME NEW image, NEW j, Fits(image, j), NEW r, r = Request(image, j),
           NEW out, out = Adjust(image, j, r), NEW i \in DOMAIN out.comps
    PROVE  Workspace(image, j, r)[i] = Array(out, i)
  <1>1. image.comps \in Seq(Factors) \ {<<>>} /\ i \in DOMAIN image.comps
        /\ i \in 1..r.num_components
    BY Types, OutImage DEF Fits
  <1>2. Workspace(image, j, r)[i] =
           LET c == image.comps[i]
               h == IF r.num_components = 1 THEN 1
                    ELSE IF j.transform \in Transposing THEN c.v ELSE c.h
               v == IF r.num_components = 1 THEN 1
                    ELSE IF j.transform \in Transposing THEN c.h ELSE c.v
           IN  Span(CeilDiv(r.x.size, IMCUAcross(image, j)) * h)
                   \X Span(CeilDiv(r.y.size, IMCUDown(image, j)) * v)
    BY <1>1, Zenon DEF Workspace
  <1>3. /\ out.comps[i].h = IF r.num_components = 1 THEN 1
                            ELSE IF j.transform \in Transposing THEN image.comps[i].v
                            ELSE image.comps[i].h
        /\ out.comps[i].v = IF r.num_components = 1 THEN 1
                            ELSE IF j.transform \in Transposing THEN image.comps[i].h
                            ELSE image.comps[i].v
    <2>1. CASE r.num_components = 1
      <3>1. i = 1 /\ out.comps[i] = [h |-> 1, v |-> 1]
        BY <1>1, <2>1, OutImage
      <3> QED
        BY <2>1, <3>1
    <2>2. CASE r.num_components # 1
      BY <1>1, <2>2, OutImage, TurnedComps
    <2> QED
      BY <2>1, <2>2
  <1>4. Workspace(image, j, r)[i] =
           Span(CeilDiv(r.x.size, IMCUAcross(image, j)) * out.comps[i].h)
               \X Span(CeilDiv(r.y.size, IMCUDown(image, j)) * out.comps[i].v)
    BY <1>2, <1>3, Zenon
  <1> QED
    BY <1>4, OutBlocks, Zenon

LEMMA InOwnArray ==
    ASSUME NEW image, NEW j, Fits(image, j), NEW r, r = Request(image, j),
           NEW out, out = Adjust(image, j, r), NEW i \in DOMAIN out.comps,
           ~NeedsWorkspace(image, j, r)
    PROVE  Array(out, i) \subseteq Array(image, i)
  <1> DEFINE h == out.comps[i].h
             v == out.comps[i].v
             UA == IMCUAcross(image, j)
             UD == IMCUDown(image, j)
  <1>1. j.transform \in {"none", "flip_h", "wipe"}
    BY DEF NeedsWorkspace
  <1>2. j.transform \notin Transposing
    BY <1>1 DEF Transposing
  <1>3. Across(image, j) = image.width /\ Down(image, j) = image.height
    BY <1>2 DEF Across, Down
  <1>4. /\ h \in Nat \ {0} /\ v \in Nat \ {0}
        /\ r.x.size \in Nat /\ r.y.size \in Nat
        /\ image.width \in Nat /\ image.height \in Nat
        /\ UA \in Nat \ {0} /\ UD \in Nat \ {0}
    BY OutBlocks, Units, Types, RequestFits DEF Fits, AxisFits
  <1>5. r.x.size <= image.width /\ r.y.size <= image.height
    <2>1. CASE j.transform = "none"
      BY <1>4, <2>1 DEF NeedsWorkspace
    <2>2. CASE j.transform # "none"
      BY <1>3, <1>4, <2>2, RequestFits DEF AxisFits
    <2> QED
      BY <2>1, <2>2
  <1>6. Array(out, i) = Span(CeilDiv(r.x.size, UA) * h) \X Span(CeilDiv(r.y.size, UD) * v)
    BY OutBlocks
  <1>7. /\ HeldAcross(image, j, i) \in Nat /\ HeldDown(image, j, i) \in Nat
        /\ CeilDiv(image.width, UA) * h <= HeldAcross(image, j, i)
        /\ CeilDiv(image.height, UD) * v <= HeldDown(image, j, i)
    BY <1>3, SourceBlocks
  <1>8. Array(image, i) = Span(HeldAcross(image, j, i)) \X Span(HeldDown(image, j, i))
    BY <1>2 DEF Array, HeldAcross, HeldDown
  <1>9. /\ CeilDiv(r.x.size, UA) * h \in Nat /\ CeilDiv(r.y.size, UD) * v \in Nat
        /\ CeilDiv(image.width, UA) * h \in Nat /\ CeilDiv(image.height, UD) * v \in Nat
    BY <1>4, WholeSeenPadded
  <1> HIDE DEF h, v, UA, UD
  <1>10. ASSUME NEW n \in Nat
         PROVE  /\ n < CeilDiv(r.x.size, UA) * h => n < HeldAcross(image, j, i)
                /\ n < CeilDiv(r.y.size, UD) * v => n < HeldDown(image, j, i)
    <2>1. 0 * UA + r.x.size <= image.width /\ 0 * UD + r.y.size <= image.height
      BY <1>4, <1>5
    <2>2. n < CeilDiv(r.x.size, UA) * h => n + 0 * h < CeilDiv(image.width, UA) * h
      BY <1>4, <2>1, Window
    <2>3. n < CeilDiv(r.y.size, UD) * v => n + 0 * v < CeilDiv(image.height, UD) * v
      BY <1>4, <2>1, Window
    <2>4. n + 0 * h = n /\ n + 0 * v = n
      BY <1>4
    <2> QED
      BY <1>7, <1>9, <2>2, <2>3, <2>4
  <1>11. /\ Span(CeilDiv(r.x.size, UA) * h) \subseteq Span(HeldAcross(image, j, i))
         /\ Span(CeilDiv(r.y.size, UD) * v) \subseteq Span(HeldDown(image, j, i))
    BY <1>7, <1>9, <1>10 DEF Span
  <1> QED
    BY <1>6, <1>8, <1>11

----------------------------------------------------------------------------
\* What the phases have established.
TransformInv ==
    /\ source \in Sources /\ job \in Jobs
    /\ phase \in {"read_header", "not perfect", "error", "requested", "adjusted", "done"}
    /\ phase \in {"requested", "adjusted", "done"} =>
          /\ info = Request(source, job)
          /\ ~Refused(source, job) /\ ~CropRefused(source, job)
    /\ phase \in {"adjusted", "done"} =>
          /\ dest = Adjust(source, job, info)
          /\ ~CannotConvert(source, job)
    /\ phase = "done" => blocks = Execute(source, Original(source), job, info, dest)

\* The request, the adjustment and the execution follow one another, and each of
\* them has seen what the one before it worked out (transupp.c:988-1230, 1480-1570,
\* 1576-1633).
THEOREM TransformInvariant == Spec => []TransformInv
  <1>1. Init => TransformInv
    BY DEF Init, TransformInv
  <1>2. ASSUME TransformInv, [Next]_vars PROVE TransformInv'
    <2>1. CASE jtransform_request_workspace
      <3>1. /\ source' = source /\ job' = job /\ phase = "read_header"
            /\ phase' \in {"not perfect", "error", "requested"}
            /\ phase' = "requested" =>
                  /\ info' = Request(source, job)
                  /\ ~Refused(source, job) /\ ~CropRefused(source, job)
        BY <2>1 DEF jtransform_request_workspace
      <3> QED
        BY <1>2, <3>1 DEF TransformInv
    <2>2. CASE jtransform_adjust_parameters
      <3>1. /\ source' = source /\ job' = job /\ info' = info /\ phase = "requested"
            /\ phase' \in {"error", "adjusted"}
            /\ phase' = "adjusted" =>
                  dest' = Adjust(source, job, info) /\ ~CannotConvert(source, job)
        BY <2>2 DEF jtransform_adjust_parameters
      <3> QED
        BY <1>2, <3>1 DEF TransformInv
    <2>3. CASE jtransform_execute_transform
      BY <1>2, <2>3, SMTT(20) DEF TransformInv, jtransform_execute_transform
    <2>4. CASE UNCHANGED vars
      <3>1. /\ source' = source /\ job' = job /\ info' = info /\ dest' = dest
            /\ blocks' = blocks /\ phase' = phase
        BY <2>4 DEF vars
      <3> QED
        BY <1>2, <3>1, Zenon DEF TransformInv
    <2> QED
      BY <1>2, <2>1, <2>2, <2>3, <2>4 DEF Next
  <1> QED
    BY <1>1, <1>2, PTL DEF Spec

LEMMA InvFits ==
    ASSUME TransformInv, phase \in {"adjusted", "done"}
    PROVE  /\ Fits(source, job)
           /\ info = Request(source, job) /\ dest = Adjust(source, job, info)
           /\ ~Refused(source, job)
           /\ phase = "done" => blocks = Execute(source, Original(source), job, info, dest)
  BY TransformAssumption DEF TransformInv, Fits

\* A block that is turned, once more.
LEMMA TurnedBlock ==
    ASSUME NEW b \in Blocks, NEW how \in Blocks
    PROVE  /\ Turned(b, how) \in Blocks
           /\ Turned(b, how) =
                 IF how.transposed
                 THEN Block(b.x, b.y, ~b.transposed, b.my # how.mx, b.mx # how.my)
                 ELSE Block(b.x, b.y, b.transposed, b.mx # how.mx, b.my # how.my)
  <1>1. b \notin {Zero, Dummy}
    BY NotFilling
  <1>2. /\ b.x \in Nat /\ b.y \in Nat /\ b.transposed \in BOOLEAN
        /\ b.mx \in BOOLEAN /\ b.my \in BOOLEAN
        /\ how.transposed \in BOOLEAN /\ how.mx \in BOOLEAN /\ how.my \in BOOLEAN
    BY DEF Blocks
  <1>3. Turned(b, how) =
           IF how.transposed
           THEN Block(b.x, b.y, ~b.transposed, b.my # how.mx, b.mx # how.my)
           ELSE Block(b.x, b.y, b.transposed, b.mx # how.mx, b.my # how.my)
    BY <1>1, Zenon DEF Turned
  <1>4. /\ (~b.transposed) \in BOOLEAN
        /\ (b.my # how.mx) \in BOOLEAN /\ (b.mx # how.my) \in BOOLEAN
        /\ (b.mx # how.mx) \in BOOLEAN /\ (b.my # how.my) \in BOOLEAN
    OBVIOUS
  <1>5. /\ Block(b.x, b.y, ~b.transposed, b.my # how.mx, b.mx # how.my) \in Blocks
        /\ Block(b.x, b.y, b.transposed, b.mx # how.mx, b.my # how.my) \in Blocks
    BY <1>2, <1>4, BlockIs, Zenon
  <1> QED
    BY <1>3, <1>5, Zenon

LEMMA TurnedVerbatim ==
    ASSUME NEW how \in Blocks
    PROVE  Turned(Verbatim(how.x, how.y), how) = how
  <1> DEFINE b == Verbatim(how.x, how.y)
  <1>1. /\ how.x \in Nat /\ how.y \in Nat /\ how.transposed \in BOOLEAN
        /\ how.mx \in BOOLEAN /\ how.my \in BOOLEAN
        /\ how = Block(how.x, how.y, how.transposed, how.mx, how.my)
    BY DEF Blocks, Block
  <1>2. /\ b \in Blocks /\ b.x = how.x /\ b.y = how.y
        /\ b.transposed = FALSE /\ b.mx = FALSE /\ b.my = FALSE
    BY <1>1 DEF Verbatim, Block, Blocks
  <1>3. (FALSE # how.mx) = how.mx /\ (FALSE # how.my) = how.my
    BY <1>1, Zenon
  <1> HIDE DEF b
  <1>4. Turned(b, how) = how
    <2>1. CASE how.transposed
      <3>1. Turned(b, how) = Block(how.x, how.y, ~FALSE, FALSE # how.mx, FALSE # how.my)
        <4>1. Turned(b, how)
                 = Block(b.x, b.y, ~b.transposed, b.my # how.mx, b.mx # how.my)
          BY <1>2, <2>1, TurnedBlock, Zenon
        <4> QED
          BY <1>2, <4>1, Zenon
      <3>2. (~FALSE) = how.transposed
        BY <1>1, <2>1, Zenon
      <3> QED
        BY <1>1, <1>3, <3>1, <3>2, Zenon
    <2>2. CASE ~how.transposed
      <3>1. Turned(b, how) = Block(how.x, how.y, FALSE, FALSE # how.mx, FALSE # how.my)
        BY <1>2, <2>2, TurnedBlock
      <3>2. FALSE = how.transposed
        BY <1>1, <2>2, Zenon
      <3> QED
        BY <1>1, <1>3, <3>1, <3>2, Zenon
    <2> QED
      BY <2>1, <2>2
  <1> QED
    BY <1>4 DEF b

\* The blocks of the result are those that Taken names, as they are in the file.
LEMMA ResultBlocks ==
    ASSUME TransformInv, phase = "done", NEW i \in DOMAIN dest.comps,
           NEW p \in Visible(dest, i)
    PROVE  /\ DOMAIN blocks = DOMAIN dest.comps
           /\ p[1] \in Nat /\ p[2] \in Nat /\ p \in Array(dest, i)
           /\ blocks[i][p] = Taken(source, job, info, dest, i, p[1], p[2])
           /\ blocks[i][p] = Zero \/
                 /\ blocks[i][p] \in Blocks
                 /\ <<blocks[i][p].x, blocks[i][p].y>> \in Visible(source, i)
  <1> DEFINE how == Taken(source, job, info, dest, i, p[1], p[2])
  <1>1. /\ Fits(source, job) /\ info = Request(source, job)
        /\ dest = Adjust(source, job, info)
        /\ blocks = Execute(source, Original(source), job, info, dest)
    BY InvFits
  <1>2. p \in Array(dest, i)
    BY <1>1, OutBlocks
  <1>3. p[1] \in Nat /\ p[2] \in Nat
    BY DEF Visible, Span
  <1>4. DOMAIN blocks = DOMAIN dest.comps
    BY <1>1 DEF Execute
  <1>5. blocks[i][p] = IF how = Zero THEN Zero
                       ELSE Turned(Original(source)[i][<<how.x, how.y>>], how)
    <2>1. blocks = Execute(source, Original(source), job, info, dest)
      BY <1>1
    <2> QED
      BY ONLY <2>1, <1>2, i \in DOMAIN dest.comps, p \in Visible(dest, i), Zenon DEF Execute
  <1>6. how = Zero \/ Found(source, job, info, dest.comps[i], p[1], p[2], how)
    BY <1>1, <1>3, FoundAlways
  <1>7. i \in DOMAIN source.comps
    BY <1>1, OutImage
  <1> HIDE DEF how
  <1>8. ASSUME how # Zero
        PROVE  /\ how \in Blocks /\ blocks[i][p] = how
               /\ <<how.x, how.y>> \in Visible(source, i)
    <2>1. how \in Blocks
      BY <1>6, <1>8, Zenon DEF Found
    <2>2. /\ <<how.x, how.y>> \in Array(source, i)
          /\ <<how.x, how.y>> \in Visible(source, i)
      BY <1>1, <1>2, <1>6, <1>8, FoundIn
    <2>3. Original(source)[i][<<how.x, how.y>>] = Verbatim(how.x, how.y)
      BY <1>7, <2>2 DEF Original
    <2>4. blocks[i][p] = Turned(Verbatim(how.x, how.y), how)
      BY <1>5, <1>8, <2>3, Zenon
    <2> QED
      BY <2>1, <2>2, <2>4, TurnedVerbatim
  <1>9. blocks[i][p] = how
    BY <1>5, <1>8, Zenon
  <1> QED
    BY <1>2, <1>3, <1>4, <1>8, <1>9 DEF how

\* No routine reads or writes a block that its array does not have, and a block
\* that is seen was a visible block of the source or is zero (transupp.c:72-75,
\* 462-475, 1229-1232).
THEOREM TransformStays == Spec => []StaysInArrays
  <1> SUFFICES ASSUME TransformInv PROVE StaysInArrays
    BY TransformInvariant, PTL
  <1>1. ASSUME phase = "adjusted", NEW i \in DOMAIN dest.comps
        PROVE  /\ Written(i) \subseteq IF NeedsWorkspace(source, job, info)
                                       THEN Workspace(source, job, info)[i]
                                       ELSE Array(source, i)
               /\ \A p \in Written(i) :
                     LET how == Taken(source, job, info, dest, i, p[1], p[2])
                     IN  how = Zero \/ <<how.x, how.y>> \in Array(source, i)
    <2>1. /\ Fits(source, job) /\ info = Request(source, job)
          /\ dest = Adjust(source, job, info)
      BY <1>1, InvFits
    <2>2. Written(i) \subseteq Array(dest, i)
      BY DEF Written
    <2>3. Written(i) \subseteq IF NeedsWorkspace(source, job, info)
                               THEN Workspace(source, job, info)[i] ELSE Array(source, i)
      <3>1. CASE NeedsWorkspace(source, job, info)
        BY <1>1, <2>1, <2>2, <3>1, WorkspaceIs
      <3>2. CASE ~NeedsWorkspace(source, job, info)
        <4>1. Array(dest, i) \subseteq Array(source, i)
          BY <1>1, <2>1, <3>2, InOwnArray
        <4> QED
          BY <2>2, <3>2, <4>1
      <3> QED
        BY <3>1, <3>2
    <2>4. ASSUME NEW p \in Written(i),
                 NEW how, how = Taken(source, job, info, dest, i, p[1], p[2])
          PROVE  how = Zero \/ <<how.x, how.y>> \in Array(source, i)
      <3>1. p \in Array(dest, i)
        BY <2>2
      <3>2. p[1] \in Nat /\ p[2] \in Nat
        BY <3>1 DEF Array, Span
      <3>3. how = Zero \/ Found(source, job, info, dest.comps[i], p[1], p[2], how)
        BY <1>1, <2>1, <2>4, <3>2, FoundAlways
      <3> QED
        BY <1>1, <2>1, <3>1, <3>3, FoundIn
    <2> QED
      BY <2>3, <2>4, Zenon
  <1>2. ASSUME phase = "done", NEW i \in DOMAIN blocks, NEW p \in Visible(dest, i)
        PROVE  \/ blocks[i][p] = Zero
               \/ <<blocks[i][p].x, blocks[i][p].y>> \in Visible(source, i)
    <2>1. DOMAIN blocks = DOMAIN dest.comps
      BY <1>2, InvFits DEF Execute
    <2> QED
      BY <1>2, <2>1, ResultBlocks
  <1> QED
    BY <1>1, <1>2, Zenon DEF StaysInArrays, Done

----------------------------------------------------------------------------
\* Samples.

\* A window within the whole iMCUs has its blocks there.
LEMMA WholeWindow ==
    ASSUME NEW w \in Nat, NEW s \in Nat, NEW U \in Nat \ {0}, NEW h \in Nat \ {0},
           NEW o \in Nat, o * U + s <= w * U, NEW x \in Nat, x < CeilDiv(s * h, U)
    PROVE  x + o * h < w * h
  <1>1. w * U \in Nat /\ w * h \in Nat /\ o * h \in Nat
    BY Products
  <1>2. x + o * h < CeilDiv((w * U) * h, U)
    BY <1>1, Window
  <1>3. (w * U) * h = (w * h) * U
    BY Products
  <1>4. x + o * h \in Nat /\ (w * h) * U \in Nat
    BY <1>1, Products
  <1>5. (x + o * h) * U < (w * h) * U
    BY <1>2, <1>3, <1>4, BelowCeil
  <1> QED
    BY <1>1, <1>4, <1>5, Cancel

\* A sample of the image that is written is in a block that is seen.
LEMMA SampleSeen ==
    ASSUME NEW s \in Nat, NEW m \in Nat \ {0}, NEW D \in Nat \ {0}, NEW h \in Nat,
           NEW X \in Nat, X < CeilDiv(s * h, m)
    PROVE  X \div D \in Nat /\ X \div D < CeilDiv(s * h, m * D)
  <1> DEFINE x == X \div D
             n == s * h
  <1>1. x \in Nat /\ x * D <= X /\ x * D \in Nat
    BY Quotient, Products
  <1>2. n \in Nat /\ m * D \in Nat \ {0}
    <2>1. 0 * D < m * D
      BY Cancel
    <2> QED
      BY <2>1, Products
  <1> HIDE DEF x, n
  <1>3. X * m < n
    BY <1>2, BelowCeil DEF n
  <1>4. (x * D) * m <= X * m /\ X * m \in Nat /\ (x * D) * m \in Nat
    BY <1>1, Products
  <1>5. (x * D) * m = x * (m * D)
    <2>1. (x * D) * m = x * (D * m) /\ D * m = m * D
      BY <1>1, Products
    <2> QED
      BY <2>1
  <1>6. x * (m * D) < n
    BY <1>2, <1>3, <1>4, <1>5
  <1>7. x < CeilDiv(n, m * D)
    BY <1>1, <1>2, <1>6, BelowCeil
  <1> QED
    BY <1>1, <1>7 DEF x, n

\* A sample X of an axis in its block, n blocks further on, and mirrored in A blocks.
SampleAt(D, X, n, A, x) ==
    /\ x * D + (X % D) = X + n * D
    /\ x < A => (A - 1 - x) * D + (D - 1 - (X % D)) = A * D - 1 - (X + n * D)

LEMMA SampleMoves ==
    ASSUME NEW D \in Nat \ {0}, NEW X \in Nat, NEW n \in Nat, NEW A \in Nat,
           NEW x, x = X \div D + n
    PROVE  SampleAt(D, X, n, A, x)
  <1> DEFINE q == X \div D
             e == X % D
  <1>1. q \in Nat /\ e \in Nat /\ X = q * D + e /\ q * D \in Nat /\ n * D \in Nat
    BY Quotient, Products
  <1> HIDE DEF q, e
  <1>2. x = q + n /\ x \in Nat
    BY <1>1 DEF q
  <1>3. x * D = q * D + n * D
    BY <1>1, <1>2, Products
  <1>4. x * D + e = X + n * D
    BY <1>1, <1>3
  <1>5. ASSUME x < A
        PROVE  (A - 1 - x) * D + (D - 1 - e) = A * D - 1 - (X + n * D)
    <2> DEFINE k == A - 1 - x
    <2>1. k \in Nat /\ A = (k + x) + 1
      BY <1>2, <1>5
    <2> HIDE DEF k
    <2>2. A * D = (k + x) * D + D /\ (k + x) * D = k * D + x * D
      <3>1. k + x \in Nat
        BY <1>2, <2>1
      <3> QED
        BY <1>2, <2>1, <3>1, Products
    <2>3. k * D \in Nat /\ x * D \in Nat
      BY <1>2, <2>1, Products
    <2>4. k * D + (D - 1 - e) = A * D - 1 - (X + n * D)
      BY <1>1, <1>4, <2>2, <2>3
    <2> QED
      BY <2>4 DEF k
  <1> QED
    BY <1>4, <1>5 DEF e, SampleAt

\* The samples of whole iMCUs.
LEMMA WholeScaled ==
    ASSUME NEW w \in Nat, NEW m \in Nat \ {0}, NEW D \in Nat, NEW h \in Nat
    PROVE  /\ ((w * (m * D)) * h) \div m = (w * h) * D
           /\ ((w * D) * m) \div m = w * D
  <1>1. m * D \in Nat /\ w * D \in Nat /\ w * h \in Nat /\ (w * h) * D \in Nat
    BY Products
  <1>2. (w * (m * D)) * h = ((w * h) * D) * m
    <2>1. (w * (m * D)) * h = w * ((m * D) * h)
      BY <1>1, Products
    <2>2. (m * D) * h = h * (m * D) /\ m * D = D * m
      BY <1>1, Products
    <2>3. ((w * h) * D) * m = (w * h) * (D * m)
      BY <1>1, Products
    <2>4. D * m \in Nat
      BY Products
    <2>5. (w * h) * (D * m) = w * (h * (D * m))
      BY <2>4, Products
    <2> QED
      BY <2>1, <2>2, <2>3, <2>5
  <1>3. (((w * h) * D) * m) \div m = (w * h) * D
    BY <1>1, DivMultiple
  <1>4. ((w * D) * m) \div m = w * D
    BY <1>1, DivMultiple
  <1> QED
    BY <1>2, <1>3, <1>4

\* A perfect job, and one that trims, mirrors nothing but whole iMCUs.
LEMMA CleanWhole ==
    ASSUME TransformInv, phase = "done", Clean, job.transform \in Turns
    PROVE  /\ job.transform \in TrimsRight =>
                 info.x.offset * IMCUAcross(source, job) + info.x.size
                     <= (Across(source, job) \div IMCUAcross(source, job))
                            * IMCUAcross(source, job)
           /\ job.transform \in TrimsBottom =>
                 info.y.offset * IMCUDown(source, job) + info.y.size
                     <= (Down(source, job) \div IMCUDown(source, job))
                            * IMCUDown(source, job)
  <1> DEFINE SA == Across(source, job)
             SD == Down(source, job)
             UA == IMCUAcross(source, job)
             UD == IMCUDown(source, job)
             u == SourceIMCU(source, job)
  <1>1. /\ Fits(source, job) /\ info = Request(source, job) /\ ~Refused(source, job)
    BY InvFits
  <1>2. /\ AxisFits(job.crop, job.transform, info.x, SA, UA,
                    job.trim /\ job.transform \in TrimsRight)
        /\ AxisFits(job.crop, job.transform, info.y, SD, UD,
                    job.trim /\ job.transform \in TrimsBottom)
    BY <1>1, RequestFits
  <1>3. SA \in Nat /\ SD \in Nat /\ UA \in Nat \ {0} /\ UD \in Nat \ {0}
    BY <1>1, Units DEF Fits
  <1>4. job.transform # "none" /\ job.transform # "wipe"
    BY DEF Turns
  <1>5. /\ info.x.size \in Nat /\ info.y.size \in Nat
        /\ info.x.offset * UA + info.x.size <= SA
        /\ info.y.offset * UD + info.y.size <= SD
    BY <1>2, <1>3, <1>4 DEF AxisFits
  <1>6. CASE job.perfect
    <2>1. PerfectTransform(source.width, source.height, u.w, u.h, job.transform)
      BY <1>1, <1>6 DEF Refused
    <2>2. /\ job.transform \in TrimsRight => SA % UA = 0
          /\ job.transform \in TrimsBottom => SD % UD = 0
      <3> HIDE DEF u
      <3>1. IF job.transform \in Transposing
            THEN SA = source.height /\ SD = source.width /\ UA = u.h /\ UD = u.w
            ELSE SA = source.width /\ SD = source.height /\ UA = u.w /\ UD = u.h
        BY DEF Across, Down, IMCUAcross, IMCUDown, u
      <3> HIDE DEF SA, SD, UA, UD
      <3> QED
        BY <2>1, <3>1 DEF PerfectTransform, TrimsRight, TrimsBottom, Transposing
    <2>3. SA = (SA \div UA) * UA + (SA % UA) /\ SD = (SD \div UD) * UD + (SD % UD)
      BY <1>3, Quotient
    <2>4. /\ job.transform \in TrimsRight => SA = (SA \div UA) * UA
          /\ job.transform \in TrimsBottom => SD = (SD \div UD) * UD
      <3>1. (SA \div UA) * UA \in Nat /\ (SD \div UD) * UD \in Nat
        BY <1>3, Quotient, Products
      <3> HIDE DEF SA, SD, UA, UD
      <3> QED
        BY <2>2, <2>3, <3>1
    <2> QED
      BY <1>5, <2>4
  <1>7. CASE ~job.perfect
    <2>1. /\ job.trim
          /\ job.transform \in TrimsRight => info.x.size >= UA
          /\ job.transform \in TrimsBottom => info.y.size >= UD
      BY <1>7 DEF Clean
    <2> QED
      BY <1>2, <2>1 DEF AxisFits
  <1> QED
    BY <1>6, <1>7

\* What is mirrored, in samples of the image that is written.
LEMMA WholeAre ==
    ASSUME TransformInv, phase = "done", NEW i \in DOMAIN dest.comps,
           NEW A, A = WholeAcross(source, job, dest.comps[i].h),
           NEW B, B = WholeDown(source, job, dest.comps[i].v)
    PROVE  IF job.transform \in Transposing
           THEN WholeHeight(i) = A * DCTSIZE /\ WholeWidth(i) = B * DCTSIZE
           ELSE WholeWidth(i) = A * DCTSIZE /\ WholeHeight(i) = B * DCTSIZE
  <1> DEFINE qw == source.width \div Unit.w
             qh == source.height \div Unit.h
             s == source.comps[i]
             c == dest.comps[i]
             mh == MaxH(source.comps)
             mv == MaxV(source.comps)
             D == DCTSIZE
  <1>1. /\ Fits(source, job) /\ info = Request(source, job)
        /\ dest = Adjust(source, job, info)
    BY InvFits
  <1>2. /\ source.width \in Nat /\ source.height \in Nat
        /\ Unit.w \in Nat \ {0} /\ Unit.h \in Nat \ {0}
        /\ source.comps \in Seq(Factors) \ {<<>>} /\ D \in Nat
    BY <1>1, Types, Units, TransformAssumption DEF Fits, Unit
  <1>3. qw \in Nat /\ qh \in Nat
    BY <1>2, Quotient
  <1>4. /\ i \in DOMAIN source.comps
        /\ mh \in Nat \ {0} /\ mv \in Nat \ {0}
        /\ s.h \in Nat /\ s.v \in Nat
    <2>1. i \in DOMAIN source.comps
      BY <1>1, OutImage
    <2>2. mh \in 1..4 /\ mv \in 1..4 /\ s.h \in 1..4 /\ s.v \in 1..4
      BY <1>2, <2>1, Comps
    <2> QED
      BY <2>1, <2>2
  <1>5. /\ WholeWidth(i) = ((qw * Unit.w) * s.h) \div mh
        /\ WholeHeight(i) = ((qh * Unit.h) * s.v) \div mv
    BY DEF WholeWidth, WholeHeight
  <1>6. IF job.transform \in Transposing THEN A = qh * c.h /\ B = qw * c.v
        ELSE A = qw * c.h /\ B = qh * c.v
    BY DEF WholeAcross, WholeDown, Across, Down, IMCUAcross, IMCUDown, Unit
  <1>7. CASE info.num_components = 1
    <2>1. /\ Unit.w = D /\ Unit.h = D
      BY <1>1, <1>7, RequestFits DEF Unit, SourceIMCU
    <2>2. i = 1 /\ c.h = 1 /\ c.v = 1 /\ mh = s.h /\ mv = s.v
      <3>1. i = 1 /\ c = [h |-> 1, v |-> 1]
            /\ mh = source.comps[1].h /\ mv = source.comps[1].v
        BY <1>1, <1>7, OutImage
      <3> QED
        BY <3>1
    <2> HIDE DEF qw, qh, s, c, mh, mv, D
    <2>3. /\ ((qw * D) * mh) \div mh = qw * D /\ ((qh * D) * mv) \div mv = qh * D
      <3> DEFINE a == qw * D
                 b == qh * D
      <3>1. a \in Nat /\ b \in Nat
        BY <1>2, <1>3, Products
      <3> HIDE DEF a, b
      <3>2. (a * mh) \div mh = a
        BY <1>4, <3>1, DivMultiple
      <3>3. (b * mv) \div mv = b
        BY <1>4, <3>1, DivMultiple
      <3> QED
        BY <3>2, <3>3, Zenon DEF a, b
    <2>4. WholeWidth(i) = qw * D /\ WholeHeight(i) = qh * D
      BY <1>5, <2>1, <2>2, <2>3, Zenon
    <2>5. qw * 1 = qw /\ qh * 1 = qh
      BY <1>3
    <2>6. IF job.transform \in Transposing THEN A = qh /\ B = qw ELSE A = qw /\ B = qh
      BY <1>6, <2>2, <2>5, Zenon
    <2> QED
      BY <2>4, <2>6, Zenon DEF D
  <1>8. CASE info.num_components # 1
    <2>1. /\ Unit.w = mh * D /\ Unit.h = mv * D
      BY <1>1, <1>8, RequestFits DEF Unit, SourceIMCU
    <2>2. IF job.transform \in Transposing THEN c.h = s.v /\ c.v = s.h
          ELSE c.h = s.h /\ c.v = s.v
      BY <1>1, <1>2, <1>4, <1>8, OutImage, TurnedComps
    <2> HIDE DEF qw, qh, s, c, mh, mv, D
    <2>3. /\ ((qw * (mh * D)) * s.h) \div mh = (qw * s.h) * D
          /\ ((qh * (mv * D)) * s.v) \div mv = (qh * s.v) * D
      <3> DEFINE hs == s.h
                 vs == s.v
      <3>1. hs \in Nat /\ vs \in Nat
        BY <1>4
      <3> HIDE DEF hs, vs
      <3>2. ((qw * (mh * D)) * hs) \div mh = (qw * hs) * D
        BY <1>2, <1>3, <1>4, <3>1, WholeScaled
      <3>3. ((qh * (mv * D)) * vs) \div mv = (qh * vs) * D
        BY <1>2, <1>3, <1>4, <3>1, WholeScaled
      <3> QED
        BY <3>2, <3>3, Zenon DEF hs, vs
    <2>4. WholeWidth(i) = (qw * s.h) * D /\ WholeHeight(i) = (qh * s.v) * D
      BY <1>5, <2>1, <2>3, Zenon
    <2>5. IF job.transform \in Transposing THEN A = qh * s.v /\ B = qw * s.h
          ELSE A = qw * s.h /\ B = qh * s.v
      BY <1>6, <2>2, Zenon
    <2> QED
      BY <2>4, <2>5, Zenon DEF D
  <1> QED
    BY <1>7, <1>8

LEMMA OriginIs ==
    ASSUME TransformInv, phase = "done", Clean, job.transform \in Turns,
           NEW i \in DOMAIN dest.comps,
           NEW X \in Span(SamplesAcross(i)), NEW Y \in Span(SamplesDown(i)),
           NEW A, A = WholeAcross(source, job, dest.comps[i].h),
           NEW B, B = WholeDown(source, job, dest.comps[i].v),
           NEW XX, XX = X + info.x.offset * dest.comps[i].h * DCTSIZE,
           NEW YY, YY = Y + info.y.offset * dest.comps[i].v * DCTSIZE
    PROVE  Origin(i, X, Y) =
               Place(job.transform,
                     IF job.transform \in TrimsRight THEN A * DCTSIZE - 1 - XX ELSE XX,
                     IF job.transform \in TrimsBottom THEN B * DCTSIZE - 1 - YY ELSE YY)
  <1> DEFINE D == DCTSIZE
             t == job.transform
             h == dest.comps[i].h
             v == dest.comps[i].v
             SA == Across(source, job)
             SD == Down(source, job)
             UA == IMCUAcross(source, job)
             UD == IMCUDown(source, job)
             x == X \div D
             y == Y \div D
             p == <<x, y>>
             n == info.x.offset * h
             m == info.y.offset * v
             xa == x + n
             yb == y + m
             how == blocks[i][p]
  <1>1. /\ Fits(source, job) /\ info = Request(source, job)
        /\ dest = Adjust(source, job, info)
    BY InvFits
  <1>2. /\ SA \in Nat /\ SD \in Nat /\ UA \in Nat \ {0} /\ UD \in Nat \ {0}
        /\ D \in Nat \ {0} /\ h \in Nat \ {0} /\ v \in Nat \ {0}
    BY <1>1, Units, OutBlocks, TransformAssumption DEF Fits
  <1>3. /\ info.x.size \in Nat /\ info.x.offset \in Nat /\ info.x.size <= SA
        /\ info.y.size \in Nat /\ info.y.offset \in Nat /\ info.y.size <= SD
    <2>1. t # "none" /\ t # "wipe"
      BY DEF Turns
    <2> QED
      BY <1>1, <1>2, <2>1, RequestFits DEF AxisFits
  <1>4. /\ dest.width = info.x.size /\ dest.height = info.y.size
        /\ MaxH(dest.comps) * D = UA /\ MaxV(dest.comps) * D = UD
        /\ MaxH(dest.comps) \in Nat \ {0} /\ MaxV(dest.comps) \in Nat \ {0}
    <2>1. dest.comps \in Seq(Factors) \ {<<>>}
      BY <1>1, OutImage DEF Images
    <2>2. MaxH(dest.comps) \in 1..4 /\ MaxV(dest.comps) \in 1..4
      BY <2>1, Comps
    <2> QED
      BY <1>1, <2>2, OutImage
  <1>5. /\ X \in Nat /\ X < CeilDiv(info.x.size * h, MaxH(dest.comps))
        /\ Y \in Nat /\ Y < CeilDiv(info.y.size * v, MaxV(dest.comps))
    <2>1. /\ info.x.size * h \in Nat /\ info.y.size * v \in Nat
      BY <1>2, <1>3, Products
    <2>2. /\ CeilDiv(info.x.size * h, MaxH(dest.comps)) \in Nat
          /\ CeilDiv(info.y.size * v, MaxV(dest.comps)) \in Nat
      BY <1>4, <2>1, BelowCeil
    <2>3. /\ X \in Span(CeilDiv(info.x.size * h, MaxH(dest.comps)))
          /\ Y \in Span(CeilDiv(info.y.size * v, MaxV(dest.comps)))
      BY <1>4 DEF SamplesAcross, SamplesDown
    <2> QED
      BY <2>2, <2>3 DEF Span
  <1> HIDE DEF h, v, D
  <1>6. /\ x \in Nat /\ x < CeilDiv(info.x.size * h, UA)
        /\ y \in Nat /\ y < CeilDiv(info.y.size * v, UD)
    <2>1. x \in Nat /\ x < CeilDiv(info.x.size * h, MaxH(dest.comps) * D)
      BY <1>2, <1>3, <1>4, <1>5, SampleSeen
    <2>2. y \in Nat /\ y < CeilDiv(info.y.size * v, MaxV(dest.comps) * D)
      BY <1>2, <1>3, <1>4, <1>5, SampleSeen
    <2> QED
      BY <1>4, <2>1, <2>2
  <1> HIDE DEF x, y
  <1>7. p \in Visible(dest, i)
    <2>1. /\ WidthInBlocks(dest, i) = CeilDiv(info.x.size * h, UA)
          /\ HeightInBlocks(dest, i) = CeilDiv(info.y.size * v, UD)
      BY <1>1, OutBlocks DEF h, v
    <2>2. /\ info.x.size * h \in Nat /\ info.y.size * v \in Nat
      BY <1>2, <1>3, Products
    <2>3. CeilDiv(info.x.size * h, UA) \in Nat /\ CeilDiv(info.y.size * v, UD) \in Nat
      BY <1>2, <2>2, BelowCeil
    <2> QED
      BY <1>6, <2>1, <2>3 DEF Visible, Span
  <1>8. how = Taken(source, job, info, dest, i, x, y)
    <2>1. blocks[i][p] = Taken(source, job, info, dest, i, p[1], p[2])
      BY <1>7, ResultBlocks, Zenon
    <2>2. p[1] = x /\ p[2] = y
      OBVIOUS
    <2> QED
      BY <2>1, <2>2, Zenon
  <1>9. how = Turn(t, A, B, xa, yb)
    BY <1>1, <1>3, <1>6, <1>8, TakenIs DEF h, v
  <1>10. /\ A = (SA \div UA) * h /\ B = (SD \div UD) * v
         /\ SA \div UA \in Nat /\ SD \div UD \in Nat
         /\ A \in Nat /\ B \in Nat /\ n \in Nat /\ m \in Nat /\ xa \in Nat /\ yb \in Nat
    <2>1. SA \div UA \in Nat /\ SD \div UD \in Nat
      BY <1>2, Quotient
    <2>2. A = (SA \div UA) * h /\ B = (SD \div UD) * v
      BY DEF WholeAcross, WholeDown, h, v
    <2>3. A \in Nat /\ B \in Nat /\ n \in Nat /\ m \in Nat
      BY <1>2, <1>3, <2>1, <2>2, Products
    <2> QED
      BY <1>6, <2>1, <2>2, <2>3
  <1>11. t \in TrimsRight => xa < A
    <2>1. t \in TrimsRight => info.x.offset * UA + info.x.size <= (SA \div UA) * UA
      BY CleanWhole
    <2>2. ASSUME t \in TrimsRight PROVE x + info.x.offset * h < (SA \div UA) * h
      BY <1>2, <1>3, <1>6, <1>10, <2>1, <2>2, WholeWindow
    <2> QED
      BY <1>10, <2>2
  <1>12. t \in TrimsBottom => yb < B
    <2>1. t \in TrimsBottom => info.y.offset * UD + info.y.size <= (SD \div UD) * UD
      BY CleanWhole
    <2>2. ASSUME t \in TrimsBottom PROVE y + info.y.offset * v < (SD \div UD) * v
      BY <1>2, <1>3, <1>6, <1>10, <2>1, <2>2, WholeWindow
    <2> QED
      BY <1>10, <2>2
  <1> DEFINE a == IF t \in TrimsRight THEN A - 1 - xa ELSE xa
             b == IF t \in TrimsBottom THEN B - 1 - yb ELSE yb
             eu == IF t \in TrimsRight THEN D - 1 - (X % D) ELSE X % D
             ev == IF t \in TrimsBottom THEN D - 1 - (Y % D) ELSE Y % D
             ra == IF t \in TrimsRight THEN A * D - 1 - XX ELSE XX
             rb == IF t \in TrimsBottom THEN B * D - 1 - YY ELSE YY
  <1> HIDE DEF t, n, m, xa, yb, how, SA, SD, UA, UD
  <1>13. /\ <<how.x, how.y>> = Place(t, a, b)
         /\ how.transposed = (t \in Transposing)
         /\ how.mx = (t \in TrimsRight) /\ how.my = (t \in TrimsBottom)
    <2>1. TurnedFrom(t, A, B, xa, yb, how)
      BY <1>9, <1>10, TurnPlace, Zenon
    <2>2. /\ (t \in TrimsRight /\ xa < A) = (t \in TrimsRight)
          /\ (t \in TrimsBottom /\ yb < B) = (t \in TrimsBottom)
      BY <1>11, <1>12
    <2> QED
      BY <2>1, <2>2, Zenon DEF TurnedFrom
  <1>14. a * D + eu = ra
    <2>1. xa = X \div D + n
      BY DEF xa, x
    <2>2. SampleAt(D, X, n, A, xa)
      BY <1>2, <1>5, <1>10, <2>1, SampleMoves
    <2>3. XX = X + n * D
      BY DEF n, h, D
    <2> QED
      BY <1>11, <2>2, <2>3 DEF SampleAt
  <1>15. b * D + ev = rb
    <2>1. yb = Y \div D + m
      BY DEF yb, y
    <2>2. SampleAt(D, Y, m, B, yb)
      BY <1>2, <1>5, <1>10, <2>1, SampleMoves
    <2>3. YY = Y + m * D
      BY DEF m, v, D
    <2> QED
      BY <1>12, <2>2, <2>3 DEF SampleAt
  <1>16. /\ (IF how.mx THEN D - 1 - (X % D) ELSE X % D) = eu
         /\ (IF how.my THEN D - 1 - (Y % D) ELSE Y % D) = ev
    BY <1>13, Zenon
  <1>17. Origin(i, X, Y) = IF how.transposed
                           THEN <<how.x * D + ev, how.y * D + eu>>
                           ELSE <<how.x * D + eu, how.y * D + ev>>
    BY <1>16, Zenon DEF Origin, how, p, x, y, D
  <1> HIDE DEF a, b, eu, ev, ra, rb
  <1>18. Origin(i, X, Y) = Place(t, ra, rb)
    <2>1. CASE t \in Transposing
      <3>1. how.x = b /\ how.y = a
        BY <1>13, <2>1 DEF Place
      <3>2. Origin(i, X, Y) = <<how.x * D + ev, how.y * D + eu>>
        BY <1>13, <1>17, <2>1, Zenon
      <3> QED
        BY <1>14, <1>15, <2>1, <3>1, <3>2, Zenon DEF Place
    <2>2. CASE t \notin Transposing
      <3>1. how.x = a /\ how.y = b
        BY <1>13, <2>2 DEF Place
      <3>2. Origin(i, X, Y) = <<how.x * D + eu, how.y * D + ev>>
        BY <1>13, <1>17, <2>2, Zenon
      <3> QED
        BY <1>14, <1>15, <2>2, <3>1, <3>2, Zenon DEF Place
    <2> QED
      BY <2>1, <2>2
  <1> QED
    BY <1>18 DEF t, ra, rb, D

\* A perfect or trimmed transformation moves every sample of every component to
\* where the geometry has it (transupp.c:945-967, 1640-1656).
THEOREM TransformMovesSamples == Spec => []MovesSamples
  <1> SUFFICES ASSUME TransformInv PROVE MovesSamples
    BY TransformInvariant, PTL
  <1> SUFFICES ASSUME phase = "done", Clean, job.transform \in Turns, NEW i \in DOMAIN blocks,
                      NEW X \in Span(SamplesAcross(i)), NEW Y \in Span(SamplesDown(i))
               PROVE  Origin(i, X, Y) =
                          Moved(job.transform, WholeWidth(i), WholeHeight(i),
                                X + info.x.offset * dest.comps[i].h * DCTSIZE,
                                Y + info.y.offset * dest.comps[i].v * DCTSIZE)
    BY Zenon DEF MovesSamples, Done
  <1> DEFINE t == job.transform
             W == WholeWidth(i)
             H == WholeHeight(i)
             XX == X + info.x.offset * dest.comps[i].h * DCTSIZE
             YY == Y + info.y.offset * dest.comps[i].v * DCTSIZE
             A == WholeAcross(source, job, dest.comps[i].h)
             B == WholeDown(source, job, dest.comps[i].v)
             P == A * DCTSIZE
             Q == B * DCTSIZE
  <1>1. i \in DOMAIN dest.comps
    BY InvFits DEF Execute
  <1>2. IF t \in Transposing THEN H = P /\ W = Q ELSE W = P /\ H = Q
    BY <1>1, WholeAre
  <1>3. Origin(i, X, Y) = Place(t, IF t \in TrimsRight THEN P - 1 - XX ELSE XX,
                                IF t \in TrimsBottom THEN Q - 1 - YY ELSE YY)
    BY <1>1, OriginIs
  <1>4. t \in Turns
    OBVIOUS
  <1> HIDE DEF t, W, H, XX, YY, P, Q
  <1>5. Origin(i, X, Y) = Moved(t, W, H, XX, YY)
    <2> USE <1>2, <1>3 DEF Place, Moved, TrimsRight, TrimsBottom, Transposing
    <2>1. CASE t = "flip_h"
      BY <2>1
    <2>2. CASE t = "flip_v"
      BY <2>2
    <2>3. CASE t = "transpose"
      BY <2>3
    <2>4. CASE t = "transverse"
      BY <2>4
    <2>5. CASE t = "rot_90"
      BY <2>5
    <2>6. CASE t = "rot_180"
      BY <2>6
    <2>7. CASE t = "rot_270"
      BY <2>7
    <2> QED
      BY <1>4, <2>1, <2>2, <2>3, <2>4, <2>5, <2>6, <2>7 DEF Turns
  <1> QED
    BY <1>5 DEF t, W, H, XX, YY

----------------------------------------------------------------------------
\* Whole images, turned one way after another.

LEMMA WholeJob ==
    ASSUME job \in Options, NEW t \in Turns \cup {"none"}, NEW j, j = Whole(t)
    PROVE  /\ j \in Options /\ j.transform = t
           /\ j.crop = FALSE /\ j.trim = FALSE /\ j.force_grayscale = FALSE
  <1>1. /\ job.transform \in Turns \cup {"none", "wipe"}
        /\ job.x \in CropSpecs /\ job.y \in CropSpecs
        /\ job = [transform |-> job.transform, trim |-> job.trim, perfect |-> job.perfect,
                  force_grayscale |-> job.force_grayscale, crop |-> job.crop,
                  x |-> job.x, y |-> job.y]
    BY DEF Options
  <1>2. j = [transform |-> t, trim |-> FALSE, perfect |-> FALSE,
             force_grayscale |-> FALSE, crop |-> FALSE, x |-> job.x, y |-> job.y]
    BY <1>1 DEF Whole
  <1> QED
    BY <1>1, <1>2 DEF Options

One == <<[h |-> 1, v |-> 1]>>

TurnedImage(image, t) ==
    [width |-> IF t \in Transposing THEN image.height ELSE image.width,
     height |-> IF t \in Transposing THEN image.width ELSE image.height,
     ycc |-> image.ycc /\ Len(image.comps) # 1,
     comps |-> IF Len(image.comps) = 1 THEN One
               ELSE IF t \in Transposing THEN Turned90(image.comps) ELSE image.comps]

LEMMA WholeImage ==
    ASSUME job \in Options, NEW t \in Turns \cup {"none"}, NEW j, j = Whole(t),
           NEW image \in Images, NEW r, r = Request(image, j)
    PROVE  /\ Fits(image, j) /\ j.transform = t
           /\ Adjust(image, j, r) = TurnedImage(image, t)
           /\ r.x.offset = 0 /\ r.x.size = Across(image, j)
           /\ r.y.offset = 0 /\ r.y.size = Down(image, j)
  <1>1. /\ j \in Options /\ j.transform = t
        /\ j.crop = FALSE /\ j.trim = FALSE /\ j.force_grayscale = FALSE
    BY WholeJob
  <1>2. t # "wipe"
    BY DEF Turns
  <1>3. Fits(image, j)
    BY <1>1, <1>2 DEF Fits, CropRefused, CannotConvert
  <1>4. /\ r.x.offset = 0 /\ r.x.size = Across(image, j)
        /\ r.y.offset = 0 /\ r.y.size = Down(image, j)
    BY <1>1, <1>3, RequestFits DEF AxisFits
  <1>5. r.num_components = Len(image.comps)
    BY <1>1, <1>3, RequestFits DEF NumComponents
  <1>6. Adjust(image, j, r) = TurnedImage(image, t)
    <2> DEFINE out == Adjust(image, j, r)
    <2>1. /\ out.width = r.x.size /\ out.height = r.y.size
          /\ out.ycc = (image.ycc /\ r.num_components # 1)
          /\ out = [width |-> out.width, height |-> out.height, ycc |-> out.ycc,
                    comps |-> out.comps]
      BY DEF Adjust
    <2>2. out.comps = IF Len(image.comps) = 1 THEN One
                      ELSE IF t \in Transposing THEN Turned90(image.comps)
                      ELSE image.comps
      <3>1. /\ r.num_components = 1 => out.comps = One
            /\ r.num_components # 1 =>
                  out.comps = IF j.transform \in Transposing THEN Turned90(image.comps)
                              ELSE image.comps
        BY <1>3, OutImage DEF One
      <3> HIDE DEF out
      <3> QED
        BY <1>1, <1>5, <3>1
    <2> HIDE DEF out
    <2>3. /\ out.width = IF t \in Transposing THEN image.height ELSE image.width
          /\ out.height = IF t \in Transposing THEN image.width ELSE image.height
      BY <1>1, <1>4, <2>1 DEF Across, Down
    <2>4. out.ycc = (image.ycc /\ Len(image.comps) # 1)
      BY <1>5, <2>1, Zenon
    <2>5. out = TurnedImage(image, t)
      BY <2>1, <2>2, <2>3, <2>4, Zenon DEF TurnedImage
    <2> QED
      BY <2>5 DEF out
  <1> QED
    BY <1>1, <1>3, <1>4, <1>6

\* The blocks of the whole iMCUs of an image.
BlocksAcross(image, i) == (image.width \div (MaxH(image.comps) * DCTSIZE)) * image.comps[i].h
BlocksDown(image, i) == (image.height \div (MaxV(image.comps) * DCTSIZE)) * image.comps[i].v

\* Turning a turned image.
LEMMA TurnedOne ==
    /\ One \in Seq(Factors) \ {<<>>} /\ Len(One) = 1 /\ DOMAIN One = {1}
    /\ One[1].h = 1 /\ One[1].v = 1 /\ Turned90(One) = One
  <1>1. [h |-> 1, v |-> 1] \in Factors
    BY DEF Factors
  <1>2. /\ One \in Seq(Factors) \ {<<>>} /\ Len(One) = 1 /\ DOMAIN One = 1..1
        /\ One[1] = [h |-> 1, v |-> 1]
    BY <1>1 DEF One
  <1>3. Turned90(One) = One
    <2>1. One = [i \in 1..1 |-> One[i]]
      BY DEF One
    <2>2. \A i \in 1..1 : Transposed(One[i]) = One[i]
      BY <1>2 DEF Transposed
    <2>3. Turned90(One) = [i \in 1..1 |-> Transposed(One[i])]
      BY <1>2 DEF Turned90
    <2>4. [i \in 1..1 |-> Transposed(One[i])] = [i \in 1..1 |-> One[i]]
      BY <2>2
    <2> QED
      BY <2>1, <2>3, <2>4
  <1> QED
    BY <1>2, <1>3

LEMMA TurnedImageIs ==
    ASSUME NEW image \in Images, NEW t, NEW out, out = TurnedImage(image, t)
    PROVE  /\ out \in Images
           /\ out.width = IF t \in Transposing THEN image.height ELSE image.width
           /\ out.height = IF t \in Transposing THEN image.width ELSE image.height
           /\ out.ycc = (image.ycc /\ Len(image.comps) # 1)
           /\ out.comps = IF Len(image.comps) = 1 THEN One
                          ELSE IF t \in Transposing THEN Turned90(image.comps)
                          ELSE image.comps
           /\ out.comps \in Seq(Factors) \ {<<>>} /\ Len(out.comps) = Len(image.comps)
  <1>1. /\ image.width \in Nat \ {0} /\ image.height \in Nat \ {0} /\ image.ycc \in BOOLEAN
        /\ image.comps \in Seq(Factors) \ {<<>>}
    BY DEF Images
  <1>2. /\ out.width = IF t \in Transposing THEN image.height ELSE image.width
        /\ out.height = IF t \in Transposing THEN image.width ELSE image.height
        /\ out.ycc = (image.ycc /\ Len(image.comps) # 1)
        /\ out.comps = IF Len(image.comps) = 1 THEN One
                       ELSE IF t \in Transposing THEN Turned90(image.comps)
                       ELSE image.comps
        /\ out = [width |-> out.width, height |-> out.height, ycc |-> out.ycc,
                  comps |-> out.comps]
    BY DEF TurnedImage
  <1>3. out.comps \in Seq(Factors) \ {<<>>} /\ Len(out.comps) = Len(image.comps)
    BY <1>1, <1>2, TurnedComps, TurnedOne
  <1>4. out \in Images
    BY <1>1, <1>2, <1>3 DEF Images
  <1> QED
    BY <1>2, <1>3, <1>4

\* One turn after another is one turn: of the axes, and of the mirrors in the
\* order in which the second finds them.
Composes(t1, t2, t3) ==
    /\ t3 \in Transposing <=> ~(t1 \in Transposing <=> t2 \in Transposing)
    /\ t3 \in TrimsRight <=>
          ~(t2 \in TrimsRight
               <=> (IF t2 \in Transposing THEN t1 \in TrimsBottom ELSE t1 \in TrimsRight))
    /\ t3 \in TrimsBottom <=>
          ~(t2 \in TrimsBottom
               <=> (IF t2 \in Transposing THEN t1 \in TrimsRight ELSE t1 \in TrimsBottom))

LEMMA Compositions ==
    /\ \A t \in Turns : Composes(t, Undoing[t], "none") /\ Undoing[t] \in Turns
    /\ \A t \in Turns \cup {"none"} : Composes("none", t, t)
    /\ Composes("transpose", "flip_h", "rot_90")
    /\ Composes("flip_v", "flip_h", "rot_180")
    /\ Composes("flip_h", "transpose", "rot_270")
    /\ Composes("rot_270", "flip_h", "transverse")
  <1>1. /\ "none" \notin TrimsRight /\ "none" \notin TrimsBottom /\ "none" \notin Transposing
        /\ "flip_h" \in TrimsRight /\ "flip_h" \notin TrimsBottom
        /\ "flip_h" \notin Transposing
        /\ "flip_v" \notin TrimsRight /\ "flip_v" \in TrimsBottom
        /\ "flip_v" \notin Transposing
        /\ "transpose" \notin TrimsRight /\ "transpose" \notin TrimsBottom
        /\ "transpose" \in Transposing
        /\ "transverse" \in TrimsRight /\ "transverse" \in TrimsBottom
        /\ "transverse" \in Transposing
        /\ "rot_90" \in TrimsRight /\ "rot_90" \notin TrimsBottom /\ "rot_90" \in Transposing
        /\ "rot_180" \in TrimsRight /\ "rot_180" \in TrimsBottom
        /\ "rot_180" \notin Transposing
        /\ "rot_270" \notin TrimsRight /\ "rot_270" \in TrimsBottom
        /\ "rot_270" \in Transposing
    BY DEF TrimsRight, TrimsBottom, Transposing
  <1>2. ASSUME NEW t \in Turns
        PROVE  Composes(t, Undoing[t], "none") /\ Undoing[t] \in Turns
    <2>1. Undoing[t] = CASE t = "rot_90" -> "rot_270"
                         [] t = "rot_270" -> "rot_90"
                         [] OTHER -> t
      BY DEF Undoing
    <2>2. CASE t = "rot_90"
      <3>1. Undoing[t] = "rot_270"
        BY <2>1, <2>2
      <3> QED
        BY <1>1, <2>2, <3>1 DEF Composes, Turns
    <2>3. CASE t = "rot_270"
      <3>1. Undoing[t] = "rot_90"
        BY <2>1, <2>3
      <3> QED
        BY <1>1, <2>3, <3>1 DEF Composes, Turns
    <2>4. CASE t \notin {"rot_90", "rot_270"}
      <3>1. Undoing[t] = t
        BY <2>1, <2>4
      <3>2. t \in {"flip_h", "flip_v", "transpose", "transverse", "rot_180"}
        BY <2>4 DEF Turns
      <3> QED
        BY <1>1, <3>1, <3>2 DEF Composes, Turns
    <2> QED
      BY <2>2, <2>3, <2>4
  <1>3. \A t \in Turns \cup {"none"} : Composes("none", t, t)
    BY <1>1 DEF Composes
  <1>4. /\ Composes("transpose", "flip_h", "rot_90")
        /\ Composes("flip_v", "flip_h", "rot_180")
        /\ Composes("flip_h", "transpose", "rot_270")
        /\ Composes("rot_270", "flip_h", "transverse")
    BY <1>1 DEF Composes
  <1> QED
    BY <1>2, <1>3, <1>4

\* The image that two turns make is the one that the third makes.
LEMMA ImagesCompose ==
    ASSUME NEW image \in Images, NEW t1, NEW t2, NEW t3, Composes(t1, t2, t3)
    PROVE  TurnedImage(TurnedImage(image, t1), t2) = TurnedImage(image, t3)
  <1> DEFINE one == TurnedImage(image, t1)
  <1>1. /\ one.width = IF t1 \in Transposing THEN image.height ELSE image.width
        /\ one.height = IF t1 \in Transposing THEN image.width ELSE image.height
        /\ one.ycc = (image.ycc /\ Len(image.comps) # 1)
        /\ one.comps = IF Len(image.comps) = 1 THEN One
                       ELSE IF t1 \in Transposing THEN Turned90(image.comps)
                       ELSE image.comps
        /\ Len(one.comps) = Len(image.comps)
    BY TurnedImageIs
  <1>2. Turned90(Turned90(image.comps)) = image.comps
    BY TurnedComps DEF Images
  <1>3. t3 \in Transposing <=> ~(t1 \in Transposing <=> t2 \in Transposing)
    BY DEF Composes
  <1> HIDE DEF one
  <1>4. /\ (IF t2 \in Transposing THEN one.height ELSE one.width)
              = (IF t3 \in Transposing THEN image.height ELSE image.width)
        /\ (IF t2 \in Transposing THEN one.width ELSE one.height)
              = (IF t3 \in Transposing THEN image.width ELSE image.height)
    BY <1>1, <1>3
  <1>5. (one.ycc /\ Len(one.comps) # 1) = (image.ycc /\ Len(image.comps) # 1)
    <2>1. Len(one.comps) = Len(image.comps)
      BY <1>1
    <2>2. one.ycc = (image.ycc /\ Len(image.comps) # 1)
      BY <1>1
    <2> QED
      BY ONLY <2>1, <2>2
  <1>6. (IF Len(one.comps) = 1 THEN One
         ELSE IF t2 \in Transposing THEN Turned90(one.comps) ELSE one.comps)
        = (IF Len(image.comps) = 1 THEN One
           ELSE IF t3 \in Transposing THEN Turned90(image.comps) ELSE image.comps)
    BY <1>1, <1>2, <1>3
  <1>7. TurnedImage(one, t2) = TurnedImage(image, t3)
    BY <1>4, <1>5, <1>6, Zenon DEF TurnedImage
  <1> QED
    BY <1>7 DEF one

LEMMA SizesTurn ==
    ASSUME NEW image \in Images, Len(image.comps) = 1 => image.comps = One, NEW t,
           NEW out, out = TurnedImage(image, t), NEW i \in DOMAIN out.comps
    PROVE  /\ i \in DOMAIN image.comps
           /\ IF t \in Transposing
              THEN BlocksAcross(out, i) = BlocksDown(image, i)
                   /\ BlocksDown(out, i) = BlocksAcross(image, i)
              ELSE BlocksAcross(out, i) = BlocksAcross(image, i)
                   /\ BlocksDown(out, i) = BlocksDown(image, i)
  <1>1. /\ out.width = IF t \in Transposing THEN image.height ELSE image.width
        /\ out.height = IF t \in Transposing THEN image.width ELSE image.height
        /\ out.comps = IF Len(image.comps) = 1 THEN One
                       ELSE IF t \in Transposing THEN Turned90(image.comps)
                       ELSE image.comps
    BY TurnedImageIs
  <1>2. image.comps \in Seq(Factors) \ {<<>>}
    BY DEF Images
  <1>3. out.comps = IF t \in Transposing THEN Turned90(image.comps) ELSE image.comps
    BY <1>1, TurnedOne
  <1>4. i \in DOMAIN image.comps
    BY <1>2, <1>3, TurnedComps
  <1>5. CASE t \in Transposing
    <2>1. /\ MaxH(out.comps) = MaxV(image.comps) /\ MaxV(out.comps) = MaxH(image.comps)
          /\ out.comps[i].h = image.comps[i].v /\ out.comps[i].v = image.comps[i].h
      BY <1>2, <1>3, <1>4, <1>5, TurnedComps
    <2> QED
      BY <1>1, <1>4, <1>5, <2>1, Zenon DEF BlocksAcross, BlocksDown
  <1>6. CASE t \notin Transposing
    <2>1. out.comps = image.comps
      BY <1>3, <1>6
    <2> QED
      BY <1>1, <1>4, <1>6, <2>1, Zenon DEF BlocksAcross, BlocksDown
  <1> QED
    BY <1>5, <1>6

\* A place on an axis of which A blocks are mirrored, if any are.
Mirror(m, A, X) == IF m /\ X < A THEN A - 1 - X ELSE X

MirrorsMeet(m1, m2, m3, A, X, Z) ==
    /\ Mirror(m1, A, Z) = Mirror(m3, A, X)
    /\ ~((m1 /\ Z < A) <=> (m2 /\ X < A)) <=> (m3 /\ X < A)

LEMMA MirrorTwice ==
    ASSUME NEW A \in Nat, NEW X \in Nat, NEW m1 \in BOOLEAN, NEW m2 \in BOOLEAN,
           NEW m3 \in BOOLEAN, m3 <=> ~(m1 <=> m2), NEW Z, Z = Mirror(m2, A, X)
    PROVE  MirrorsMeet(m1, m2, m3, A, X, Z)
  <1>1. CASE X < A
    BY <1>1 DEF Mirror, MirrorsMeet
  <1>2. CASE ~(X < A)
    BY <1>2 DEF Mirror, MirrorsMeet
  <1> QED
    BY <1>1, <1>2

\* The block that Turn gives, said with mirrors.
TurnParts(t, A, B, X, Y, how) ==
    /\ how \in Blocks
    /\ how.x = IF t \in Transposing THEN Mirror(t \in TrimsBottom, B, Y)
               ELSE Mirror(t \in TrimsRight, A, X)
    /\ how.y = IF t \in Transposing THEN Mirror(t \in TrimsRight, A, X)
               ELSE Mirror(t \in TrimsBottom, B, Y)
    /\ how.transposed <=> t \in Transposing
    /\ how.mx <=> t \in TrimsRight /\ X < A
    /\ how.my <=> t \in TrimsBottom /\ Y < B

LEMMA TurnIs ==
    ASSUME NEW t, NEW A \in Nat, NEW B \in Nat, NEW X \in Nat, NEW Y \in Nat,
           NEW how, how = Turn(t, A, B, X, Y)
    PROVE  TurnParts(t, A, B, X, Y, how)
  <1>1. TurnedFrom(t, A, B, X, Y, how)
    BY TurnPlace, Zenon
  <1> DEFINE a == Mirror(t \in TrimsRight, A, X)
             b == Mirror(t \in TrimsBottom, B, Y)
  <1>2. /\ how \in Blocks /\ <<how.x, how.y>> = Place(t, a, b)
        /\ how.transposed = (t \in Transposing)
        /\ how.mx = (t \in TrimsRight /\ X < A)
        /\ how.my = (t \in TrimsBottom /\ Y < B)
    BY <1>1, Zenon DEF TurnedFrom, Mirror
  <1> HIDE DEF a, b
  <1>3. /\ how.x = IF t \in Transposing THEN b ELSE a
        /\ how.y = IF t \in Transposing THEN a ELSE b
    BY <1>2 DEF Place
  <1>4. /\ how.transposed <=> t \in Transposing
        /\ how.mx <=> t \in TrimsRight /\ X < A
        /\ how.my <=> t \in TrimsBottom /\ Y < B
    BY <1>2
  <1> QED
    BY <1>2, <1>3, <1>4, Zenon DEF a, b, TurnParts

\* Blocks are equal if their parts are.
LEMMA SameBlock ==
    ASSUME NEW b \in Blocks, NEW c \in Blocks, b.x = c.x, b.y = c.y,
           b.transposed <=> c.transposed, b.mx <=> c.mx, b.my <=> c.my
    PROVE  b = c
  <1>1. /\ b.transposed \in BOOLEAN /\ b.mx \in BOOLEAN /\ b.my \in BOOLEAN
        /\ c.transposed \in BOOLEAN /\ c.mx \in BOOLEAN /\ c.my \in BOOLEAN
        /\ b = [x |-> b.x, y |-> b.y, transposed |-> b.transposed, mx |-> b.mx, my |-> b.my]
        /\ c = [x |-> c.x, y |-> c.y, transposed |-> c.transposed, mx |-> c.mx, my |-> c.my]
    BY DEF Blocks
  <1>2. b.transposed = c.transposed /\ b.mx = c.mx /\ b.my = c.my
    BY <1>1
  <1> QED
    BY <1>1, <1>2, Zenon

LEMMA TurnedIs ==
    ASSUME NEW b \in Blocks, NEW how \in Blocks, NEW c, c = Turned(b, how)
    PROVE  /\ c \in Blocks /\ c.x = b.x /\ c.y = b.y
           /\ c.transposed <=> ~(b.transposed <=> how.transposed)
           /\ c.mx <=> ~((IF how.transposed THEN b.my ELSE b.mx) <=> how.mx)
           /\ c.my <=> ~((IF how.transposed THEN b.mx ELSE b.my) <=> how.my)
  <1>1. /\ b.x \in Nat /\ b.y \in Nat /\ b.transposed \in BOOLEAN
        /\ b.mx \in BOOLEAN /\ b.my \in BOOLEAN
        /\ how.transposed \in BOOLEAN /\ how.mx \in BOOLEAN /\ how.my \in BOOLEAN
    BY DEF Blocks
  <1>2. /\ c \in Blocks
        /\ c = IF how.transposed
               THEN Block(b.x, b.y, ~b.transposed, b.my # how.mx, b.mx # how.my)
               ELSE Block(b.x, b.y, b.transposed, b.mx # how.mx, b.my # how.my)
    BY TurnedBlock, Zenon
  <1>3. CASE how.transposed
    <2>1. c = Block(b.x, b.y, ~b.transposed, b.my # how.mx, b.mx # how.my)
      BY <1>2, <1>3, Zenon
    <2> DEFINE n == ~b.transposed
               nx == b.my # how.mx
               ny == b.mx # how.my
    <2>2. /\ n <=> ~b.transposed
          /\ nx <=> (b.my # how.mx)
          /\ ny <=> (b.mx # how.my)
      OBVIOUS
    <2>3. c = Block(b.x, b.y, n, nx, ny) /\ n \in BOOLEAN /\ nx \in BOOLEAN /\ ny \in BOOLEAN
      BY <1>1, <2>1
    <2> HIDE DEF n, nx, ny
    <2>4. /\ c.x = b.x /\ c.y = b.y /\ c.transposed = n /\ c.mx = nx /\ c.my = ny
      BY <2>3 DEF Block
    <2>5. /\ c.transposed <=> ~b.transposed
          /\ c.mx <=> (b.my # how.mx)
          /\ c.my <=> (b.mx # how.my)
      BY <2>2, <2>4, Zenon
    <2> QED
      BY <1>1, <1>2, <1>3, <2>4, <2>5
  <1>4. CASE ~how.transposed
    <2>1. c = Block(b.x, b.y, b.transposed, b.mx # how.mx, b.my # how.my)
      BY <1>2, <1>4, Zenon
    <2> DEFINE n == b.transposed
               nx == b.mx # how.mx
               ny == b.my # how.my
    <2>2. /\ n <=> b.transposed
          /\ nx <=> (b.mx # how.mx)
          /\ ny <=> (b.my # how.my)
      OBVIOUS
    <2>3. c = Block(b.x, b.y, n, nx, ny) /\ n \in BOOLEAN /\ nx \in BOOLEAN /\ ny \in BOOLEAN
      BY <1>1, <2>1
    <2> HIDE DEF n, nx, ny
    <2>4. /\ c.x = b.x /\ c.y = b.y /\ c.transposed = n /\ c.mx = nx /\ c.my = ny
      BY <2>3 DEF Block
    <2>5. /\ c.transposed <=> b.transposed
          /\ c.mx <=> (b.mx # how.mx)
          /\ c.my <=> (b.my # how.my)
      BY <2>2, <2>4, Zenon
    <2> QED
      BY <1>1, <1>2, <1>4, <2>4, <2>5
  <1> QED
    BY <1>3, <1>4

\* A block turned as t2 does, that t1 has put where t2 finds it.
TurnMet(t1, t2, t3, A, B, X, Y, A1, B1, how) ==
    Turned(Turn(t1, A1, B1, how.x, how.y), how) = Turn(t3, A, B, X, Y)

\* Two turns, one after the other, take a block from where their composition does.
LEMMA TurnsMeet ==
    ASSUME NEW t1, NEW t2, NEW t3, Composes(t1, t2, t3),
           NEW A \in Nat, NEW B \in Nat, NEW X \in Nat, NEW Y \in Nat,
           NEW A1, A1 = IF t2 \in Transposing THEN B ELSE A,
           NEW B1, B1 = IF t2 \in Transposing THEN A ELSE B,
           NEW how, how = Turn(t2, A, B, X, Y)
    PROVE  TurnMet(t1, t2, t3, A, B, X, Y, A1, B1, how)
  <1> DEFINE a == Mirror(t2 \in TrimsRight, A, X)
             b == Mirror(t2 \in TrimsBottom, B, Y)
             one == Turn(t1, A1, B1, how.x, how.y)
             c == Turned(one, how)
             d == Turn(t3, A, B, X, Y)
             a3 == Mirror(t3 \in TrimsRight, A, X)
             b3 == Mirror(t3 \in TrimsBottom, B, Y)
  <1>1. /\ how \in Blocks
        /\ how.x = IF t2 \in Transposing THEN b ELSE a
        /\ how.y = IF t2 \in Transposing THEN a ELSE b
        /\ how.transposed <=> t2 \in Transposing
        /\ how.mx <=> t2 \in TrimsRight /\ X < A
        /\ how.my <=> t2 \in TrimsBottom /\ Y < B
    <2>1. TurnParts(t2, A, B, X, Y, how)
      BY TurnIs, Zenon
    <2> QED
      BY <2>1, Zenon DEF TurnParts
  <1>2. a \in Nat /\ b \in Nat
    BY DEF Mirror
  <1>3. /\ one \in Blocks
        /\ one.x = IF t1 \in Transposing THEN Mirror(t1 \in TrimsBottom, B1, how.y)
                   ELSE Mirror(t1 \in TrimsRight, A1, how.x)
        /\ one.y = IF t1 \in Transposing THEN Mirror(t1 \in TrimsRight, A1, how.x)
                   ELSE Mirror(t1 \in TrimsBottom, B1, how.y)
        /\ one.transposed <=> t1 \in Transposing
        /\ one.mx <=> t1 \in TrimsRight /\ how.x < A1
        /\ one.my <=> t1 \in TrimsBottom /\ how.y < B1
    <2>1. A1 \in Nat /\ B1 \in Nat /\ how.x \in Nat /\ how.y \in Nat
      BY <1>1, <1>2
    <2>2. TurnParts(t1, A1, B1, how.x, how.y, one)
      BY <2>1, TurnIs, Zenon
    <2> HIDE DEF one
    <2> QED
      BY <2>2, Zenon DEF TurnParts
  <1>4. /\ c \in Blocks /\ c.x = one.x /\ c.y = one.y
        /\ c.transposed <=> ~(one.transposed <=> how.transposed)
        /\ c.mx <=> ~((IF how.transposed THEN one.my ELSE one.mx) <=> how.mx)
        /\ c.my <=> ~((IF how.transposed THEN one.mx ELSE one.my) <=> how.my)
    BY <1>1, <1>3, TurnedIs
  <1>5. /\ d \in Blocks
        /\ d.x = IF t3 \in Transposing THEN b3 ELSE a3
        /\ d.y = IF t3 \in Transposing THEN a3 ELSE b3
        /\ d.transposed <=> t3 \in Transposing
        /\ d.mx <=> t3 \in TrimsRight /\ X < A
        /\ d.my <=> t3 \in TrimsBottom /\ Y < B
    <2>1. TurnParts(t3, A, B, X, Y, d)
      BY TurnIs, Zenon
    <2> HIDE DEF d
    <2> QED
      BY <2>1, Zenon DEF TurnParts
  <1>6. t3 \in Transposing <=> ~(t1 \in Transposing <=> t2 \in Transposing)
    BY DEF Composes
  <1>7. CASE t2 \in Transposing
    <2>1. /\ t3 \in TrimsRight <=> ~(t1 \in TrimsBottom <=> t2 \in TrimsRight)
          /\ t3 \in TrimsBottom <=> ~(t1 \in TrimsRight <=> t2 \in TrimsBottom)
      BY <1>7 DEF Composes
    <2>2. /\ Mirror(t1 \in TrimsBottom, A, a) = a3
          /\ ~((t1 \in TrimsBottom /\ a < A) <=> (t2 \in TrimsRight /\ X < A))
                <=> (t3 \in TrimsRight /\ X < A)
      <3> DEFINE m1 == t1 \in TrimsBottom
                 m2 == t2 \in TrimsRight
                 m3 == t3 \in TrimsRight
      <3>1. /\ m1 \in BOOLEAN /\ m2 \in BOOLEAN /\ m3 \in BOOLEAN
            /\ m3 <=> ~(m1 <=> m2)
            /\ a = Mirror(m2, A, X)
        BY <2>1
      <3> HIDE DEF m1, m2, m3, a, b, a3, b3
      <3>2. MirrorsMeet(m1, m2, m3, A, X, a)
        BY <3>1, MirrorTwice, Zenon
      <3> QED
        BY <3>2, Zenon DEF MirrorsMeet, a3, b3, m1, m2, m3
    <2>3. /\ Mirror(t1 \in TrimsRight, B, b) = b3
          /\ ~((t1 \in TrimsRight /\ b < B) <=> (t2 \in TrimsBottom /\ Y < B))
                <=> (t3 \in TrimsBottom /\ Y < B)
      <3> DEFINE m1 == t1 \in TrimsRight
                 m2 == t2 \in TrimsBottom
                 m3 == t3 \in TrimsBottom
      <3>1. /\ m1 \in BOOLEAN /\ m2 \in BOOLEAN /\ m3 \in BOOLEAN
            /\ m3 <=> ~(m1 <=> m2)
            /\ b = Mirror(m2, B, Y)
        BY <2>1
      <3> HIDE DEF m1, m2, m3, a, b, a3, b3
      <3>2. MirrorsMeet(m1, m2, m3, B, Y, b)
        BY <3>1, MirrorTwice, Zenon
      <3> QED
        BY <3>2, Zenon DEF MirrorsMeet, a3, b3, m1, m2, m3
    <2>4. A1 = B /\ B1 = A /\ how.x = b /\ how.y = a
      BY <1>1, <1>7
    <2> HIDE DEF a, b, one, c, d, a3, b3
    <2>5. c.x = d.x /\ c.y = d.y
      BY <1>3, <1>4, <1>5, <1>6, <1>7, <2>2, <2>3, <2>4, Zenon
    <2>6. c.transposed <=> d.transposed
      BY <1>1, <1>3, <1>4, <1>5, <1>6, <1>7, Zenon
    <2>7. c.mx <=> d.mx
      BY <1>1, <1>3, <1>4, <1>5, <1>7, <2>2, <2>4, Zenon
    <2>8. c.my <=> d.my
      BY <1>1, <1>3, <1>4, <1>5, <1>7, <2>3, <2>4, Zenon
    <2>9. c = d
      BY <1>4, <1>5, <2>5, <2>6, <2>7, <2>8, SameBlock
    <2> QED
      BY <2>9, Zenon DEF TurnMet, c, d, one
  <1>8. CASE t2 \notin Transposing
    <2>1. /\ t3 \in TrimsRight <=> ~(t1 \in TrimsRight <=> t2 \in TrimsRight)
          /\ t3 \in TrimsBottom <=> ~(t1 \in TrimsBottom <=> t2 \in TrimsBottom)
      BY <1>8 DEF Composes
    <2>2. /\ Mirror(t1 \in TrimsRight, A, a) = a3
          /\ ~((t1 \in TrimsRight /\ a < A) <=> (t2 \in TrimsRight /\ X < A))
                <=> (t3 \in TrimsRight /\ X < A)
      <3> DEFINE m1 == t1 \in TrimsRight
                 m2 == t2 \in TrimsRight
                 m3 == t3 \in TrimsRight
      <3>1. /\ m1 \in BOOLEAN /\ m2 \in BOOLEAN /\ m3 \in BOOLEAN
            /\ m3 <=> ~(m1 <=> m2)
            /\ a = Mirror(m2, A, X)
        BY <2>1
      <3> HIDE DEF m1, m2, m3, a, b, a3, b3
      <3>2. MirrorsMeet(m1, m2, m3, A, X, a)
        BY <3>1, MirrorTwice, Zenon
      <3> QED
        BY <3>2, Zenon DEF MirrorsMeet, a3, b3, m1, m2, m3
    <2>3. /\ Mirror(t1 \in TrimsBottom, B, b) = b3
          /\ ~((t1 \in TrimsBottom /\ b < B) <=> (t2 \in TrimsBottom /\ Y < B))
                <=> (t3 \in TrimsBottom /\ Y < B)
      <3> DEFINE m1 == t1 \in TrimsBottom
                 m2 == t2 \in TrimsBottom
                 m3 == t3 \in TrimsBottom
      <3>1. /\ m1 \in BOOLEAN /\ m2 \in BOOLEAN /\ m3 \in BOOLEAN
            /\ m3 <=> ~(m1 <=> m2)
            /\ b = Mirror(m2, B, Y)
        BY <2>1
      <3> HIDE DEF m1, m2, m3, a, b, a3, b3
      <3>2. MirrorsMeet(m1, m2, m3, B, Y, b)
        BY <3>1, MirrorTwice, Zenon
      <3> QED
        BY <3>2, Zenon DEF MirrorsMeet, a3, b3, m1, m2, m3
    <2>4. A1 = A /\ B1 = B /\ how.x = a /\ how.y = b
      BY <1>1, <1>8
    <2> HIDE DEF a, b, one, c, d, a3, b3
    <2>5. c.x = d.x /\ c.y = d.y
      BY <1>3, <1>4, <1>5, <1>6, <1>8, <2>2, <2>3, <2>4, Zenon
    <2>6. c.transposed <=> d.transposed
      BY <1>1, <1>3, <1>4, <1>5, <1>6, <1>8, Zenon
    <2>7. c.mx <=> d.mx
      BY <1>1, <1>3, <1>4, <1>5, <1>8, <2>2, <2>4, Zenon
    <2>8. c.my <=> d.my
      BY <1>1, <1>3, <1>4, <1>5, <1>8, <2>3, <2>4, Zenon
    <2>9. c = d
      BY <1>4, <1>5, <2>5, <2>6, <2>7, <2>8, SameBlock
    <2> QED
      BY <2>9, Zenon DEF TurnMet, c, d, one
  <1> QED
    BY <1>7, <1>8

\* The file that a turn of a whole image makes.
TurnBlocks(image, t) ==
    LET out == TurnedImage(image, t) IN
    [i \in DOMAIN out.comps |->
        [p \in Array(out, i) |->
            IF p \in Visible(out, i)
            THEN Turn(t, BlocksAcross(out, i), BlocksDown(out, i), p[1], p[2])
            ELSE Dummy]]

TurnFile(image, t) == [image |-> TurnedImage(image, t), blocks |-> TurnBlocks(image, t)]

Applied(image, old, out, i, p, block, how) ==
    /\ how \in Blocks
    /\ i \in DOMAIN image.comps /\ <<how.x, how.y>> \in Visible(image, i)
    /\ block = Turned(old[i][<<how.x, how.y>>], how)

\* The file new has the image out, whose blocks a turn takes from the blocks old.
AppliedAll(image, old, t, out, new) ==
    /\ new.image = out
    /\ new = [image |-> new.image, blocks |-> new.blocks]
    /\ new.blocks = [i \in DOMAIN out.comps |-> [p \in Array(out, i) |-> new.blocks[i][p]]]
    /\ \A i \in DOMAIN out.comps : \A p \in Array(out, i) :
          IF p \in Visible(out, i)
          THEN Applied(image, old, out, i, p, new.blocks[i][p],
                       Turn(t, BlocksAcross(out, i), BlocksDown(out, i), p[1], p[2]))
          ELSE new.blocks[i][p] = Dummy

\* What Apply makes of a file: each block that is seen is taken from one that is.
LEMMA ApplyIs ==
    ASSUME job \in Options, NEW image \in Images, NEW old, NEW t \in Turns \cup {"none"},
           NEW out, out = TurnedImage(image, t),
           NEW f, f = [image |-> image, blocks |-> old], NEW new, new = Apply(f, t)
    PROVE  AppliedAll(image, old, t, out, new)
  <1> DEFINE j == Whole(t)
             r == Request(image, j)
             new_blocks == Execute(image, old, j, r, out)
  <1>1. /\ Fits(image, j) /\ j.transform = t /\ Adjust(image, j, r) = out
        /\ r.x.offset = 0 /\ r.x.size = Across(image, j)
        /\ r.y.offset = 0 /\ r.y.size = Down(image, j)
    BY WholeImage
  <1>2. f.image = image /\ f.blocks = old
    OBVIOUS
  <1>3. new = [image |-> out, blocks |-> new_blocks]
    BY <1>1, <1>2, Zenon DEF Apply
  <1>4. new.image = out /\ new.blocks = new_blocks
    BY <1>3
  <1> HIDE DEF j, r
  <1>5. ASSUME NEW i \in DOMAIN out.comps, NEW p \in Array(out, i), p \notin Visible(out, i)
        PROVE  new_blocks[i][p] = Dummy
    BY <1>5, Zenon DEF Execute
  <1>6. ASSUME NEW i \in DOMAIN out.comps, NEW p \in Array(out, i), p \in Visible(out, i),
               NEW how,
               how = Turn(t, BlocksAcross(out, i), BlocksDown(out, i), p[1], p[2])
        PROVE  Applied(image, old, out, i, p, new_blocks[i][p], how)
    <2> DEFINE h == out.comps[i].h
               v == out.comps[i].v
    <2>1. p[1] \in Nat /\ p[2] \in Nat
      BY <1>6 DEF Visible, Span
    <2>2. /\ MaxH(out.comps) * DCTSIZE = IMCUAcross(image, j)
          /\ MaxV(out.comps) * DCTSIZE = IMCUDown(image, j)
          /\ out.width = r.x.size /\ out.height = r.y.size
          /\ DOMAIN out.comps \subseteq DOMAIN image.comps
      BY <1>1, OutImage DEF r
    <2>3. /\ BlocksAcross(out, i) = WholeAcross(image, j, h)
          /\ BlocksDown(out, i) = WholeDown(image, j, v)
      BY <1>1, <2>2, Zenon DEF BlocksAcross, BlocksDown, WholeAcross, WholeDown
    <2>4. /\ h \in Nat /\ v \in Nat
          /\ Across(image, j) \in Nat /\ Down(image, j) \in Nat
      BY <1>1, <1>6, OutBlocks, Units DEF Fits, r
    <2>5. /\ p[1] + r.x.offset * h = p[1] /\ p[2] + r.y.offset * v = p[2]
          /\ r.x.size <= Across(image, j) /\ r.y.size <= Down(image, j)
      BY <1>1, <2>1, <2>4
    <2>6. Taken(image, j, r, out, i, p[1], p[2])
             = Turn(t, WholeAcross(image, j, h), WholeDown(image, j, v),
                    p[1] + r.x.offset * h, p[2] + r.y.offset * v)
      BY <1>1, <1>6, <2>1, <2>5, TakenIs DEF r
    <2>7. Taken(image, j, r, out, i, p[1], p[2]) = how
      BY <1>6, <2>3, <2>5, <2>6, Zenon
    <2>8. Found(image, j, r, out.comps[i], p[1], p[2], how)
      BY <1>1, <1>6, <2>1, <2>5, <2>7, FoundTurned DEF r
    <2>9. how \in Blocks
      BY <2>8, Zenon DEF Found
    <2>10. <<how.x, how.y>> \in Visible(image, i)
      BY <1>1, <1>6, <2>8, FoundIn DEF r
    <2>11. how # Zero
      BY <2>9, NotFilling
    <2>12. new_blocks[i][p] = Turned(old[i][<<how.x, how.y>>], how)
      BY <1>6, <2>7, <2>11, Zenon DEF Execute
    <2> QED
      BY <1>6, <2>2, <2>9, <2>10, <2>12 DEF Applied
  <1>7. new_blocks = [i \in DOMAIN out.comps |-> [p \in Array(out, i) |-> new_blocks[i][p]]]
    BY Zenon DEF Execute
  <1> HIDE DEF new_blocks
  <1>8. \A i \in DOMAIN out.comps : \A p \in Array(out, i) :
           IF p \in Visible(out, i)
           THEN Applied(image, old, out, i, p, new_blocks[i][p],
                        Turn(t, BlocksAcross(out, i), BlocksDown(out, i), p[1], p[2]))
           ELSE new_blocks[i][p] = Dummy
    <2> TAKE i \in DOMAIN out.comps
    <2> TAKE p \in Array(out, i)
    <2>1. CASE p \in Visible(out, i)
      BY <1>6, <2>1, Zenon
    <2>2. CASE p \notin Visible(out, i)
      BY <1>5, <2>2, Zenon
    <2> QED
      BY <2>1, <2>2
  <1> QED
    BY <1>3, <1>4, <1>7, <1>8, Zenon DEF AppliedAll

LEMMA ProductsNat ==
    /\ \A a, b \in Nat : a * b \in Nat
    /\ \A a, b \in Nat \ {0} : a * b \in Nat \ {0}
  <1>1. ASSUME NEW a \in Nat, NEW b \in Nat
        PROVE  a * b \in Nat
    BY <1>1
  <1>2. ASSUME NEW a \in Nat \ {0}, NEW b \in Nat \ {0}
        PROVE  a * b \in Nat \ {0}
    BY <1>2
  <1> QED
    BY <1>1, <1>2, Zenon

LEMMA VisibleHeld ==
    ASSUME NEW image \in Images, NEW i \in DOMAIN image.comps
    PROVE  Visible(image, i) \subseteq Array(image, i)
  <1> DEFINE W == WidthInBlocks(image, i)
             H == HeightInBlocks(image, i)
             h == image.comps[i].h
             v == image.comps[i].v
  <1>1. /\ image.width \in Nat /\ image.height \in Nat
        /\ image.comps \in Seq(Factors) \ {<<>>}
    BY DEF Images
  <1>2. /\ h \in 1..4 /\ v \in 1..4
        /\ MaxH(image.comps) \in 1..4 /\ MaxV(image.comps) \in 1..4
    BY <1>1, Comps
  <1>3. W \in Nat /\ H \in Nat
    <2>1. /\ image.width * h \in Nat /\ image.height * v \in Nat
          /\ MaxH(image.comps) * DCTSIZE \in Nat \ {0}
          /\ MaxV(image.comps) * DCTSIZE \in Nat \ {0}
      <3>1. /\ h \in Nat /\ v \in Nat /\ DCTSIZE \in Nat \ {0}
            /\ MaxH(image.comps) \in Nat \ {0} /\ MaxV(image.comps) \in Nat \ {0}
        BY <1>2, TransformAssumption
      <3> QED
        BY <1>1, <3>1, ProductsNat, Zenon
    <2> QED
      BY <2>1, BelowCeil DEF WidthInBlocks, HeightInBlocks
  <1> HIDE DEF W, H, h, v
  <1>4. /\ Padded(W, h) \in Nat /\ W <= Padded(W, h)
        /\ Padded(H, v) \in Nat /\ H <= Padded(H, v)
    BY <1>2, <1>3, PaddedMore
  <1> QED
    BY <1>3, <1>4 DEF Visible, Array, Span, W, H, h, v

LEMMA BlocksNat ==
    ASSUME NEW image \in Images, NEW i \in DOMAIN image.comps
    PROVE  BlocksAcross(image, i) \in Nat /\ BlocksDown(image, i) \in Nat
  <1>1. /\ image.width \in Nat /\ image.height \in Nat
        /\ image.comps \in Seq(Factors) \ {<<>>}
    BY DEF Images
  <1>2. /\ image.comps[i].h \in Nat /\ image.comps[i].v \in Nat
        /\ MaxH(image.comps) * DCTSIZE \in Nat \ {0}
        /\ MaxV(image.comps) * DCTSIZE \in Nat \ {0}
    <2>1. /\ image.comps[i].h \in 1..4 /\ image.comps[i].v \in 1..4
          /\ MaxH(image.comps) \in 1..4 /\ MaxV(image.comps) \in 1..4
      BY <1>1, Comps
    <2> QED
      <3>1. /\ image.comps[i].h \in Nat /\ image.comps[i].v \in Nat
            /\ DCTSIZE \in Nat \ {0}
            /\ MaxH(image.comps) \in Nat \ {0} /\ MaxV(image.comps) \in Nat \ {0}
        BY <2>1, TransformAssumption
      <3> QED
        BY <3>1, ProductsNat, Zenon
  <1>3. /\ image.width \div (MaxH(image.comps) * DCTSIZE) \in Nat
        /\ image.height \div (MaxV(image.comps) * DCTSIZE) \in Nat
    BY <1>1, <1>2, Quotient
  <1> QED
    BY <1>2, <1>3, Products DEF BlocksAcross, BlocksDown

\* A turn of an image as it comes out of a file.
LEMMA TurnedOriginal ==
    ASSUME job \in Options, NEW image \in Images, NEW t \in Turns \cup {"none"}
    PROVE  Apply([image |-> image, blocks |-> Original(image)], t) = TurnFile(image, t)
  <1> DEFINE out == TurnedImage(image, t)
             old == Original(image)
             f == [image |-> image, blocks |-> old]
             new == Apply(f, t)
             turned(i, p) == Turn(t, BlocksAcross(out, i), BlocksDown(out, i), p[1], p[2])
  <1>1. /\ new.image = out
        /\ new = [image |-> new.image, blocks |-> new.blocks]
        /\ new.blocks = [i \in DOMAIN out.comps |-> [p \in Array(out, i) |-> new.blocks[i][p]]]
        /\ \A i \in DOMAIN out.comps : \A p \in Array(out, i) :
              IF p \in Visible(out, i)
              THEN Applied(image, old, out, i, p, new.blocks[i][p], turned(i, p))
              ELSE new.blocks[i][p] = Dummy
    <2>1. AppliedAll(image, old, t, out, new)
      BY ApplyIs, Zenon
    <2> HIDE DEF out, old, new
    <2> QED
      BY <2>1, Zenon DEF AppliedAll
  <1> HIDE DEF new
  <1>2. ASSUME NEW i \in DOMAIN out.comps, NEW p \in Array(out, i), p \in Visible(out, i)
        PROVE  new.blocks[i][p] = turned(i, p)
    <2> DEFINE how == turned(i, p)
    <2>1. Applied(image, old, out, i, p, new.blocks[i][p], how)
      BY <1>1, <1>2, Zenon
    <2> HIDE DEF how, out
    <2>2. /\ how \in Blocks /\ <<how.x, how.y>> \in Visible(image, i)
          /\ i \in DOMAIN image.comps
          /\ new.blocks[i][p] = Turned(Original(image)[i][<<how.x, how.y>>], how)
      BY <2>1, Zenon DEF Applied, old
    <2>3. <<how.x, how.y>> \in Array(image, i)
      BY <2>2, VisibleHeld
    <2>4. Original(image)[i][<<how.x, how.y>>] = Verbatim(how.x, how.y)
      BY <2>2, <2>3 DEF Original
    <2>5. new.blocks[i][p] = Turned(Verbatim(how.x, how.y), how)
      BY <2>2, <2>4, Zenon
    <2>6. new.blocks[i][p] = how
      BY <2>2, <2>5, TurnedVerbatim, Zenon
    <2> QED
      BY <2>6 DEF how
  <1>3. \A i \in DOMAIN out.comps : \A p \in Array(out, i) :
           new.blocks[i][p] = IF p \in Visible(out, i) THEN turned(i, p) ELSE Dummy
    BY <1>1, <1>2, Zenon
  <1>4. new.blocks = TurnBlocks(image, t)
    BY <1>1, <1>3, Zenon DEF TurnBlocks
  <1> QED
    BY <1>1, <1>4, Zenon DEF TurnFile, new

\* A turn of an image that has been turned.
LEMMA TurnedAgain ==
    ASSUME job \in Options, NEW image \in Images, NEW t1 \in Turns \cup {"none"},
           NEW t2 \in Turns \cup {"none"}, NEW t3, Composes(t1, t2, t3)
    PROVE  Apply(TurnFile(image, t1), t2) = TurnFile(image, t3)
  <1> DEFINE one == TurnedImage(image, t1)
             out == TurnedImage(image, t3)
             old == TurnBlocks(image, t1)
             f == [image |-> one, blocks |-> old]
             new == Apply(f, t2)
             how(i, p) == Turn(t2, BlocksAcross(out, i), BlocksDown(out, i), p[1], p[2])
             turned(i, p) == Turn(t3, BlocksAcross(out, i), BlocksDown(out, i), p[1], p[2])
  <1>1. /\ one \in Images /\ Len(one.comps) = Len(image.comps)
        /\ Len(one.comps) = 1 => one.comps = One
    BY TurnedImageIs, TurnedOne
  <1>2. out = TurnedImage(one, t2)
    BY ImagesCompose
  <1>3. f = TurnFile(image, t1)
    BY DEF TurnFile
  <1>4. /\ new.image = out
        /\ new = [image |-> new.image, blocks |-> new.blocks]
        /\ new.blocks = [i \in DOMAIN out.comps |-> [p \in Array(out, i) |-> new.blocks[i][p]]]
        /\ \A i \in DOMAIN out.comps : \A p \in Array(out, i) :
              IF p \in Visible(out, i)
              THEN Applied(one, old, out, i, p, new.blocks[i][p], how(i, p))
              ELSE new.blocks[i][p] = Dummy
    <2> HIDE DEF out, old, one
    <2>1. AppliedAll(one, old, t2, out, new)
      BY <1>1, <1>2, ApplyIs, Zenon
    <2> HIDE DEF new
    <2> QED
      BY <2>1, Zenon DEF AppliedAll
  <1> HIDE DEF new
  <1>5. ASSUME NEW i \in DOMAIN out.comps, NEW p \in Array(out, i), p \in Visible(out, i)
        PROVE  new.blocks[i][p] = turned(i, p)
    <2> DEFINE h == how(i, p)
               q == <<h.x, h.y>>
               A == BlocksAcross(out, i)
               B == BlocksDown(out, i)
               A1 == BlocksAcross(one, i)
               B1 == BlocksDown(one, i)
    <2>1. Applied(one, old, out, i, p, new.blocks[i][p], h)
      BY <1>4, <1>5, Zenon
    <2>2. /\ h \in Blocks /\ q \in Visible(one, i)
          /\ i \in DOMAIN one.comps
          /\ new.blocks[i][p] = Turned(old[i][q], h)
      <3> HIDE DEF h, out, one, old
      <3> QED
        BY <2>1, Zenon DEF Applied
    <2>3. q \in Array(one, i)
      BY <1>1, <2>2, VisibleHeld
    <2>4. q[1] = h.x /\ q[2] = h.y
      OBVIOUS
    <2>5. old[i][q] = Turn(t1, A1, B1, h.x, h.y)
      <3>1. old[i][q] = Turn(t1, A1, B1, q[1], q[2])
        <4> HIDE DEF q, h
        <4> QED
          BY <2>2, <2>3, Zenon DEF TurnBlocks
      <3> HIDE DEF q, h, old
      <3> QED
        BY <2>4, <3>1, Zenon
    <2>6. /\ A \in Nat /\ B \in Nat /\ p[1] \in Nat /\ p[2] \in Nat
      <3>1. out \in Images
        BY <1>1, <1>2, TurnedImageIs
      <3>2. A \in Nat /\ B \in Nat
        BY <3>1, BlocksNat
      <3>3. p[1] \in Nat /\ p[2] \in Nat
        BY <1>5 DEF Visible, Span
      <3> QED
        BY <3>2, <3>3
    <2>7. /\ A1 = IF t2 \in Transposing THEN B ELSE A
          /\ B1 = IF t2 \in Transposing THEN A ELSE B
      <3> HIDE DEF one, out
      <3>1. IF t2 \in Transposing
            THEN A = B1 /\ B = A1 ELSE A = A1 /\ B = B1
        BY <1>1, <1>2, <1>5, SizesTurn
      <3> HIDE DEF A, B, A1, B1
      <3> QED
        BY <3>1
    <2>8. h = Turn(t2, A, B, p[1], p[2])
      OBVIOUS
    <2>9. Turned(Turn(t1, A1, B1, h.x, h.y), h) = Turn(t3, A, B, p[1], p[2])
      <3> DEFINE X == p[1]
                 Y == p[2]
      <3> HIDE DEF h, A, B, A1, B1, X, Y
      <3>1. TurnMet(t1, t2, t3, A, B, X, Y, A1, B1, h)
        BY <2>6, <2>7, <2>8, TurnsMeet, Zenon DEF X, Y
      <3> QED
        BY <3>1, Zenon DEF TurnMet, X, Y
    <2> HIDE DEF h, q, A, B, A1, B1, old
    <2>10. new.blocks[i][p] = Turn(t3, A, B, p[1], p[2])
      BY <2>2, <2>5, <2>9, Zenon
    <2> QED
      BY <2>10 DEF A, B
  <1>6. \A i \in DOMAIN out.comps : \A p \in Array(out, i) :
           new.blocks[i][p] = IF p \in Visible(out, i) THEN turned(i, p) ELSE Dummy
    BY <1>4, <1>5, Zenon
  <1>7. new.blocks = TurnBlocks(image, t3)
    BY <1>4, <1>6, Zenon DEF TurnBlocks
  <1> QED
    BY <1>3, <1>4, <1>7, Zenon DEF TurnFile, new

\* What the runs of the whole image start from.
LEMMA SourceIs ==
    ASSUME job \in Options, source \in Images
    PROVE  Source = TurnFile(source, "none")
  <1> DEFINE f == [image |-> source, blocks |-> Original(source)]
             j == Whole("none")
             out == Adjust(source, j, Request(source, j))
             blank == TurnFile(source, "none")
  <1>1. out = TurnedImage(source, "none")
    BY WholeImage
  <1>2. Apply(f, "none") = blank
    BY TurnedOriginal
  <1>3. Source = [image |-> out, blocks |-> Apply(f, "none").blocks]
    BY Zenon DEF Source
  <1> HIDE DEF f, j, out
  <1>4. blank.blocks = TurnBlocks(source, "none")
    BY DEF TurnFile
  <1> QED
    BY <1>1, <1>2, <1>3, <1>4, Zenon DEF TurnFile

\* What a job that only turns its image has made of it.
LEMMA ResultIs ==
    ASSUME TransformInv, Plain, job.transform \in Turns
    PROVE  /\ job \in Options /\ source \in Images
           /\ Result = TurnFile(source, job.transform)
  <1> DEFINE t == job.transform
             f == [image |-> source, blocks |-> Original(source)]
  <1>1. job \in Options /\ source \in Images
    BY TransformAssumption DEF TransformInv
  <1>2. /\ phase = "done" /\ job = Whole(t)
        /\ info = Request(source, job) /\ dest = Adjust(source, job, info)
        /\ blocks = Execute(source, Original(source), job, info, dest)
    BY DEF Plain, Done, TransformInv
  <1>3. Apply(f, t) = TurnFile(source, t)
    BY <1>1, TurnedOriginal
  <1>4. Apply(f, t) = [image |-> dest, blocks |-> blocks]
    <2>1. f.image = source /\ f.blocks = Original(source)
      OBVIOUS
    <2> HIDE DEF f, t
    <2> QED
      BY <1>2, <2>1, Zenon DEF Apply
  <1> QED
    BY <1>1, <1>3, <1>4 DEF Result

\* Whatever is left over at the edges, a turned image can be turned back to what it
\* was, and the routines that turn and mirror at once leave the edges as the simple
\* ones do one after the other (do_rot_90 to do_transverse, transupp.c:484-855).
THEOREM TransformComposes == Spec => []TurnsCompose
  <1> SUFFICES ASSUME TransformInv PROVE TurnsCompose
    BY TransformInvariant, PTL
  <1> SUFFICES ASSUME Plain, job.transform \in Turns
               PROVE  Reversible /\ EdgesAsInSequence
    BY DEF TurnsCompose
  <1> DEFINE t == job.transform
  <1>1. /\ job \in Options /\ source \in Images
        /\ Result = TurnFile(source, t)
    BY ResultIs
  <1>2. Source = TurnFile(source, "none")
    BY <1>1, SourceIs
  <1>3. Reversible
    <2>1. Composes(t, Undoing[t], "none") /\ Undoing[t] \in Turns
      BY Compositions, Zenon
    <2>2. Apply(TurnFile(source, t), Undoing[t]) = TurnFile(source, "none")
      BY <1>1, <2>1, TurnedAgain
    <2> QED
      BY <1>1, <1>2, <2>2, Zenon DEF Reversible
  <1>4. /\ "transpose" \in Turns /\ "flip_h" \in Turns /\ "flip_v" \in Turns
        /\ "rot_270" \in Turns
    BY DEF Turns
  <1>5. \A u \in Turns : Apply(Source, u) = TurnFile(source, u)
    <2> TAKE u \in Turns
    <2>1. Composes("none", u, u)
      BY Compositions, Zenon
    <2>2. Apply(TurnFile(source, "none"), u) = TurnFile(source, u)
      BY <1>1, <2>1, TurnedAgain
    <2> QED
      BY <1>2, <2>2, Zenon
  <1>6. /\ Apply(TurnFile(source, "transpose"), "flip_h") = TurnFile(source, "rot_90")
        /\ Apply(TurnFile(source, "flip_v"), "flip_h") = TurnFile(source, "rot_180")
        /\ Apply(TurnFile(source, "flip_h"), "transpose") = TurnFile(source, "rot_270")
        /\ Apply(TurnFile(source, "rot_270"), "flip_h") = TurnFile(source, "transverse")
    <2>1. /\ Composes("transpose", "flip_h", "rot_90")
          /\ Composes("flip_v", "flip_h", "rot_180")
          /\ Composes("flip_h", "transpose", "rot_270")
          /\ Composes("rot_270", "flip_h", "transverse")
      BY Compositions, Zenon
    <2> QED
      BY <1>1, <1>4, <2>1, TurnedAgain
  <1>7. EdgesAsInSequence
    BY <1>1, <1>4, <1>5, <1>6, Zenon DEF EdgesAsInSequence
  <1> QED
    BY <1>3, <1>7

----------------------------------------------------------------------------
\* Crops, wipes and extensions.

\* A job that keeps its components works with the units of the whole image.
LEMMA WholeUnits ==
    ASSUME NEW image, NEW j, Fits(image, j), j.transform \in Turns \cup {"none"},
           j.force_grayscale = FALSE, NEW r, r = Request(image, j),
           NEW out, out = Adjust(image, j, r), job \in Options,
           NEW k, k = Whole(j.transform)
    PROVE  /\ Across(image, k) = Across(image, j) /\ Down(image, k) = Down(image, j)
           /\ IMCUAcross(image, k) = IMCUAcross(image, j)
           /\ IMCUDown(image, k) = IMCUDown(image, j)
           /\ TurnedImage(image, j.transform).comps = out.comps
  <1> DEFINE t == j.transform
  <1>1. image \in Images
    BY DEF Fits
  <1>2. k.transform = t /\ k.force_grayscale = FALSE
    BY WholeJob
  <1>3. NumComponents(image, k) = Len(image.comps) /\ NumComponents(image, j) = Len(image.comps)
    BY <1>2 DEF NumComponents
  <1>4. SourceIMCU(image, k) = SourceIMCU(image, j)
    BY <1>3 DEF SourceIMCU
  <1>5. r.num_components = Len(image.comps)
    BY <1>3, RequestFits
  <1>6. out.comps = IF Len(image.comps) = 1 THEN One
                    ELSE IF t \in Transposing THEN Turned90(image.comps) ELSE image.comps
    <2>1. /\ r.num_components = 1 => out.comps = <<[h |-> 1, v |-> 1]>>
          /\ r.num_components # 1 =>
                out.comps = IF t \in Transposing THEN Turned90(image.comps)
                            ELSE image.comps
      BY OutImage
    <2> HIDE DEF t
    <2> QED
      BY <1>5, <2>1, Zenon DEF One
  <1>7. TurnedImage(image, t).comps = out.comps
    BY <1>1, <1>6, TurnedImageIs
  <1> QED
    BY <1>2, <1>4, <1>7 DEF Across, Down, IMCUAcross, IMCUDown

\* A block of a crop is the block of the whole image, turned, that is as far from its
\* corner as the crop's offset says.
LEMMA CropWindow ==
    ASSUME TransformInv, phase = "done", job.transform \in Turns \cup {"none"},
           job.force_grayscale = FALSE,
           dest.width <= Across(source, job), dest.height <= Down(source, job),
           NEW i \in DOMAIN dest.comps, NEW p \in Visible(dest, i)
    PROVE  blocks[i][p] = Apply(Source, job.transform).blocks[i]
                             [<<p[1] + info.x.offset * dest.comps[i].h,
                                p[2] + info.y.offset * dest.comps[i].v>>]
  <1> DEFINE t == job.transform
             k == Whole(t)
             out == TurnedImage(source, t)
             h == dest.comps[i].h
             v == dest.comps[i].v
             X == p[1] + info.x.offset * h
             Y == p[2] + info.y.offset * v
             SA == Across(source, job)
             SD == Down(source, job)
             UA == IMCUAcross(source, job)
             UD == IMCUDown(source, job)
  <1>1. /\ Fits(source, job) /\ info = Request(source, job)
        /\ dest = Adjust(source, job, info)
    BY InvFits
  <1>2. job \in Options /\ source \in Images /\ t \in Turns \cup {"none"}
    BY <1>1 DEF Fits
  <1>3. Apply(Source, t) = TurnFile(source, t)
    <2>1. Composes("none", t, t)
      BY <1>2, Compositions, Zenon
    <2>2. Apply(TurnFile(source, "none"), t) = TurnFile(source, t)
      BY <1>2, <2>1, TurnedAgain
    <2> QED
      BY <1>2, <2>2, SourceIs, Zenon
  <1>4. /\ Across(source, k) = SA /\ Down(source, k) = SD
        /\ IMCUAcross(source, k) = UA /\ IMCUDown(source, k) = UD
        /\ out.comps = dest.comps
    BY <1>1, <1>2, WholeUnits
  <1>5. /\ Fits(source, k) /\ Adjust(source, k, Request(source, k)) = out
        /\ Request(source, k).x.size = SA /\ Request(source, k).y.size = SD
    BY <1>2, <1>4, WholeImage
  <1>6. /\ WidthInBlocks(out, i) = CeilDiv(SA * h, UA)
        /\ HeightInBlocks(out, i) = CeilDiv(SD * v, UD)
        /\ Visible(out, i) \subseteq Array(out, i)
        /\ out.width = SA /\ out.height = SD
        /\ MaxH(out.comps) * DCTSIZE = UA /\ MaxV(out.comps) * DCTSIZE = UD
    <2> HIDE DEF out, k, SA, SD, UA, UD
    <2>1. i \in DOMAIN out.comps
      BY <1>4
    <2> QED
      BY <1>4, <1>5, <2>1, OutBlocks, OutImage
  <1>7. /\ dest.width = info.x.size /\ dest.height = info.y.size
        /\ WidthInBlocks(dest, i) = CeilDiv(info.x.size * h, UA)
        /\ HeightInBlocks(dest, i) = CeilDiv(info.y.size * v, UD)
        /\ h \in Nat \ {0} /\ v \in Nat \ {0}
    BY <1>1, OutBlocks, OutImage
  <1>8. /\ SA \in Nat /\ SD \in Nat /\ UA \in Nat \ {0} /\ UD \in Nat \ {0}
        /\ info.x.offset \in Nat /\ info.x.size \in Nat
        /\ info.y.offset \in Nat /\ info.y.size \in Nat
        /\ info.x.offset * UA + info.x.size <= SA
        /\ info.y.offset * UD + info.y.size <= SD
    <2>1. SA \in Nat /\ SD \in Nat /\ UA \in Nat \ {0} /\ UD \in Nat \ {0}
      BY <1>1, Units DEF Fits
    <2>2. t # "wipe"
      BY <1>2 DEF Turns
    <2> QED
      BY <1>1, <1>7, <2>1, <2>2, RequestFits DEF AxisFits
  <1>9. /\ p[1] \in Nat /\ p[2] \in Nat
        /\ blocks[i][p] = Taken(source, job, info, dest, i, p[1], p[2])
        /\ p[1] < WidthInBlocks(dest, i) /\ p[2] < HeightInBlocks(dest, i)
    <2>1. WidthInBlocks(dest, i) \in Nat /\ HeightInBlocks(dest, i) \in Nat
      <3> HIDE DEF SA, SD, UA, UD, h, v
      <3>1. info.x.size * h \in Nat /\ info.y.size * v \in Nat
        BY <1>7, <1>8, Products
      <3> QED
        BY <1>7, <1>8, <3>1, BelowCeil
    <2>2. p[1] < WidthInBlocks(dest, i) /\ p[2] < HeightInBlocks(dest, i)
      BY <2>1 DEF Visible, Span
    <2>3. /\ p[1] \in Nat /\ p[2] \in Nat
          /\ blocks[i][p] = Taken(source, job, info, dest, i, p[1], p[2])
      BY ResultBlocks
    <2> QED
      BY <2>2, <2>3
  <1>10. blocks[i][p] = Turn(t, WholeAcross(source, job, h), WholeDown(source, job, v), X, Y)
    BY <1>1, <1>7, <1>9, TakenIs
  <1>11. BlocksAcross(out, i) = WholeAcross(source, job, h)
         /\ BlocksDown(out, i) = WholeDown(source, job, v)
    BY <1>4, <1>6, Zenon DEF BlocksAcross, BlocksDown, WholeAcross, WholeDown
  <1>12. <<X, Y>> \in Visible(out, i)
    <2> HIDE DEF out, SA, SD, UA, UD, h, v
    <2>1. X < CeilDiv(SA * h, UA) /\ Y < CeilDiv(SD * v, UD)
      BY <1>7, <1>8, <1>9, Window
    <2>2. X \in Nat /\ Y \in Nat
      BY <1>7, <1>8, <1>9, Products
    <2>3. CeilDiv(SA * h, UA) \in Nat /\ CeilDiv(SD * v, UD) \in Nat
      BY <1>7, <1>8, WholeSeenPadded
    <2> HIDE DEF X, Y
    <2> QED
      BY <1>6, <2>1, <2>2, <2>3 DEF Visible, Span
  <1> HIDE DEF X, Y, k, h, v
  <1>13. Apply(Source, t).blocks[i][<<X, Y>>]
            = Turn(t, BlocksAcross(out, i), BlocksDown(out, i), X, Y)
    <2> DEFINE q == <<X, Y>>
    <2>1. q[1] = X /\ q[2] = Y /\ q \in Visible(out, i) /\ q \in Array(out, i)
          /\ i \in DOMAIN out.comps
      BY <1>4, <1>6, <1>12
    <2> HIDE DEF q
    <2>2. Apply(Source, t).blocks = TurnBlocks(source, t)
      BY <1>3 DEF TurnFile
    <2>3. TurnBlocks(source, t)[i][q]
             = Turn(t, BlocksAcross(out, i), BlocksDown(out, i), q[1], q[2])
      BY <2>1, Zenon DEF TurnBlocks
    <2> QED
      BY <2>1, <2>2, <2>3, Zenon DEF q
  <1> QED
    BY <1>10, <1>11, <1>13, Zenon DEF X, Y, h, v

\* The d iMCUs from the o-th on are those with samples from O to O + L.
WipedIs(O, L, U, h, o, d, x, m) ==
    /\ o * h <= x <=> (m + 1) * U > O
    /\ o * h <= x => (x < o * h + d * h <=> m * U < O + L)

\* The iMCU that the first sample to be wiped lies in, and those up to the last one.
LEMMA WipedAxis ==
    ASSUME NEW O \in Nat, NEW L \in Nat, NEW U \in Nat \ {0}, NEW h \in Nat \ {0},
           NEW o, o = O \div U, NEW d, d = CeilDiv(L + (O % U), U), NEW x \in Nat,
           NEW m, m = x \div h
    PROVE  WipedIs(O, L, U, h, o, d, x, m)
  <1> DEFINE R == O % U
  <1>1. /\ o \in Nat /\ R \in Nat /\ O = o * U + R /\ o * U <= O /\ O < (o + 1) * U
        /\ (o + 1) * U = o * U + U /\ o * U \in Nat
    BY Quotient, Products
  <1>2. /\ m \in Nat /\ m * h <= x /\ x < m * h + h /\ m * h \in Nat
    BY Quotient, Products
  <1> HIDE DEF R
  <1>3. L + R \in Nat
    BY <1>1
  <1>4. d \in Nat /\ \A n \in Nat : n < d <=> n * U < L + R
    BY <1>3, BelowCeil DEF R
  <1>5. /\ o * h \in Nat /\ d * h \in Nat /\ (o + d) * h = o * h + d * h /\ o + d \in Nat
        /\ m * U \in Nat /\ (m + 1) * U = m * U + U
    BY <1>1, <1>2, <1>4, Products
  <1>6. o * h <= x <=> o <= m
    <2>1. o <= m => o * h <= m * h
      BY <1>1, <1>2, Cancel
    <2>2. m < o => m * h + h <= o * h
      BY <1>1, <1>2, Cancel
    <2> QED
      BY <1>1, <1>2, <1>5, <2>1, <2>2
  <1>7. x < o * h + d * h <=> m < o + d
    <2>1. m < o + d => m * h + h <= (o + d) * h
      BY <1>2, <1>5, Cancel
    <2>2. o + d <= m => (o + d) * h <= m * h
      BY <1>2, <1>5, Cancel
    <2> QED
      BY <1>1, <1>2, <1>4, <1>5, <2>1, <2>2
  <1>8. o <= m <=> (m + 1) * U > O
    <2>1. o <= m => o * U <= m * U
      BY <1>1, <1>2, Cancel
    <2>2. m < o => m * U + U <= o * U
      BY <1>1, <1>2, Cancel
    <2> QED
      BY <1>1, <1>2, <1>5, <2>1, <2>2
  <1>9. ASSUME o <= m
        PROVE  m < o + d <=> m * U < O + L
    <2> DEFINE n == m - o
    <2>1. n \in Nat /\ m = o + n
      BY <1>1, <1>2, <1>9
    <2> HIDE DEF n
    <2>2. m * U = o * U + n * U /\ n * U \in Nat
      BY <1>1, <2>1, Products
    <2>3. n < d <=> n * U < L + R
      BY <1>4, <2>1
    <2> QED
      BY <1>1, <1>4, <2>1, <2>2, <2>3
  <1> QED
    BY <1>6, <1>7, <1>8, <1>9 DEF WipedIs

\* A wipe makes zero the blocks of the iMCUs with samples to be wiped, and no others.
LEMMA WipesOnly ==
    ASSUME TransformInv, phase = "done", job.transform = "wipe",
           NEW i \in DOMAIN dest.comps, NEW p \in Visible(dest, i),
           NEW x, x = CropOffset(job.x, source.width),
           NEW y, y = CropOffset(job.y, source.height)
    PROVE  blocks[i][p] = Zero <=>
              /\ (p[1] \div dest.comps[i].h) * Unit.w < x + CropLength(job.x, source.width)
              /\ (p[1] \div dest.comps[i].h + 1) * Unit.w > x
              /\ (p[2] \div dest.comps[i].v) * Unit.h < y + CropLength(job.y, source.height)
              /\ (p[2] \div dest.comps[i].v + 1) * Unit.h > y
  <1> DEFINE h == dest.comps[i].h
             v == dest.comps[i].v
             U == Unit.w
             V == Unit.h
             L == CropLength(job.x, source.width)
             M == CropLength(job.y, source.height)
             g == Geometry(source, info, dest, i)
             m == p[1] \div h
             n == p[2] \div v
  <1>1. /\ Fits(source, job) /\ info = Request(source, job)
        /\ dest = Adjust(source, job, info)
    BY InvFits
  <1>2. source \in Images /\ job \in Options /\ job.crop
    BY <1>1 DEF Fits
  <1>3. /\ Across(source, job) = source.width /\ Down(source, job) = source.height
        /\ IMCUAcross(source, job) = U /\ IMCUDown(source, job) = V
    BY DEF Across, Down, IMCUAcross, IMCUDown, Transposing, Unit
  <1>4. /\ U \in Nat \ {0} /\ V \in Nat \ {0}
        /\ source.width \in Nat \ {0} /\ source.height \in Nat \ {0}
        /\ job.x \in CropSpecs /\ job.y \in CropSpecs
    BY <1>2, <1>3, Units, Types
  <1>5. x \in Nat /\ y \in Nat /\ L \in Nat /\ M \in Nat
    <2>1. /\ ~BadCrop(job.x, source.width, job.transform)
          /\ ~BadCrop(job.y, source.height, job.transform)
      BY <1>1, <1>2, <1>3 DEF Fits, CropRefused
    <2> QED
      BY <1>4, <2>1, CropFits
  <1>6. /\ info.x.offset = x \div U /\ info.x.drop = CeilDiv(L + (x % U), U)
        /\ info.y.offset = y \div V /\ info.y.drop = CeilDiv(M + (y % V), V)
    <2>1. /\ info.x = RequestedSize(job.crop, job.x, source.width, U, job.transform,
                                    job.trim /\ job.transform \in TrimsRight)
          /\ info.y = RequestedSize(job.crop, job.y, source.height, V, job.transform,
                                    job.trim /\ job.transform \in TrimsBottom)
      BY <1>1, <1>3 DEF Request
    <2>2. /\ info.x.offset = CropOffset(job.x, source.width) \div U
          /\ info.x.drop = DropSize(job.x, source.width, U)
          /\ info.y.offset = CropOffset(job.y, source.height) \div V
          /\ info.y.drop = DropSize(job.y, source.height, V)
      BY <1>2, <2>1 DEF RequestedSize
    <2> QED
      BY <2>2 DEF DropSize
  <1>7. h \in Nat \ {0} /\ v \in Nat \ {0}
    BY <1>1, OutBlocks
  <1>8. /\ g.v = v /\ g.xc = info.x.offset * h /\ g.yc = info.y.offset * v
        /\ g.drop_width = info.x.drop * h /\ g.drop_height = info.y.drop * v
    BY DEF Geometry
  <1>9. /\ p[1] \in Nat /\ p[2] \in Nat
        /\ blocks[i][p] = do_wipe(g, p[1], p[2])
    BY ResultBlocks DEF Taken
  <1> HIDE DEF h, v, U, V, L, M, g
  <1>10. Verbatim(p[1], p[2]) # Zero
    <2>1. Verbatim(p[1], p[2]).x = p[1] /\ Zero.x = -1
      BY DEF Verbatim, Block, Zero
    <2> QED
      BY <1>9, <2>1
  <1>a. m = p[1] \div h /\ n = p[2] \div v
    OBVIOUS
  <1> HIDE DEF m, n
  <1>11. /\ g.xc <= p[1] <=> (m + 1) * U > x
         /\ g.xc <= p[1] => (p[1] < g.xc + g.drop_width <=> m * U < x + L)
    <2>1. WipedIs(x, L, U, h, info.x.offset, info.x.drop, p[1], m)
      BY <1>4, <1>5, <1>6, <1>7, <1>9, <1>a, WipedAxis, Zenon
    <2> QED
      BY <1>8, <2>1, Zenon DEF WipedIs
  <1>12. /\ g.yc <= p[2] <=> (n + 1) * V > y
         /\ g.yc <= p[2] => (p[2] < g.yc + g.drop_height <=> n * V < y + M)
    <2>1. WipedIs(y, M, V, v, info.y.offset, info.y.drop, p[2], n)
      BY <1>4, <1>5, <1>6, <1>7, <1>9, <1>a, WipedAxis, Zenon
    <2> QED
      BY <1>8, <2>1, Zenon DEF WipedIs
  <1>13. /\ g.yc <= First(p[2], v) <=> g.yc <= p[2]
         /\ First(p[2], v) < g.yc + g.drop_height <=> p[2] < g.yc + g.drop_height
         /\ g.xc \in Nat /\ g.yc \in Nat /\ First(p[2], v) \in Nat
    <2> DEFINE o == info.y.offset
               d == info.y.drop
    <2>1. /\ o \in Nat /\ d \in Nat /\ info.x.offset \in Nat
      <3>1. y % V \in Nat /\ y \div V \in Nat /\ x \div U \in Nat
        BY <1>4, <1>5, Quotient
      <3>2. M + (y % V) \in Nat
        BY <1>5, <3>1
      <3> QED
        BY <1>4, <1>6, <3>1, <3>2, BelowCeil
    <2> HIDE DEF o, d, First
    <2>2. /\ o * v \in Nat /\ d * v \in Nat /\ (o + d) * v = o * v + d * v
          /\ o + d \in Nat /\ info.x.offset * h \in Nat
      BY <1>7, <2>1, Products
    <2>3. /\ o * v <= First(p[2], v) <=> o * v <= p[2]
          /\ First(p[2], v) < (o + d) * v <=> p[2] < (o + d) * v
      BY <1>7, <1>9, <2>1, <2>2, StripBefore
    <2>4. First(p[2], v) \in Nat
      BY <1>7, <1>9, Strip
    <2>5. g.yc = o * v /\ g.drop_height = d * v
      BY <1>8 DEF o, d
    <2> QED
      BY <1>8, <2>2, <2>3, <2>4, <2>5
  <1> HIDE DEF First
  <1>14. blocks[i][p] = Zero <=>
            /\ First(p[2], v) >= g.yc /\ First(p[2], v) < g.yc + g.drop_height
            /\ p[1] >= g.xc /\ p[1] < g.xc + g.drop_width
    BY <1>8, <1>9, <1>10 DEF do_wipe
  <1>15. blocks[i][p] = Zero <=>
            /\ m * U < x + L /\ (m + 1) * U > x
            /\ n * V < y + M /\ (n + 1) * V > y
    BY <1>9, <1>11, <1>12, <1>13, <1>14
  <1> QED
    BY <1>15 DEF m, n, U, V, L, M, h, v

\* A block q that is taken, and seen in an image extended to s samples.
ExtendedIs(S, s, U, h, o, q) == q < (S \div U) * h /\ q + o * h < CeilDiv(s * h, U)

\* A block of a whole iMCU is found where the extended image has it.
LEMMA ExtendedAxis ==
    ASSUME NEW S \in Nat, NEW s \in Nat, NEW U \in Nat \ {0}, NEW h \in Nat \ {0},
           NEW o \in Nat, S + o * U <= s, NEW q \in Nat, (q \div h + 1) * U <= S
    PROVE  ExtendedIs(S, s, U, h, o, q)
  <1> DEFINE w == S \div U
             m == q \div h
  <1>1. /\ w \in Nat /\ w * U <= S /\ w * U \in Nat /\ w * h \in Nat
        /\ m \in Nat /\ q < m * h + h /\ m * h \in Nat /\ (m + 1) * U = m * U + U
        /\ o * U \in Nat /\ o * h \in Nat /\ s * h \in Nat /\ q * U \in Nat
    BY Quotient, Products
  <1>2. m < w
    BY <1>1, BelowDiv
  <1> HIDE DEF m, w
  <1>3. q < w * h
    <2>1. m * h + h <= w * h
      BY <1>1, <1>2, Cancel
    <2> QED
      BY <1>1, <2>1
  <1>4. (q + o * h) * U < s * h
    <2>1. w + o \in Nat /\ (w + o) * h = w * h + o * h /\ (w + o) * U = w * U + o * U
          /\ (w + o) * h \in Nat /\ (w + o) * U \in Nat
      BY <1>1, Products
    <2>2. q + o * h \in Nat /\ q + o * h < (w + o) * h
      BY <1>1, <1>3, <2>1
    <2>3. (q + o * h) * U < ((w + o) * h) * U
      BY <2>1, <2>2, Cancel
    <2>4. ((w + o) * h) * U = ((w + o) * U) * h
      <3>1. ((w + o) * h) * U = (w + o) * (h * U) /\ ((w + o) * U) * h = (w + o) * (U * h)
            /\ h * U = U * h
        BY <2>1, Products
      <3> QED
        BY <3>1
    <2>5. (w + o) * U <= s
      BY <1>1, <2>1
    <2>6. ((w + o) * U) * h <= s * h
      BY <2>1, <2>5, Products
    <2>7. (q + o * h) * U \in Nat /\ ((w + o) * h) * U \in Nat
      BY <2>1, <2>2, Products
    <2> QED
      BY <1>1, <2>3, <2>4, <2>6, <2>7
  <1>5. q + o * h \in Nat
    BY <1>1
  <1>6. q + o * h < CeilDiv(s * h, U)
    BY <1>1, <1>4, <1>5, BelowCeil
  <1> QED
    BY <1>3, <1>6 DEF w, ExtendedIs

\* An extended image has every block of the source's whole iMCUs in one place.
LEMMA ExtendsOnce ==
    ASSUME TransformInv, phase = "done", job.transform = "none",
           dest.width > source.width, dest.height >= source.height,
           NEW i \in DOMAIN dest.comps, NEW q \in Visible(source, i),
           (q[1] \div dest.comps[i].h + 1) * Unit.w <= source.width,
           (q[2] \div dest.comps[i].v + 1) * Unit.h <= source.height
    PROVE  Cardinality({p \in Visible(dest, i) :
               blocks[i][p] # Zero /\ <<blocks[i][p].x, blocks[i][p].y>> = q}) = 1
  <1> DEFINE h == dest.comps[i].h
             v == dest.comps[i].v
             U == Unit.w
             V == Unit.h
             W == source.width
             H == source.height
             g == Geometry(source, info, dest, i)
             N == info.x.offset * h
             M == info.y.offset * v
             A == (W \div U) * h
             B == (H \div V) * v
             higher == info.y.size > H
             z == <<q[1] + N, q[2] + M>>
             places == {p \in Visible(dest, i) :
                           blocks[i][p] # Zero /\ <<blocks[i][p].x, blocks[i][p].y>> = q}
  <1>1. /\ Fits(source, job) /\ info = Request(source, job)
        /\ dest = Adjust(source, job, info)
    BY InvFits
  <1>2. source \in Images /\ job \in Options
    BY <1>1 DEF Fits
  <1>3. /\ Across(source, job) = W /\ Down(source, job) = H
        /\ IMCUAcross(source, job) = U /\ IMCUDown(source, job) = V
        /\ "none" \notin Transposing
    BY DEF Across, Down, IMCUAcross, IMCUDown, Transposing, Unit
  <1>4. /\ U \in Nat \ {0} /\ V \in Nat \ {0} /\ W \in Nat \ {0} /\ H \in Nat \ {0}
    BY <1>2, <1>3, Units, Types
  <1>5. /\ h \in Nat \ {0} /\ v \in Nat \ {0}
        /\ dest.width = info.x.size /\ dest.height = info.y.size
        /\ WidthInBlocks(dest, i) = CeilDiv(info.x.size * h, U)
        /\ HeightInBlocks(dest, i) = CeilDiv(info.y.size * v, V)
    BY <1>1, <1>3, OutBlocks, OutImage
  <1>6. /\ info.x.size \in Nat /\ info.x.offset \in Nat
        /\ info.y.size \in Nat /\ info.y.offset \in Nat
        /\ W + info.x.offset * U <= info.x.size
        /\ higher => H + info.y.offset * V <= info.y.size
        /\ ~higher => info.y.offset * V + info.y.size <= H
    <2>1. /\ AxisFits(job.crop, job.transform, info.x, W, U,
                      job.trim /\ job.transform \in TrimsRight)
          /\ AxisFits(job.crop, job.transform, info.y, H, V,
                      job.trim /\ job.transform \in TrimsBottom)
      BY <1>1, <1>3, RequestFits
    <2> HIDE DEF U, V, W, H
    <2> QED
      BY <1>4, <1>5, <2>1 DEF AxisFits, W, H
  <1>7. /\ q[1] \in Nat /\ q[2] \in Nat /\ q = <<q[1], q[2]>>
        /\ q[2] < HeightInBlocks(source, i)
    <2>1. SeenDown(source, job, i) \in Nat
      BY <1>1, SourceBlocks
    <2>2. HeightInBlocks(source, i) \in Nat
      BY <1>3, <2>1 DEF SeenDown
    <2> QED
      BY <2>2 DEF Visible, Span
  <1>8. HeightInBlocks(source, i) = CeilDiv(H * v, V)
    <2>1. SeenDown(source, job, i) = CeilDiv(H * v, V)
      BY <1>1, <1>3, SourceBlocks
    <2> QED
      BY <1>3, <2>1 DEF SeenDown
  <1>9. /\ g.h = h /\ g.v = v /\ g.xc = N /\ g.yc = M /\ g.width = A /\ g.height = B
    <2>1. Seen(g, g.width, g.height, W \div U, H \div V, info.x.offset, info.y.offset)
      BY <1>1, <1>3, GeometrySeen
    <2>2. g.h = h /\ g.v = v /\ g.xc = N /\ g.yc = M
      BY <1>1, GeometrySeen
    <2> QED
      BY <2>1, <2>2 DEF Seen
  <1>a. /\ N = info.x.offset * h /\ M = info.y.offset * v
        /\ A = (W \div U) * h /\ B = (H \div V) * v
        /\ (q[1] \div h + 1) * U <= W /\ (q[2] \div v + 1) * V <= H
    OBVIOUS
  <1> HIDE DEF h, v, U, V, W, H, g, N, M, A, B
  <1>10. /\ A \in Nat /\ B \in Nat /\ N \in Nat /\ M \in Nat
    BY <1>4, <1>5, <1>6, <1>a, Quotient, Products
  <1>11. q[1] < A /\ q[1] + N < WidthInBlocks(dest, i)
    <2>1. ExtendedIs(W, info.x.size, U, h, info.x.offset, q[1])
      BY <1>4, <1>5, <1>6, <1>7, <1>a, ExtendedAxis, Zenon
    <2> QED
      BY <1>5, <1>a, <2>1, Zenon DEF ExtendedIs
  <1>12. ~higher => M = 0 /\ info.y.size = H
    <2>1. ASSUME ~higher PROVE info.y.size = H /\ info.y.offset * V = 0
      <3> DEFINE c == info.y.offset * V
      <3>1. c \in Nat /\ c + info.y.size <= H
        BY <1>4, <1>6, <2>1, Products
      <3>2. info.y.size >= H
        BY <1>5 DEF H
      <3> HIDE DEF c
      <3>3. H \in Nat /\ info.y.size \in Nat
        BY <1>4, <1>6
      <3>4. info.y.size = H /\ c = 0
        BY ONLY <3>1, <3>2, <3>3
      <3> QED
        BY <3>4 DEF c
    <2>2. ASSUME ~higher PROVE info.y.offset = 0
      <3>1. 0 < info.y.offset => 0 * V < info.y.offset * V
        BY <1>4, <1>6, Cancel
      <3> QED
        BY <1>4, <1>6, <2>1, <2>2, <3>1
    <2> QED
      BY <1>5, <1>a, <2>1, <2>2
  <1>13. q[2] < B \/ ~higher
    <2>1. CASE higher
      <3>1. ExtendedIs(H, info.y.size, V, v, info.y.offset, q[2])
        BY <1>4, <1>5, <1>6, <1>7, <1>a, <2>1, ExtendedAxis, Zenon
      <3> QED
        BY <1>5, <1>a, <3>1, Zenon DEF ExtendedIs
    <2> QED
      BY <2>1
  <1>14. q[2] + M < HeightInBlocks(dest, i)
    <2>1. CASE higher
      <3>1. ExtendedIs(H, info.y.size, V, v, info.y.offset, q[2])
        BY <1>4, <1>5, <1>6, <1>7, <1>a, <2>1, ExtendedAxis, Zenon
      <3> QED
        BY <1>5, <1>a, <3>1, Zenon DEF ExtendedIs
    <2>2. CASE ~higher
      BY <1>5, <1>7, <1>8, <1>12, <2>2
    <2> QED
      BY <2>1, <2>2
  <1>15. /\ WidthInBlocks(dest, i) \in Nat /\ HeightInBlocks(dest, i) \in Nat
    <2>1. info.x.size * h \in Nat /\ info.y.size * v \in Nat
      BY <1>5, <1>6, Products
    <2> QED
      BY <1>4, <1>5, <2>1, BelowCeil
  <1>16. z \in Visible(dest, i) /\ z[1] = q[1] + N /\ z[2] = q[2] + M
    BY <1>7, <1>10, <1>11, <1>14, <1>15 DEF Visible, Span
  <1> HIDE DEF z
  <1>17. ASSUME NEW p \in Visible(dest, i)
         PROVE  /\ p[1] \in Nat /\ p[2] \in Nat /\ p = <<p[1], p[2]>>
                /\ blocks[i][p] =
                      IF (p[1] < N \/ p[1] >= A + N) \/ (higher /\ (p[2] < M \/ p[2] >= B + M))
                      THEN Zero ELSE Verbatim(p[1] - N, p[2] - M)
    <2>1. /\ p[1] \in Nat /\ p[2] \in Nat /\ p = <<p[1], p[2]>>
      BY DEF Visible, Span
    <2>2. blocks[i][p] = do_crop_ext(g, p[1], p[2], TRUE, higher)
      <3>1. blocks[i][p] = Taken(source, job, info, dest, i, p[1], p[2])
        BY ResultBlocks
      <3>2. info.x.size > source.width
        BY <1>5
      <3>3. (info.x.size > source.width) = TRUE
        BY <3>2
      <3>4. Taken(source, job, info, dest, i, p[1], p[2])
               = do_crop_ext(g, p[1], p[2], info.x.size > source.width, higher)
        BY <3>2 DEF Taken, g, H
      <3> QED
        BY <3>1, <3>3, <3>4, Zenon
    <2>3. /\ First(p[2], v) < M <=> p[2] < M
          /\ First(p[2], v) >= B + M <=> p[2] >= B + M
      <3> DEFINE w == H \div V
                 o == info.y.offset
      <3>1. w \in Nat /\ o \in Nat /\ w + o \in Nat
        BY <1>4, <1>6, Quotient
      <3> HIDE DEF w, o, First
      <3>2. (w + o) * v = w * v + o * v /\ o * v \in Nat /\ w * v \in Nat
        BY <1>5, <3>1, Products
      <3>3. /\ o * v <= First(p[2], v) <=> o * v <= p[2]
            /\ First(p[2], v) < (w + o) * v <=> p[2] < (w + o) * v
        BY <1>5, <2>1, <3>1, StripBefore
      <3>4. First(p[2], v) \in Nat
        BY <1>5, <2>1, Strip
      <3>5. M = o * v /\ B = w * v
        BY <1>a DEF w, o
      <3> QED
        BY <2>1, <3>2, <3>3, <3>4, <3>5
    <2> HIDE DEF higher, First
    <2>4. higher \/ (~higher /\ p[2] + M = p[2] - M)
      <3>1. ~higher => M = 0
        BY <1>12
      <3> QED
        BY <2>1, <3>1
    <2>5. do_crop_ext(g, p[1], p[2], TRUE, higher) =
             IF (p[1] < N \/ p[1] >= A + N)
                \/ (higher /\ (First(p[2], v) < M \/ First(p[2], v) >= B + M))
             THEN Zero
             ELSE Verbatim(p[1] - N, IF higher THEN p[2] - M ELSE p[2] + M)
      BY <1>9, Zenon DEF do_crop_ext
    <2> QED
      BY <2>1, <2>2, <2>3, <2>4, <2>5
  <1>18. places = {z}
    <2>1. z \in places
      <3>1. blocks[i][z] = Verbatim(q[1], q[2])
        <4>1. blocks[i][z] =
                 IF (z[1] < N \/ z[1] >= A + N) \/ (higher /\ (z[2] < M \/ z[2] >= B + M))
                 THEN Zero ELSE Verbatim(z[1] - N, z[2] - M)
          BY <1>16, <1>17, Zenon
        <4>2. ~((z[1] < N \/ z[1] >= A + N) \/ (higher /\ (z[2] < M \/ z[2] >= B + M)))
          BY <1>7, <1>10, <1>11, <1>13, <1>16
        <4>3. z[1] - N = q[1] /\ z[2] - M = q[2]
          BY <1>7, <1>10, <1>16
        <4> QED
          BY <4>1, <4>2, <4>3, Zenon
      <3>2. Verbatim(q[1], q[2]) # Zero /\ Verbatim(q[1], q[2]).x = q[1]
            /\ Verbatim(q[1], q[2]).y = q[2]
        <4>1. Verbatim(q[1], q[2]).x = q[1] /\ Verbatim(q[1], q[2]).y = q[2]
              /\ Zero.x = -1
          BY DEF Verbatim, Block, Zero
        <4> QED
          BY <1>7, <4>1
      <3> QED
        BY <1>7, <1>16, <3>1, <3>2, Zenon
    <2>2. ASSUME NEW p \in places PROVE p = z
      <3>1. p \in Visible(dest, i) /\ blocks[i][p] # Zero
            /\ <<blocks[i][p].x, blocks[i][p].y>> = q
        OBVIOUS
      <3> HIDE DEF places
      <3>2. /\ p[1] \in Nat /\ p[2] \in Nat /\ p = <<p[1], p[2]>>
            /\ blocks[i][p] = Verbatim(p[1] - N, p[2] - M)
        <4>1. /\ p[1] \in Nat /\ p[2] \in Nat /\ p = <<p[1], p[2]>>
              /\ blocks[i][p] =
                    IF (p[1] < N \/ p[1] >= A + N) \/ (higher /\ (p[2] < M \/ p[2] >= B + M))
                    THEN Zero ELSE Verbatim(p[1] - N, p[2] - M)
          BY <1>17, <3>1, Zenon
        <4> QED
          BY <3>1, <4>1, Zenon
      <3>3. blocks[i][p].x = p[1] - N /\ blocks[i][p].y = p[2] - M
        BY <3>2 DEF Verbatim, Block
      <3>4. q[1] = p[1] - N /\ q[2] = p[2] - M
        BY <3>1, <3>3
      <3>5. p[1] = q[1] + N /\ p[2] = q[2] + M
        BY <1>10, <3>2, <3>4
      <3> QED
        BY <3>2, <3>5, Zenon DEF z
    <2> QED
      BY <2>1, <2>2, Zenon
  <1> QED
    BY <1>18, FS_Singleton

\* What a crop says of an axis: its corner lies in the iMCU that the window begins
\* with, and the window ends where what was asked for ends.
CropAxis(spec, S, r, U) ==
    /\ r.offset * U <= CropOffset(spec, S)
    /\ CropOffset(spec, S) < (r.offset + 1) * U
    /\ spec.set # "force" /\ r.size <= S =>
          CropOffset(spec, S) + CropLength(spec, S) = r.offset * U + r.size

CropWorkedOut(spec, S, U, o, c) ==
    /\ o * U <= CropOffset(spec, S) /\ CropOffset(spec, S) < (o + 1) * U
    /\ spec.set # "force" /\ c <= S => CropOffset(spec, S) + CropLength(spec, S) = o * U + c

LEMMA CropAxes ==
    ASSUME TransformInv, phase = "done", job.crop, job.transform # "wipe", ~job.trim
    PROVE  /\ CropAxis(job.x, Across(source, job), info.x, IMCUAcross(source, job))
           /\ CropAxis(job.y, Down(source, job), info.y, IMCUDown(source, job))
  <1> DEFINE SA == Across(source, job)
             SD == Down(source, job)
             UA == IMCUAcross(source, job)
             UD == IMCUDown(source, job)
             t == job.transform
             tx == job.trim /\ t \in TrimsRight
             ty == job.trim /\ t \in TrimsBottom
  <1>1. /\ Fits(source, job) /\ info = Request(source, job)
    BY InvFits
  <1>2. /\ job.x \in CropSpecs /\ job.y \in CropSpecs
        /\ SA \in Nat \ {0} /\ SD \in Nat \ {0} /\ UA \in Nat \ {0} /\ UD \in Nat \ {0}
    BY <1>1, Units, Types DEF Fits
  <1>3. ~BadCrop(job.x, SA, t) /\ ~BadCrop(job.y, SD, t)
    BY <1>1 DEF Fits, CropRefused
  <1>4. /\ info.x = RequestedSize(job.crop, job.x, SA, UA, t, tx)
        /\ info.y = RequestedSize(job.crop, job.y, SD, UD, t, ty)
    BY <1>1 DEF Request
  <1>5. ~tx /\ ~ty
    OBVIOUS
  <1> HIDE DEF SA, SD, UA, UD, t, tx, ty
  <1>6. /\ info.x.offset = CropOffset(job.x, SA) \div UA
        /\ info.x.size = CroppedSize(job.x, SA, UA)
        /\ info.y.offset = CropOffset(job.y, SD) \div UD
        /\ info.y.size = CroppedSize(job.y, SD, UD)
    BY <1>4, <1>5 DEF RequestedSize, t
  <1>7. \A spec \in CropSpecs, S \in Nat \ {0}, U \in Nat \ {0} :
            ~BadCrop(spec, S, t) =>
                CropWorkedOut(spec, S, U, CropOffset(spec, S) \div U, CroppedSize(spec, S, U))
    BY CroppedFits DEF CropWorkedOut
  <1>8. CropAxis(job.x, SA, info.x, UA) /\ CropAxis(job.y, SD, info.y, UD)
    <2>1. /\ CropWorkedOut(job.x, SA, UA, info.x.offset, info.x.size)
          /\ CropWorkedOut(job.y, SD, UD, info.y.offset, info.y.size)
      BY <1>2, <1>3, <1>6, <1>7, Zenon
    <2> QED
      BY <2>1, Zenon DEF CropAxis, CropWorkedOut
  <1> QED
    BY <1>8 DEF SA, SD, UA, UD

\* A crop is a window of the whole image, turned, that begins at the iMCU of the
\* first sample asked for and ends with the last one; a wipe makes zero the iMCUs it
\* has to touch and no others; an extended image holds every block of the source's
\* whole iMCUs in one place (jtransform_request_workspace, do_crop, do_crop_ext and
\* do_wipe, transupp.c:988-1230, 79-225).
THEOREM TransformCrops == Spec => []CropsExact
  <1> SUFFICES ASSUME TransformInv PROVE CropsExact
    BY TransformInvariant, PTL
  <1>1. ASSUME Done
        PROVE  /\ job \in Options /\ DOMAIN blocks = DOMAIN dest.comps
               /\ job.transform \in Turns \cup {"none", "wipe"}
               /\ job.force_grayscale \in BOOLEAN
    <2>1. Fits(source, job) /\ blocks = Execute(source, Original(source), job, info, dest)
      BY <1>1, InvFits DEF Done
    <2> QED
      BY <2>1 DEF Fits, Execute, Options
  <1>2. CropIsWindow
    <2>1. ASSUME Done, job.crop, job.transform # "wipe", ~job.trim, ~job.force_grayscale,
                 dest.width <= Across(source, job), dest.height <= Down(source, job),
                 NEW i \in DOMAIN blocks, NEW p \in Visible(dest, i)
          PROVE  blocks[i][p] = Apply(Source, job.transform).blocks[i]
                                   [<<p[1] + info.x.offset * dest.comps[i].h,
                                      p[2] + info.y.offset * dest.comps[i].v>>]
      <3>1. job.transform \in Turns \cup {"none"} /\ job.force_grayscale = FALSE
            /\ i \in DOMAIN dest.comps
        BY <1>1, <2>1
      <3> QED
        BY <2>1, <3>1, CropWindow DEF Done
    <2>2. ASSUME Done, job.crop, job.transform # "wipe", ~job.trim,
                 NEW a \in {[s |-> job.x, size |-> Across(source, job), r |-> info.x,
                             u |-> IMCUAcross(source, job)],
                            [s |-> job.y, size |-> Down(source, job), r |-> info.y,
                             u |-> IMCUDown(source, job)]}
          PROVE  CropAxis(a.s, a.size, a.r, a.u)
      BY <2>2, CropAxes DEF Done
    <2> QED
      BY <2>1, <2>2, Zenon DEF CropIsWindow, CropAxis
  <1>3. ZeroOnlyOutside
    <2>1. ASSUME Done, job.transform = "wipe", NEW i \in DOMAIN blocks,
                 NEW p \in Visible(dest, i),
                 NEW x, x = CropOffset(job.x, source.width),
                 NEW y, y = CropOffset(job.y, source.height)
          PROVE  blocks[i][p] = Zero <=>
                    /\ (p[1] \div dest.comps[i].h) * Unit.w
                          < x + CropLength(job.x, source.width)
                    /\ (p[1] \div dest.comps[i].h + 1) * Unit.w > x
                    /\ (p[2] \div dest.comps[i].v) * Unit.h
                          < y + CropLength(job.y, source.height)
                    /\ (p[2] \div dest.comps[i].v + 1) * Unit.h > y
      <3>1. i \in DOMAIN dest.comps
        BY <1>1, <2>1
      <3> QED
        BY <2>1, <3>1, WipesOnly DEF Done
    <2>2. ASSUME Done, job.transform = "none", dest.width > source.width,
                 dest.height >= source.height, NEW i \in DOMAIN blocks,
                 NEW q \in Visible(source, i),
                 (q[1] \div dest.comps[i].h + 1) * Unit.w <= source.width,
                 (q[2] \div dest.comps[i].v + 1) * Unit.h <= source.height
          PROVE  Cardinality({p \in Visible(dest, i) :
                     blocks[i][p] # Zero /\ <<blocks[i][p].x, blocks[i][p].y>> = q}) = 1
      <3>1. i \in DOMAIN dest.comps
        BY <1>1, <2>2
      <3> QED
        BY <2>2, <3>1, ExtendsOnce DEF Done
    <2> QED
      BY <2>1, <2>2, Zenon DEF ZeroOnlyOutside
  <1> QED
    BY <1>2, <1>3 DEF CropsExact
=============================================================================
