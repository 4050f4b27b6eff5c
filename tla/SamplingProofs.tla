---------------------------- MODULE SamplingProofs ----------------------------
(***************************************************************************)
(* Proofs about the arithmetic of samples, for every number and not only   *)
(* for those that come up in the images TLC is given.                      *)
(*                                                                         *)
(* First, what the shortcuts of jidctint.c, the table of limits and the    *)
(* quantization of jcdctmgr.c do (SampleArithmetic).                       *)
(*                                                                         *)
(* Then, what the methods of jcsample.c do (Sampling): every sample that a *)
(* method gives is the rounded mean of the box of pixels it stands for,    *)
(* with smoothing of the smoothed pixels, where the picture goes on beyond *)
(* its edges.  MethodNear says so of the method a component has.  The sum  *)
(* over a box is one over a finite set; what holds of such sums is proved  *)
(* by induction over the number of members, stated with sets of numbers    *)
(* and of subsets (Numbers, BySubsets, ByMembers).                         *)
(***************************************************************************)
EXTENDS Sampling, FiniteSetTheorems, WellFoundedInduction, TLAPS

-----------------------------------------------------------------------------
(* Shortcuts, limits and quantization. *)

\* A column without AC terms: the weight of the DC term is 8192 in every row of
\* every table, so the full column pass gives what the shortcut stores, d << 2.
THEOREM ColumnShortcutExact ==
    ASSUME NEW d \in Int
    PROVE  Descale(8192 * d, 2048) = d * 4
BY DEF Descale

\* A row without AC terms: shifting by 5 bits rounds as shifting 8192 d by 18 does.
THEOREM RowShortcutExact ==
    ASSUME NEW d \in Int
    PROVE  Descale(8192 * d, 262144) = Descale(d, 32)
BY DEF Descale

\* The 1024 entries that prepare_range_limit_table fills cut off at 0 and 255 what
\* lies 512 around the centre; the mask makes of anything else some entry.
THEOREM RangeLimitClamps ==
    ASSUME NEW x \in Int
    PROVE  /\ RangeLimit(x) \in 0..MAXJSAMPLE
           /\ x \in -512..511 =>
                 RangeLimit(x) = IF x < -CENTERJSAMPLE THEN 0
                                 ELSE IF x > MAXJSAMPLE - CENTERJSAMPLE THEN MAXJSAMPLE
                                 ELSE x + CENTERJSAMPLE
<1>  DEFINE i == x % 1024
<1>1. i \in 0..1023
  OBVIOUS
<1>2. RangeLimit(x) = IF i < 128 THEN i + 128
                      ELSE IF i < 512 THEN 255
                      ELSE IF i < 896 THEN 0 ELSE i - 896
  BY <1>1 DEF RangeLimit, MAXJSAMPLE, CENTERJSAMPLE
<1>3. x \in -512..511 => i = IF x < 0 THEN x + 1024 ELSE x
  OBVIOUS
<1>4. QED
  BY <1>1, <1>2, <1>3 DEF MAXJSAMPLE, CENTERJSAMPLE

\* The quotient of a division, as SMT can use it.
LEMMA QuotientOf ==
    ASSUME NEW a \in Nat, NEW b \in Nat \ {0}
    PROVE  /\ a \div b \in Nat
           /\ (a \div b) * b <= a
           /\ a < (a \div b) * b + b
OBVIOUS

\* forward_DCT rounds to the nearest multiple of the divisor, on both sides of zero:
\* what comes back is at most half a divisor away from what was quantized.
THEOREM QuantizeNearest ==
    ASSUME NEW temp \in Int, NEW qval \in Nat \ {0}
    PROVE  /\ Quantize(temp, qval) \in Int
           /\ 2 * (Quantize(temp, qval) * qval - temp) <= qval
           /\ 2 * (temp - Quantize(temp, qval) * qval) <= qval
<1>  DEFINE half == qval \div 2
<1>1. half \in Nat /\ 2 * half <= qval /\ qval <= 2 * half + 1
  OBVIOUS
<1>2. ASSUME NEW a \in Nat
      PROVE  /\ DivideBy(a + half, qval) \in Nat
             /\ 2 * (DivideBy(a + half, qval) * qval - a) <= qval
             /\ 2 * (a - DivideBy(a + half, qval) * qval) <= qval
  <2>  HIDE DEF half
  <2>1. CASE a + half >= qval
    <3>  DEFINE p == (a + half) \div qval
    <3>1. p \in Nat /\ p * qval <= a + half /\ a + half < p * qval + qval
      BY <1>1, QuotientOf
    <3>2. DivideBy(a + half, qval) = p
      BY <2>1 DEF DivideBy
    <3>  DEFINE m == p * qval
    <3>3. m \in Int
      BY <3>1
    <3>  HIDE DEF p, m
    <3>4. m <= a + half /\ a + half < m + qval
      BY <3>1 DEF m
    <3>5. 2 * (m - a) <= qval /\ 2 * (a - m) <= qval
      BY <1>1, <3>3, <3>4
    <3>6. QED
      BY <3>1, <3>2, <3>5 DEF m
  <2>2. CASE ~(a + half >= qval)
    <3>1. DivideBy(a + half, qval) = 0
      BY <2>2 DEF DivideBy
    <3>2. QED
      BY <1>1, <2>2, <3>1
  <2>3. QED
    BY <2>1, <2>2
<1>3. CASE temp < 0
  <2>1. -temp \in Nat
    BY <1>3
  <2>  DEFINE p == DivideBy(-temp + half, qval)
  <2>2. p \in Nat /\ 2 * (p * qval - (-temp)) <= qval /\ 2 * (-temp - p * qval) <= qval
    BY <1>2, <2>1
  <2>3. Quantize(temp, qval) = -p
    BY <1>3 DEF Quantize
  <2>  DEFINE m == p * qval
  <2>  HIDE DEF p
  <2>4. m \in Int /\ (-p) * qval = -m
    BY <2>2
  <2>  HIDE DEF m
  <2>5. 2 * (m + temp) <= qval /\ 2 * (-temp - m) <= qval
    BY <2>2, <2>4 DEF m
  <2>6. QED
    BY <2>2, <2>3, <2>4, <2>5
<1>4. CASE temp >= 0
  <2>1. Quantize(temp, qval) = DivideBy(temp + half, qval)
    BY <1>4 DEF Quantize
  <2>2. QED
    BY <1>2, <1>4, <2>1
<1>5. QED
  BY <1>3, <1>4

\* Changing the sign of a frequency changes the sign of its coefficient: the flips
\* of transupp.c are those of the picture that was compressed.
THEOREM QuantizeOdd ==
    ASSUME NEW temp \in Int, NEW qval \in Nat \ {0}
    PROVE  Quantize(-temp, qval) = -Quantize(temp, qval)
<1>1. qval \div 2 \in Nat /\ qval \div 2 < qval
  OBVIOUS
<1>2. ASSUME NEW a \in Int, NEW b \in Nat \ {0}
      PROVE  DivideBy(a, b) \in Int
  <2>1. a >= b => a \div b \in Int
    BY QuotientOf
  <2>2. QED
    BY <2>1 DEF DivideBy
<1>3. CASE temp = 0
  BY <1>1, <1>3 DEF Quantize, DivideBy
<1>4. CASE temp > 0
  <2>1. Quantize(-temp, qval) = -DivideBy(temp + qval \div 2, qval)
    <3>1. -temp < 0 /\ -(-temp) = temp
      BY <1>4
    <3>2. QED
      BY <3>1 DEF Quantize
  <2>2. Quantize(temp, qval) = DivideBy(temp + qval \div 2, qval)
    BY <1>4 DEF Quantize
  <2>3. QED
    BY <2>1, <2>2
<1>5. CASE temp < 0
  <2>  DEFINE p == DivideBy(-temp + qval \div 2, qval)
  <2>1. Quantize(-temp, qval) = p
    BY <1>5 DEF Quantize
  <2>2. Quantize(temp, qval) = -p
    BY <1>5 DEF Quantize
  <2>3. p \in Int
    BY <1>1, <1>2
  <2>4. QED
    BY <2>1, <2>2, <2>3
<1>6. QED
  BY <1>3, <1>4, <1>5
-----------------------------------------------------------------------------
(* Sums over finite sets. *)

\* A set of numbers with 0 and with the successors of its members.
LEMMA Numbers ==
    ASSUME NEW T \in SUBSET Nat, 0 \in T, \A n \in T : n + 1 \in T
    PROVE  T = Nat
  <1> DEFINE Missing == Nat \ T
  <1> SUFFICES ASSUME Missing # {}
               PROVE  FALSE
    OBVIOUS
  <1>1. PICK n \in Missing : \A m \in Missing : ~(<<m, n>> \in OpToRel(<, Nat))
    BY WFMin, NatLessThanWellFounded
  <1>2. n \in Nat /\ n # 0 /\ n - 1 \in Nat /\ n - 1 < n /\ (n - 1) + 1 = n
    OBVIOUS
  <1>3. n - 1 \in T
    BY <1>1, <1>2 DEF OpToRel
  <1> QED
    BY <1>2, <1>3

Total(f, S) == MapThenSumSet(LAMBDA x : f[x], S)

AnyOf(s) == CHOOSE x \in s : TRUE
Added(f, D, g) ==
    [s \in D |-> IF s = {} THEN 0 ELSE f[AnyOf(s)] + g[s \ {AnyOf(s)}]]
Sums(f, S) == CHOOSE g : g = Added(f, SUBSET S, g)

LEMMA TotalIs ==
    ASSUME NEW f, NEW S
    PROVE  Total(f, S) = Sums(f, S)[S]
  BY DEF Total, MapThenSumSet, MapThenFoldSet, Sums, Added, AnyOf

LEMMA AnyOfIn ==
    ASSUME NEW s, s # {}
    PROVE  AnyOf(s) \in s
  BY DEF AnyOf

LEMMA OneLess ==
    ASSUME NEW s, IsFiniteSet(s), NEW x \in s
    PROVE  /\ IsFiniteSet(s \ {x})
           /\ Cardinality(s) \in Nat /\ Cardinality(s \ {x}) \in Nat
           /\ Cardinality(s \ {x}) = Cardinality(s) - 1
  BY FS_RemoveElement, FS_CardinalityType

UpToSize(S, n) == {s \in SUBSET S : Cardinality(s) <= n}

LEMMA SumsExist ==
    ASSUME NEW f, NEW S, IsFiniteSet(S)
    PROVE  Sums(f, S) = Added(f, SUBSET S, Sums(f, S))
  <1> DEFINE T == {n \in Nat : \E g : g = Added(f, UpToSize(S, n), g)}
  <1>1. \A s \in SUBSET S : IsFiniteSet(s) /\ Cardinality(s) \in Nat
                            /\ Cardinality(s) <= Cardinality(S)
    BY FS_Subset, FS_CardinalityType
  <1>2. 0 \in T
    <2> DEFINE g == [s \in UpToSize(S, 0) |-> 0]
    <2>1. \A s \in UpToSize(S, 0) : s = {}
      BY <1>1, FS_EmptySet DEF UpToSize
    <2>2. g = Added(f, UpToSize(S, 0), g)
      BY <2>1 DEF Added
    <2> QED
      BY <2>2, Zenon
  <1>3. ASSUME NEW n \in T
        PROVE  n + 1 \in T
    <2>1. n \in Nat /\ n + 1 \in Nat
      OBVIOUS
    <2>2. PICK g : g = Added(f, UpToSize(S, n), g)
      OBVIOUS
    <2> DEFINE h == Added(f, UpToSize(S, n + 1), g)
    <2>3. \A s \in UpToSize(S, n) : h[s] = g[s]
      <3>1. \A s \in UpToSize(S, n) : s \in UpToSize(S, n + 1)
        BY <1>1, <2>1 DEF UpToSize
      <3>2. ASSUME NEW s \in UpToSize(S, n)
            PROVE  h[s] = g[s]
        <4>1. h[s] = IF s = {} THEN 0 ELSE f[AnyOf(s)] + g[s \ {AnyOf(s)}]
          BY <3>1, <3>2, Zenon DEF Added
        <4>2. Added(f, UpToSize(S, n), g)[s]
                  = IF s = {} THEN 0 ELSE f[AnyOf(s)] + g[s \ {AnyOf(s)}]
          BY <3>2, Zenon DEF Added
        <4> QED
          BY <2>2, <4>1, <4>2, Zenon
      <3> QED
        BY <3>2, Zenon
    <2>4. ASSUME NEW s \in UpToSize(S, n + 1), s # {}
          PROVE  s \ {AnyOf(s)} \in UpToSize(S, n)
      <3>1. AnyOf(s) \in s /\ IsFiniteSet(s)
        BY <1>1, <2>4, AnyOfIn DEF UpToSize
      <3>2. Cardinality(s \ {AnyOf(s)}) = Cardinality(s) - 1 /\ Cardinality(s) \in Nat
        BY <3>1, OneLess
      <3> QED
        BY <2>1, <3>2 DEF UpToSize
    <2>5. h = Added(f, UpToSize(S, n + 1), h)
      <3>1. ASSUME NEW s \in UpToSize(S, n + 1)
            PROVE  (IF s = {} THEN 0 ELSE f[AnyOf(s)] + g[s \ {AnyOf(s)}])
                     = (IF s = {} THEN 0 ELSE f[AnyOf(s)] + h[s \ {AnyOf(s)}])
        BY <2>3, <2>4, Zenon
      <3> HIDE DEF h
      <3>2. Added(f, UpToSize(S, n + 1), g) = Added(f, UpToSize(S, n + 1), h)
        BY <3>1 DEF Added
      <3> QED
        BY <3>2 DEF h
    <2> QED
      BY <2>1, <2>5, Zenon
  <1>4. T = Nat
    BY <1>2, <1>3, Numbers
  <1>5. UpToSize(S, Cardinality(S)) = SUBSET S
    BY <1>1 DEF UpToSize
  <1>6. Cardinality(S) \in Nat
    BY FS_CardinalityType
  <1>7. \E g : g = Added(f, SUBSET S, g)
    BY <1>4, <1>5, <1>6
  <1> QED
    BY <1>7, Zenon DEF Sums

\* Induction over the subsets of a finite set.
LEMMA BySubsets ==
    ASSUME NEW S, IsFiniteSet(S), NEW P \in SUBSET (SUBSET S),
           \A s \in SUBSET S : (\A u \in SUBSET s : u # s => u \in P) => s \in P
    PROVE  P = SUBSET S
  <1> DEFINE Missing == (SUBSET S) \ P
  <1> SUFFICES ASSUME Missing # {}
               PROVE  FALSE
    OBVIOUS
  <1>1. Missing \subseteq FiniteSubsetsOf(S)
    BY FS_Subset DEF FiniteSubsetsOf
  <1>2. PICK s \in Missing : \A u \in Missing : ~(<<u, s>> \in StrictSubsetOrdering(S))
    <2>1. IsWellFoundedOn(StrictSubsetOrdering(S), FiniteSubsetsOf(S))
      BY FS_StrictSubsetOrderingWellFounded
    <2>2. Missing # {}
      OBVIOUS
    <2> HIDE DEF Missing
    <2> QED
      BY <1>1, <2>1, <2>2, WFMin
  <1>3. s \in SUBSET S /\ s \notin P
    <2>1. s \in Missing
      BY <1>2
    <2> QED
      BY <2>1
  <1>4. ASSUME NEW u \in SUBSET s, u # s
        PROVE  u \in P
    <2>1. u \in SUBSET S
      BY <1>3
    <2>2. <<u, s>> \in StrictSubsetOrdering(S)
      BY <1>3, <1>4, <2>1 DEF StrictSubsetOrdering
    <2> QED
      BY <1>2, <2>1, <2>2
  <1> QED
    BY <1>3, <1>4, Zenon

LEMMA SumsOf ==
    ASSUME NEW f, NEW S, IsFiniteSet(S), NEW s \in SUBSET S
    PROVE  /\ s = {} => Sums(f, S)[s] = 0
           /\ s # {} => Sums(f, S)[s] = f[AnyOf(s)] + Sums(f, S)[s \ {AnyOf(s)}]
  <1> DEFINE g == Sums(f, S)
  <1>1. g = Added(f, SUBSET S, g)
    BY SumsExist
  <1> HIDE DEF g
  <1>2. Added(f, SUBSET S, g)[s] = IF s = {} THEN 0 ELSE f[AnyOf(s)] + g[s \ {AnyOf(s)}]
    BY Zenon DEF Added
  <1>3. g[s] = IF s = {} THEN 0 ELSE f[AnyOf(s)] + g[s \ {AnyOf(s)}]
    BY <1>1, <1>2, Zenon
  <1>4. /\ s = {} => g[s] = 0
        /\ s # {} => g[s] = f[AnyOf(s)] + g[s \ {AnyOf(s)}]
    BY <1>3
  <1> QED
    BY <1>4 DEF g

LEMMA SumsOfPart ==
    ASSUME NEW f, NEW S, IsFiniteSet(S), NEW R \in SUBSET S
    PROVE  Sums(f, R)[R] = Sums(f, S)[R]
  <1> DEFINE P == {s \in SUBSET R : Sums(f, R)[s] = Sums(f, S)[s]}
  <1>1. IsFiniteSet(R)
    BY FS_Subset
  <1>2. ASSUME NEW s \in SUBSET R, \A u \in SUBSET s : u # s => u \in P
        PROVE  s \in P
    <2>1. s \in SUBSET S
      OBVIOUS
    <2>2. CASE s = {}
      <3>1. Sums(f, R)[s] = Sums(f, S)[s]
        BY <1>1, <2>1, <2>2, SumsOf, Zenon
      <3> QED
        BY <3>1
    <2>3. CASE s # {}
      <3> DEFINE u == s \ {AnyOf(s)}
      <3>1. u \in SUBSET s /\ u # s
        BY <2>3, AnyOfIn
      <3>2. Sums(f, R)[u] = Sums(f, S)[u]
        BY <1>2, <3>1
      <3>3. Sums(f, R)[s] = f[AnyOf(s)] + Sums(f, R)[u]
        BY <1>1, <2>3, SumsOf
      <3>4. Sums(f, S)[s] = f[AnyOf(s)] + Sums(f, S)[u]
        BY <2>1, <2>3, SumsOf
      <3>5. Sums(f, R)[s] = Sums(f, S)[s]
        BY <3>2, <3>3, <3>4, Zenon
      <3> QED
        BY <3>5
    <2> QED
      BY <2>2, <2>3
  <1>3. P = SUBSET R
    <2>1. P \in SUBSET (SUBSET R)
      OBVIOUS
    <2> HIDE DEF P
    <2> QED
      BY <1>1, <1>2, <2>1, BySubsets, Zenon
  <1>4. R \in P
    BY <1>3
  <1> QED
    BY <1>4

LEMMA TotalEmpty ==
    ASSUME NEW f
    PROVE  Total(f, {}) = 0
  <1>1. Total(f, {}) = Sums(f, {})[{}]
    BY TotalIs, Zenon
  <1>2. Sums(f, {})[{}] = 0
    BY SumsOf, FS_EmptySet, Zenon
  <1> QED
    BY <1>1, <1>2, Zenon

LEMMA TotalAny ==
    ASSUME NEW f, NEW S, IsFiniteSet(S), S # {}
    PROVE  Total(f, S) = f[AnyOf(S)] + Total(f, S \ {AnyOf(S)})
  <1> DEFINE R == S \ {AnyOf(S)}
  <1>1. R \in SUBSET S
    OBVIOUS
  <1>2. Sums(f, S)[S] = f[AnyOf(S)] + Sums(f, S)[R]
    <2>1. S \in SUBSET S
      OBVIOUS
    <2> QED
      BY <2>1, SumsOf
  <1>3. Sums(f, R)[R] = Sums(f, S)[R]
    BY <1>1, SumsOfPart, Zenon
  <1> QED
    BY <1>2, <1>3, TotalIs, Zenon

\* f has numbers for the members of S.
Numbered(f, S) == \A x \in S : f[x] \in Int

LEMMA TotalInt ==
    ASSUME NEW f, NEW S, IsFiniteSet(S), Numbered(f, S)
    PROVE  \A s \in SUBSET S : IsFiniteSet(s) /\ Total(f, s) \in Int
  <1> DEFINE P == {s \in SUBSET S : Total(f, s) \in Int}
  <1>1. \A s \in SUBSET S : IsFiniteSet(s)
    BY FS_Subset
  <1>2. ASSUME NEW s \in SUBSET S, \A u \in SUBSET s : u # s => u \in P
        PROVE  s \in P
    <2>1. CASE s = {}
      <3>1. Total(f, s) = 0
        BY <2>1, TotalEmpty, Zenon
      <3> QED
        BY <3>1
    <2>2. CASE s # {}
      <3> DEFINE a == AnyOf(s)
                 u == s \ {a}
      <3>1. a \in s /\ u \in SUBSET s /\ u # s
        BY <2>2, AnyOfIn
      <3>2. Total(f, u) \in Int /\ f[a] \in Int
        BY <1>2, <3>1 DEF Numbered
      <3>3. Total(f, s) = f[a] + Total(f, u)
        BY <1>1, <2>2, TotalAny, Zenon
      <3> HIDE DEF a, u
      <3>4. Total(f, s) \in Int
        BY <3>2, <3>3
      <3> QED
        BY <3>4
    <2> QED
      BY <2>1, <2>2
  <1>3. P = SUBSET S
    <2>1. P \in SUBSET (SUBSET S)
      OBVIOUS
    <2> HIDE DEF P
    <2> QED
      BY <1>2, <2>1, BySubsets, Zenon
  <1> QED
    BY <1>1, <1>3

\* Any member may be taken out first.
LEMMA TotalWithout ==
    ASSUME NEW f, NEW S, IsFiniteSet(S), Numbered(f, S), NEW z \in S
    PROVE  Total(f, S) = f[z] + Total(f, S \ {z})
  <1> DEFINE Takes(s) == \A x \in s : Total(f, s) = f[x] + Total(f, s \ {x})
             P == {s \in SUBSET S : Takes(s)}
  <1>1. \A s \in SUBSET S : IsFiniteSet(s) /\ Total(f, s) \in Int
    BY TotalInt
  <1>2. ASSUME NEW s \in SUBSET S, \A u \in SUBSET s : u # s => u \in P
        PROVE  s \in P
    <2> SUFFICES ASSUME NEW x \in s
                 PROVE  Total(f, s) = f[x] + Total(f, s \ {x})
      OBVIOUS
    <2> DEFINE a == AnyOf(s)
               u == s \ {a}
               v == s \ {x}
               w == s \ {a, x}
    <2>1. a \in s
      BY AnyOfIn
    <2>2. Total(f, s) = f[a] + Total(f, u)
      BY <1>1, TotalAny, Zenon
    <2>3. CASE a = x
      BY <2>2, <2>3, Zenon
    <2>4. CASE a # x
      <3>1. /\ u \in SUBSET s /\ u # s /\ x \in u /\ w = u \ {x}
            /\ v \in SUBSET s /\ v # s /\ a \in v /\ w = v \ {a}
        BY <2>1, <2>4
      <3>2. Takes(u) /\ Takes(v)
        BY <1>2, <3>1
      <3>3. Total(f, u) = f[x] + Total(f, w) /\ Total(f, v) = f[a] + Total(f, w)
        BY <3>1, <3>2, Zenon
      <3>4. Total(f, w) \in Int /\ f[x] \in Int /\ f[a] \in Int
        BY <1>1, <2>1 DEF Numbered
      <3> HIDE DEF a, u, v, w
      <3>5. Total(f, s) = f[x] + Total(f, v)
        BY <2>2, <3>3, <3>4
      <3> QED
        BY <3>5 DEF v
    <2> QED
      BY <2>3, <2>4
  <1>3. P = SUBSET S
    <2>1. P \in SUBSET (SUBSET S)
      OBVIOUS
    <2> HIDE DEF P
    <2> QED
      BY <1>2, <2>1, BySubsets, Zenon
  <1>4. S \in P
    BY <1>3
  <1> QED
    BY <1>4

LEMMA TotalWith ==
    ASSUME NEW f, NEW S, IsFiniteSet(S), NEW z, z \notin S, Numbered(f, S \cup {z})
    PROVE  Total(f, S \cup {z}) = f[z] + Total(f, S)
  <1> DEFINE R == S \cup {z}
  <1>1. IsFiniteSet(R)
    BY FS_AddElement
  <1>2. z \in R /\ R \ {z} = S /\ Numbered(f, R)
    OBVIOUS
  <1> HIDE DEF R
  <1>3. Total(f, R) = f[z] + Total(f, R \ {z})
    BY <1>1, <1>2, TotalWithout
  <1> QED
    BY <1>2, <1>3 DEF R

\* The same induction, one member after the other.
LEMMA ByMembers ==
    ASSUME NEW S, IsFiniteSet(S), NEW P \in SUBSET (SUBSET S), {} \in P,
           \A u \in P : \A x \in S \ u : u \cup {x} \in P
    PROVE  S \in P
  <1>1. ASSUME NEW s \in SUBSET S, \A u \in SUBSET s : u # s => u \in P
        PROVE  s \in P
    <2>1. CASE s = {}
      BY <2>1
    <2>2. CASE s # {}
      <3>1. PICK x \in s : TRUE
        BY <2>2
      <3> DEFINE u == s \ {x}
      <3>2. u \in P
        BY <1>1, <3>1
      <3>3. x \in S \ u /\ u \cup {x} = s
        BY <3>1
      <3> HIDE DEF u
      <3>4. u \cup {x} \in P
        BY <3>2, <3>3
      <3> QED
        BY <3>3, <3>4
    <2> QED
      BY <2>1, <2>2
  <1>2. P = SUBSET S
    BY <1>1, BySubsets, Zenon
  <1> QED
    BY <1>2

LEMMA TotalSame ==
    ASSUME NEW f, NEW g, NEW S, IsFiniteSet(S), Numbered(f, S),
           \A x \in S : g[x] = f[x]
    PROVE  Total(g, S) = Total(f, S)
  <1> DEFINE P == {s \in SUBSET S : Total(g, s) = Total(f, s)}
  <1>1. {} \in P
    <2>1. Total(g, {}) = Total(f, {})
      BY TotalEmpty, Zenon
    <2> QED
      BY <2>1
  <1>2. ASSUME NEW u \in P, NEW x \in S \ u
        PROVE  u \cup {x} \in P
    <2>1. IsFiniteSet(u) /\ Numbered(f, u \cup {x}) /\ Numbered(g, u \cup {x})
      BY FS_Subset DEF Numbered
    <2>2. Total(f, u \cup {x}) = f[x] + Total(f, u)
      BY <2>1, TotalWith
    <2>3. Total(g, u \cup {x}) = g[x] + Total(g, u)
      BY <2>1, TotalWith
    <2>4. Total(g, u) = Total(f, u) /\ g[x] = f[x]
      OBVIOUS
    <2>5. Total(g, u \cup {x}) = Total(f, u \cup {x})
      BY <2>2, <2>3, <2>4, Zenon
    <2> QED
      BY <2>5
  <1>3. S \in P
    <2>1. P \in SUBSET (SUBSET S)
      OBVIOUS
    <2> HIDE DEF P
    <2> QED
      BY <1>1, <1>2, <2>1, ByMembers, Zenon
  <1> QED
    BY <1>3

\* Two sets without a common member.
LEMMA TotalUnion ==
    ASSUME NEW f, NEW R, NEW S, IsFiniteSet(R), IsFiniteSet(S), R \cap S = {},
           Numbered(f, R \cup S)
    PROVE  Total(f, R \cup S) = Total(f, R) + Total(f, S)
  <1> DEFINE P == {s \in SUBSET S : Total(f, R \cup s) = Total(f, R) + Total(f, s)}
  <1>1. IsFiniteSet(R \cup S)
    BY FS_Union
  <1>2. \A s \in SUBSET (R \cup S) : IsFiniteSet(s) /\ Total(f, s) \in Int
    BY <1>1, TotalInt
  <1>3. {} \in P
    <2>1. R \cup {} = R /\ Total(f, {}) = 0 /\ Total(f, R) \in Int
      BY <1>2, TotalEmpty
    <2>2. Total(f, R \cup {}) = Total(f, R) + Total(f, {})
      BY <2>1
    <2> QED
      BY <2>2
  <1>4. ASSUME NEW u \in P, NEW x \in S \ u
        PROVE  u \cup {x} \in P
    <2> DEFINE v == R \cup u
               w == R \cup (u \cup {x})
               t == u \cup {x}
    <2>1. /\ IsFiniteSet(u) /\ IsFiniteSet(v)
          /\ Total(f, u) \in Int /\ Total(f, R) \in Int /\ f[x] \in Int
      BY <1>2 DEF Numbered
    <2>2. x \notin u /\ x \notin v /\ w = v \cup {x}
      OBVIOUS
    <2>3. Numbered(f, u \cup {x}) /\ Numbered(f, v \cup {x})
      BY DEF Numbered
    <2>4. Total(f, t) = f[x] + Total(f, u)
      BY <2>1, <2>2, <2>3, TotalWith
    <2>5. Total(f, w) = f[x] + Total(f, v)
      BY <2>1, <2>2, <2>3, TotalWith
    <2>6. Total(f, v) = Total(f, R) + Total(f, u)
      OBVIOUS
    <2>7. t \in SUBSET S
      OBVIOUS
    <2> HIDE DEF v, w, t
    <2>8. Total(f, w) = Total(f, R) + Total(f, t)
      BY <2>1, <2>4, <2>5, <2>6
    <2> QED
      BY <2>7, <2>8 DEF w, t
  <1>5. S \in P
    <2>1. P \in SUBSET (SUBSET S)
      OBVIOUS
    <2> HIDE DEF P
    <2> QED
      BY <1>3, <1>4, <2>1, ByMembers, Zenon
  <1> QED
    BY <1>5

ImageOf(h, S) == {h[p] : p \in S}

\* The members renamed, no two of them alike.
MovedBy(f, g, h, S) ==
    /\ \A x \in S : f[h[x]] = g[x]
    /\ \A x, y \in S : h[x] = h[y] => x = y
SameTotal(f, T, g, S) ==
    IsFiniteSet(T) /\ Cardinality(T) = Cardinality(S) /\ Total(f, T) = Total(g, S)

LEMMA TotalMoved ==
    ASSUME NEW f, NEW g, NEW h, NEW S, IsFiniteSet(S), Numbered(g, S), MovedBy(f, g, h, S)
    PROVE  SameTotal(f, ImageOf(h, S), g, S)
  <1> USE DEF MovedBy, SameTotal
  <1> DEFINE Agrees(s) == /\ IsFiniteSet(ImageOf(h, s))
                          /\ Cardinality(ImageOf(h, s)) = Cardinality(s)
                          /\ Total(f, ImageOf(h, s)) = Total(g, s)
             P == {s \in SUBSET S : Agrees(s)}
  <1>1. {} \in P
    <2>1. ImageOf(h, {}) = {}
      BY DEF ImageOf
    <2>2. Agrees({})
      BY <2>1, TotalEmpty, FS_EmptySet
    <2> QED
      BY <2>2
  <1>2. ASSUME NEW u \in P, NEW x \in S \ u
        PROVE  u \cup {x} \in P
    <2> DEFINE i == ImageOf(h, u)
    <2>1. Agrees(u) /\ IsFiniteSet(u)
      BY FS_Subset
    <2>2. ImageOf(h, u \cup {x}) = i \cup {h[x]}
      BY DEF ImageOf
    <2>3. h[x] \notin i
      BY DEF ImageOf
    <2>4. Numbered(g, u \cup {x})
      BY DEF Numbered
    <2>5. Numbered(f, i \cup {h[x]})
      BY DEF Numbered, ImageOf
    <2>6. Total(g, u \cup {x}) = g[x] + Total(g, u)
      BY <2>1, <2>4, TotalWith
    <2>7. Total(f, i \cup {h[x]}) = f[h[x]] + Total(f, i)
      <3>1. IsFiniteSet(i)
        BY <2>1
      <3> HIDE DEF i
      <3> QED
        BY <2>3, <2>5, <3>1, TotalWith
    <2>8. /\ IsFiniteSet(i \cup {h[x]})
          /\ Cardinality(i \cup {h[x]}) = Cardinality(u) + 1
      <3>1. IsFiniteSet(i) /\ Cardinality(i) = Cardinality(u)
        BY <2>1
      <3> HIDE DEF i
      <3> QED
        BY <2>3, <3>1, FS_AddElement
    <2>9. Cardinality(u \cup {x}) = Cardinality(u) + 1
      BY <2>1, FS_AddElement
    <2>10. Agrees(u \cup {x})
      BY <2>1, <2>2, <2>6, <2>7, <2>8, <2>9
    <2> QED
      BY <2>10
  <1>3. S \in P
    <2>1. P \in SUBSET (SUBSET S)
      OBVIOUS
    <2> HIDE DEF P
    <2> QED
      BY <1>1, <1>2, <2>1, ByMembers, Zenon
  <1> QED
    BY <1>3

-----------------------------------------------------------------------------
(* Quotients and remainders. *)

LEMMA Divided ==
    ASSUME NEW a \in Int, NEW m \in Nat \ {0}
    PROVE  /\ a \div m \in Int /\ a % m \in 0..(m - 1)
           /\ a = (a \div m) * m + (a % m)
           /\ a >= 0 => a \div m >= 0
  <1>1. a \div m \in Int /\ a % m \in 0..(m - 1) /\ a = (a \div m) * m + (a % m)
    BY SMTT(30)
  <1>2. ASSUME a >= 0, a \div m <= -1
        PROVE  FALSE
    <2> DEFINE q == a \div m
    <2>1. q * m <= -m
      <3>1. q \in Int /\ q <= -1
        BY <1>1, <1>2
      <3> HIDE DEF q
      <3> QED
        BY <3>1, SMTT(30)
    <2>2. q * m \in Int
      BY <1>1
    <2>3. a = q * m + (a % m)
      BY <1>1
    <2> HIDE DEF q
    <2> QED
      BY <1>1, <1>2, <2>1, <2>2, <2>3
  <1> QED
    BY <1>1, <1>2

\* Both are the only numbers like that.
LEMMA DividedOnce ==
    ASSUME NEW m \in Nat \ {0}, NEW p \in Int, NEW q \in Int,
           NEW r \in 0..(m - 1), NEW s \in 0..(m - 1), p * m + r = q * m + s
    PROVE  p = q /\ r = s
  <1> DEFINE d == p - q
  <1>1. d \in Int /\ d * m = s - r
    <2>1. d * m = p * m - q * m /\ p * m \in Int /\ q * m \in Int
      BY SMTT(30)
    <2> HIDE DEF d
    <2>2. d * m = s - r
      BY <2>1
    <2> QED
      BY <2>2 DEF d
  <1> HIDE DEF d
  <1>2. ~(d >= 1)
    <2>1. d >= 1 => d * m >= m
      BY <1>1, SMTT(30)
    <2> QED
      BY <1>1, <2>1
  <1>3. ~(d <= -1)
    <2>1. d <= -1 => d * m <= -m
      BY <1>1, SMTT(30)
    <2> QED
      BY <1>1, <2>1
  <1>4. d = 0
    BY <1>1, <1>2, <1>3
  <1> QED
    BY <1>1, <1>4 DEF d

LEMMA DividedIs ==
    ASSUME NEW m \in Nat \ {0}, NEW q \in Int, NEW r \in 0..(m - 1)
    PROVE  (q * m + r) \div m = q /\ (q * m + r) % m = r
  <1> DEFINE a == q * m + r
  <1>1. a \in Int
    BY SMTT(30)
  <1> HIDE DEF a
  <1>2. a \div m \in Int /\ a % m \in 0..(m - 1) /\ a = (a \div m) * m + (a % m)
    BY <1>1, Divided
  <1>3. (a \div m) * m + (a % m) = q * m + r
    BY <1>2 DEF a
  <1>4. a \div m = q /\ a % m = r
    BY <1>2, <1>3, DividedOnce, Zenon
  <1> QED
    BY <1>4 DEF a

\* The place of number n on, in a buffer of m used round.
LEMMA RoundNext ==
    ASSUME NEW m \in Nat \ {0}, NEW w \in Int, NEW j \in Nat, (w % m) + j <= m
    PROVE  (w + j) % m = IF (w % m) + j = m THEN 0 ELSE (w % m) + j
  <1> DEFINE q == w \div m
             r == w % m
  <1>1. q \in Int /\ r \in 0..(m - 1) /\ w = q * m + r
    BY Divided
  <1> HIDE DEF q, r
  <1>2. CASE r + j = m
    <2>1. w + j = (q + 1) * m + 0
      <3>1. (q + 1) * m = q * m + m /\ q * m \in Int
        BY <1>1, SMTT(30)
      <3> QED
        BY <1>1, <1>2, <3>1
    <2>2. (w + j) % m = 0
      <3>1. q + 1 \in Int /\ 0 \in 0..(m - 1)
        BY <1>1
      <3> QED
        BY <2>1, <3>1, DividedIs
    <2> QED
      BY <1>2, <2>2 DEF r
  <1>3. CASE r + j # m
    <2>1. r + j \in 0..(m - 1)
      BY <1>1, <1>3 DEF r
    <2>2. w + j = q * m + (r + j)
      <3>1. q * m \in Int
        BY <1>1
      <3> QED
        BY <1>1, <3>1
    <2>3. (w + j) % m = r + j
      BY <1>1, <2>1, <2>2, DividedIs
    <2> QED
      BY <1>3, <2>3 DEF r
  <1> QED
    BY <1>2, <1>3

\* Numbers less than m apart have different places.
LEMMA RoundApart ==
    ASSUME NEW m \in Nat \ {0}, NEW a \in Int, NEW b \in Int, a < b, b - a < m
    PROVE  a % m # b % m
  <1>1. /\ a \div m \in Int /\ a % m \in 0..(m - 1) /\ a = (a \div m) * m + (a % m)
        /\ b \div m \in Int /\ b % m \in 0..(m - 1) /\ b = (b \div m) * m + (b % m)
    BY Divided
  <1> DEFINE p == a \div m
             q == b \div m
             d == q - p
  <1>2. SUFFICES ASSUME a % m = b % m
                 PROVE  FALSE
    OBVIOUS
  <1>3. d \in Int /\ d * m = b - a
    <2>1. p \in Int /\ q \in Int /\ a = p * m + (b % m) /\ b = q * m + (b % m)
      BY <1>1, <1>2
    <2> HIDE DEF p, q
    <2>2. d * m = q * m - p * m /\ p * m \in Int /\ q * m \in Int
      BY <2>1, SMTT(30)
    <2> HIDE DEF d
    <2>3. d * m = b - a
      BY <1>1, <2>1, <2>2
    <2> QED
      BY <2>1, <2>3 DEF d
  <1> HIDE DEF d
  <1>4. d >= 1 => d * m >= m
    BY <1>3, SMTT(30)
  <1>5. d <= 0 => d * m <= 0
    BY <1>3, SMTT(30)
  <1> QED
    BY <1>3, <1>4, <1>5

\* A place before and one on from it.
LEMMA RoundFrom ==
    ASSUME NEW m \in Nat \ {0}, NEW a \in Int, NEW j \in Int
    PROVE  ((a % m) + j) % m = (a + j) % m
  <1> DEFINE q == a \div m
             r == a % m
             b == r + j
             p == b \div m
             s == b % m
  <1>1. q \in Int /\ r \in 0..(m - 1) /\ a = q * m + r
    BY Divided
  <1> HIDE DEF q, r
  <1>2. b \in Int
    BY <1>1
  <1> HIDE DEF b
  <1>3. p \in Int /\ s \in 0..(m - 1) /\ b = p * m + s
    BY <1>2, Divided
  <1> HIDE DEF p, s
  <1>4. a + j = (q + p) * m + s
    <2>1. (q + p) * m = q * m + p * m /\ q * m \in Int /\ p * m \in Int
      BY <1>1, <1>3, SMTT(30)
    <2>2. r + j = p * m + s
      BY <1>3 DEF b
    <2> QED
      BY <1>1, <1>3, <2>1, <2>2
  <1>5. (a + j) % m = s
    <2>1. q + p \in Int
      BY <1>1, <1>3
    <2> QED
      BY <1>3, <1>4, <2>1, DividedIs
  <1> QED
    BY <1>5 DEF s, b, r

\* The groups of a buffer of three follow one another round.
LEMMA RoundGroups ==
    ASSUME NEW v \in Nat \ {0}, NEW g \in Nat
    PROVE  /\ 3 * v \in Nat \ {0}
           /\ (g * v) % (3 * v) \in Nat
           /\ ((g * v) % (3 * v)) + v <= 3 * v
           /\ ((g + 1) * v) % (3 * v)
                 = IF ((g * v) % (3 * v)) + v >= 3 * v THEN 0 ELSE ((g * v) % (3 * v)) + v
  <1> DEFINE m == 3 * v
             q == g \div 3
             r == g % 3
  <1>1. q \in Int /\ r \in 0..2 /\ g = q * 3 + r
    OBVIOUS
  <1>2. m \in Nat \ {0}
    OBVIOUS
  <1> HIDE DEF q, r
  <1>3. g * v = q * m + r * v
    <2>1. g * v = q * 3 * v + r * v /\ q * 3 * v = q * (3 * v)
      BY <1>1, SMTT(30)
    <2> QED
      BY <2>1
  <1>4. r * v \in 0..(m - 1) /\ r * v + v <= m
    <2>1. CASE r = 0
      BY <2>1
    <2>2. CASE r = 1
      BY <2>2
    <2>3. CASE r = 2
      BY <2>3
    <2> QED
      BY <1>1, <2>1, <2>2, <2>3
  <1> HIDE DEF m
  <1>5. (g * v) % m = r * v
    <2> DEFINE s == r * v
    <2>1. s \in 0..(m - 1) /\ g * v = q * m + s
      BY <1>3, <1>4
    <2> HIDE DEF s
    <2>2. (q * m + s) % m = s
      BY <1>1, <1>2, <2>1, DividedIs
    <2> QED
      BY <2>1, <2>2 DEF s
  <1>6. (g + 1) * v = g * v + v /\ g * v \in Int
    BY SMTT(30)
  <1>7. (g * v + v) % m = IF ((g * v) % m) + v = m THEN 0 ELSE ((g * v) % m) + v
    <2> DEFINE w == g * v
    <2>1. w \in Int /\ (w % m) + v <= m
      BY <1>4, <1>5, <1>6
    <2> HIDE DEF w
    <2>2. (w + v) % m = IF (w % m) + v = m THEN 0 ELSE (w % m) + v
      BY <1>2, <2>1, RoundNext
    <2> QED
      BY <2>2 DEF w
  <1>8. /\ (g * v) % m \in Nat /\ ((g * v) % m) + v <= m
        /\ ((g + 1) * v) % m = IF ((g * v) % m) + v >= m THEN 0 ELSE ((g * v) % m) + v
    <2> DEFINE s == (g * v) % m
    <2>1. s \in Nat /\ s + v <= m
      BY <1>4, <1>5
    <2>2. ((g + 1) * v) % m = IF s + v = m THEN 0 ELSE s + v
      BY <1>6, <1>7
    <2> HIDE DEF s
    <2>3. ((g + 1) * v) % m = IF s + v >= m THEN 0 ELSE s + v
      BY <1>2, <2>1, <2>2
    <2> QED
      BY <2>1, <2>3 DEF s
  <1> QED
    BY <1>2, <1>8 DEF m


\* A factor that divides another.
LEMMA Quotient ==
    ASSUME NEW m \in Nat \ {0}, NEW v \in Nat \ {0}, m % v = 0
    PROVE  m \div v \in Nat \ {0} /\ m = v * (m \div v)
  <1> DEFINE e == m \div v
  <1>1. e \in Nat /\ m = e * v
    BY Divided
  <1> HIDE DEF e
  <1>2. e # 0 /\ e * v = v * e
    BY <1>1, SMTT(30)
  <1> QED
    BY <1>1, <1>2 DEF e

-----------------------------------------------------------------------------
(* The rounded mean. *)

Samples == 0..MAXJSAMPLE

\* A sum that is a sample stays as it is in a cast.
LEMMA CastIs ==
    ASSUME NEW v \in Samples
    PROVE  Sample(v) = v
  BY DEF Samples, MAXJSAMPLE, Sample

\* s is the mean of n numbers whose sum is t, up to a half.
IsMean(n, s, t) ==
    /\ s \in Int /\ t \in Int
    /\ 2 * (n * s) - 2 * t <= n /\ 2 * t - 2 * (n * s) <= n

\* Whatever is added for the rounding, as long as it is about half of n.
LEMMA RoundedMean ==
    ASSUME NEW n \in Nat \ {0}, NEW t \in Nat, t <= MAXJSAMPLE * n,
           NEW d \in Nat, n <= 2 * d + 2, 2 * d <= n
    PROVE  (t + d) \div n \in Samples /\ IsMean(n, (t + d) \div n, t)
  <1> DEFINE s == (t + d) \div n
             r == (t + d) % n
             p == s * n
  <1>1. s \in Int /\ r \in 0..(n - 1) /\ t + d = p + r /\ s >= 0
    <2> DEFINE a == t + d
    <2>1. a \in Int /\ a >= 0
      OBVIOUS
    <2> HIDE DEF a
    <2>2. a \div n \in Int /\ a % n \in 0..(n - 1) /\ a = (a \div n) * n + (a % n)
          /\ a \div n >= 0
      BY <2>1, Divided
    <2> QED
      BY <2>2 DEF a
  <1>2. p = n * s /\ p \in Int
    BY <1>1
  <1>3. s <= MAXJSAMPLE
    <2> SUFFICES ASSUME s >= MAXJSAMPLE + 1
                 PROVE  FALSE
      BY <1>1 DEF MAXJSAMPLE
    <2>1. p >= (MAXJSAMPLE + 1) * n
      <3> HIDE DEF s
      <3> QED
        BY <1>1, SMTT(30) DEF MAXJSAMPLE
    <2> HIDE DEF s, p, r
    <2> QED
      BY <1>1, <1>2, <2>1 DEF MAXJSAMPLE
  <1>4. s \in Samples
    BY <1>1, <1>3 DEF Samples, MAXJSAMPLE
  <1>5. IsMean(n, s, t)
    <2> HIDE DEF s, p, r
    <2>1. 2 * p - 2 * t <= n /\ 2 * t - 2 * p <= n
      BY <1>1, <1>2
    <2> QED
      BY <1>1, <1>2, <2>1 DEF IsMean
  <1> QED
    BY <1>4, <1>5

LEMMA TotalBounds ==
    ASSUME NEW f, NEW S, IsFiniteSet(S), NEW b \in Nat, \A x \in S : f[x] \in 0..b
    PROVE  /\ Cardinality(S) \in Nat
           /\ Total(f, S) \in Nat /\ Total(f, S) <= b * Cardinality(S)
  <1> DEFINE Bounded(s) == Total(f, s) \in Nat /\ Total(f, s) <= b * Cardinality(s)
             P == {s \in SUBSET S : Bounded(s)}
  <1>1. {} \in P
    <2>1. Total(f, {}) = 0 /\ Cardinality({}) = 0
      BY TotalEmpty, FS_EmptySet
    <2>2. Bounded({})
      BY <2>1
    <2> QED
      BY <2>2
  <1>2. ASSUME NEW u \in P, NEW x \in S \ u
        PROVE  u \cup {x} \in P
    <2>1. IsFiniteSet(u) /\ Bounded(u) /\ f[x] \in 0..b /\ Numbered(f, u \cup {x})
      BY FS_Subset DEF Numbered
    <2>2. Total(f, u \cup {x}) = f[x] + Total(f, u)
      BY <2>1, TotalWith
    <2>3. Cardinality(u) \in Nat /\ Cardinality(u \cup {x}) = Cardinality(u) + 1
      BY <2>1, FS_AddElement, FS_CardinalityType
    <2>4. Bounded(u \cup {x})
      <3> DEFINE c == Cardinality(u)
                 p == b * c
                 t == Total(f, u)
                 v == f[x]
      <3>1. p \in Nat /\ b * (c + 1) = p + b
        <4>1. c \in Nat
          BY <2>3
        <4> HIDE DEF c
        <4> QED
          BY <4>1
      <3>2. t \in Nat /\ t <= p /\ v \in 0..b
        BY <2>1
      <3>3. v + t \in Nat /\ v + t <= p + b
        <4> HIDE DEF c, p, t, v
        <4> QED
          BY <3>1, <3>2
      <3> HIDE DEF p
      <3> QED
        BY <2>2, <2>3, <3>1, <3>3
    <2> QED
      BY <2>4
  <1>3. S \in P
    <2>1. P \in SUBSET (SUBSET S)
      OBVIOUS
    <2> HIDE DEF P
    <2> QED
      BY <1>1, <1>2, <2>1, ByMembers, Zenon
  <1> QED
    BY <1>3, FS_CardinalityType

LEMMA TotalOne ==
    ASSUME NEW f, NEW a, f[a] \in Int
    PROVE  /\ IsFiniteSet({a}) /\ Cardinality({a}) = 1
           /\ Total(f, {a}) = f[a]
  <1>1. IsFiniteSet({}) /\ Total(f, {}) = 0 /\ a \notin {} /\ {} \cup {a} = {a}
    BY FS_EmptySet, TotalEmpty
  <1>2. Numbered(f, {} \cup {a})
    BY DEF Numbered
  <1>3. Total(f, {} \cup {a}) = f[a] + Total(f, {})
    BY <1>1, <1>2, TotalWith
  <1>4. Total(f, {a}) = f[a] + 0
    BY <1>1, <1>3, Zenon
  <1>5. Total(f, {a}) = f[a]
    BY <1>4
  <1> QED
    BY <1>5, FS_Singleton

LEMMA TotalTwo ==
    ASSUME NEW f, NEW a, NEW b, a # b, f[a] \in Int, f[b] \in Int
    PROVE  /\ IsFiniteSet({a, b}) /\ Cardinality({a, b}) = 2
           /\ Total(f, {a, b}) = f[a] + f[b]
  <1> DEFINE S == {a}
             T == {a, b}
  <1>1. /\ IsFiniteSet(S) /\ Cardinality(S) = 1 /\ Total(f, S) = f[a]
        /\ b \notin S /\ T = S \cup {b} /\ Numbered(f, S \cup {b})
    BY TotalOne DEF Numbered
  <1> HIDE DEF S, T
  <1>2. IsFiniteSet(S \cup {b}) /\ Cardinality(S \cup {b}) = Cardinality(S) + 1
    BY <1>1, FS_AddElement, Zenon
  <1>3. Total(f, S \cup {b}) = f[b] + Total(f, S)
    BY <1>1, TotalWith, Zenon
  <1>4. IsFiniteSet(T) /\ Cardinality(T) = 2 /\ Total(f, T) = f[a] + f[b]
    BY <1>1, <1>2, <1>3
  <1> QED
    BY <1>4, Zenon DEF T

ThreeAdded(f, a, b, c) ==
    IsFiniteSet({a, b, c}) /\ Total(f, {a, b, c}) = f[a] + f[b] + f[c]

LEMMA TotalThree ==
    ASSUME NEW f, NEW a, NEW b, NEW c, a # b, a # c, b # c,
           f[a] \in Int, f[b] \in Int, f[c] \in Int
    PROVE  ThreeAdded(f, a, b, c)
  <1> DEFINE S == {a, b}
  <1>1. /\ IsFiniteSet(S) /\ Total(f, S) = f[a] + f[b]
        /\ c \notin S /\ {a, b, c} = S \cup {c} /\ Numbered(f, S \cup {c})
    BY TotalTwo DEF Numbered
  <1> HIDE DEF S
  <1> QED
    BY <1>1, TotalWith, FS_AddElement DEF ThreeAdded

-----------------------------------------------------------------------------
(* The picture a component is sampled from: its samples at every place, those of *)
(* the edges continued to the left and to the right.                             *)

Inside(v, n) == IF v < 0 THEN 0 ELSE Smaller(v, n - 1)

IsPicture(f, width) ==
    /\ width \in Nat \ {0}
    /\ \A r, c \in Int : /\ f[<<r, c>>] \in Samples
                         /\ f[<<r, c>>] = f[<<r, Inside(c, width)>>]

\* A picture, or what is made of it, has numbers at the places.
OnPlaces(f) == \A r, c \in Int : f[<<r, c>>] \in Int

LEMMA PixelsAre ==
    ASSUME NEW f, NEW width, IsPicture(f, width)
    PROVE  OnPlaces(f) /\ \A r, c \in Int : f[<<r, c>>] \in Samples
  <1>1. ASSUME NEW r \in Int, NEW c \in Int
        PROVE  f[<<r, c>>] \in Samples
    BY Zenon DEF IsPicture
  <1>2. Samples \subseteq Int
    BY DEF Samples
  <1> QED
    BY <1>1, <1>2 DEF OnPlaces

\* The rows ys of a row group are those of the picture from row R on.
Shows(group, f, R, ys, width) ==
    \A y \in ys : /\ y \in DOMAIN group
                  /\ \A x \in Span(width) : group[y][x] = f[<<R + y, x>>]
ReadsFrom(e, f, R, ys, cols) ==
    \A y \in ys : \A x \in Span(cols) : e[y][x] = f[<<R + y, x>>]

LEMMA EdgeShows ==
    ASSUME NEW f, NEW width, IsPicture(f, width), NEW r \in Int, NEW row,
           \A x \in Span(width) : row[x] = f[<<r, x>>],
           NEW cols \in Nat, NEW x \in Span(cols)
    PROVE  expand_right_edge(row, width, cols)[x] = f[<<r, x>>]
  <1> DEFINE z == Smaller(x, width - 1)
  <1>1. x \in Int /\ x >= 0 /\ z \in Span(width) /\ z = Inside(x, width)
    BY DEF Span, Smaller, Inside, IsPicture
  <1>2. expand_right_edge(row, width, cols)[x] = row[z]
    BY Zenon DEF expand_right_edge
  <1> HIDE DEF z
  <1>3. f[<<r, x>>] = f[<<r, Inside(x, width)>>]
    BY <1>1, Zenon DEF IsPicture
  <1> QED
    BY <1>1, <1>2, <1>3, Zenon

LEMMA ExpandedShows ==
    ASSUME NEW f, NEW width, IsPicture(f, width), NEW R \in Int, NEW ys \in SUBSET Int,
           NEW group, Shows(group, f, R, ys, width), NEW cols \in Nat
    PROVE  ReadsFrom(Expanded(group, width, cols), f, R, ys, cols)
  <1> SUFFICES ASSUME NEW y \in ys, NEW x \in Span(cols)
               PROVE  Expanded(group, width, cols)[y][x] = f[<<R + y, x>>]
    BY Zenon DEF ReadsFrom
  <1>1. R + y \in Int
    OBVIOUS
  <1>2. y \in DOMAIN group /\ \A z \in Span(width) : group[y][z] = f[<<R + y, z>>]
    BY Zenon DEF Shows
  <1>3. Expanded(group, width, cols)[y] = expand_right_edge(group[y], width, cols)
    BY <1>2, Zenon DEF Expanded
  <1>4. expand_right_edge(group[y], width, cols)[x] = f[<<R + y, x>>]
    <2> DEFINE r == R + y
               row == group[y]
    <2>1. r \in Int /\ \A z \in Span(width) : row[z] = f[<<r, z>>]
      BY <1>1, <1>2
    <2> HIDE DEF r, row
    <2>2. expand_right_edge(row, width, cols)[x] = f[<<r, x>>]
      BY <2>1, EdgeShows
    <2> QED
      BY <2>2 DEF r, row
  <1> QED
    BY <1>3, <1>4, Zenon

\* v rows of h places, from place <<r, c>> on.
BoxAt(r, c, v, h) == (r .. r + v - 1) \X (c .. c + h - 1)

LEMMA OneBox ==
    ASSUME NEW r \in Int, NEW c \in Int
    PROVE  BoxAt(r, c, 1, 1) = {<<r, c>>}
  <1>1. r .. r + 1 - 1 = {r} /\ c .. c + 1 - 1 = {c}
    OBVIOUS
  <1>2. {r} \X {c} = {<<r, c>>}
    OBVIOUS
  <1> QED
    BY <1>1, <1>2, Zenon DEF BoxAt

LEMMA TwoBox ==
    ASSUME NEW r \in Int, NEW c \in Int
    PROVE  BoxAt(r, c, 1, 2) = {<<r, c>>, <<r, c + 1>>}
  <1>1. r .. r + 1 - 1 = {r} /\ c .. c + 2 - 1 = {c, c + 1}
    OBVIOUS
  <1>2. {r} \X {c, c + 1} = {<<r, c>>, <<r, c + 1>>}
    OBVIOUS
  <1> QED
    BY <1>1, <1>2, Zenon DEF BoxAt

LEMMA FourBox ==
    ASSUME NEW r \in Int, NEW c \in Int
    PROVE  BoxAt(r, c, 2, 2) = {<<r, c>>, <<r, c + 1>>} \cup {<<r + 1, c>>, <<r + 1, c + 1>>}
  <1>1. r .. r + 2 - 1 = {r, r + 1} /\ c .. c + 2 - 1 = {c, c + 1}
    OBVIOUS
  <1>2. {r, r + 1} \X {c, c + 1}
            = {<<r, c>>, <<r, c + 1>>} \cup {<<r + 1, c>>, <<r + 1, c + 1>>}
    OBVIOUS
  <1> QED
    BY <1>1, <1>2, Zenon DEF BoxAt

BoxTotal(f, r, c) == f[<<r, c>>] + f[<<r, c + 1>>] + f[<<r + 1, c>>] + f[<<r + 1, c + 1>>]

LEMMA FourTotal ==
    ASSUME NEW f, OnPlaces(f), NEW r \in Int, NEW c \in Int
    PROVE  /\ Cardinality(BoxAt(r, c, 2, 2)) = 4
           /\ Total(f, BoxAt(r, c, 2, 2)) = BoxTotal(f, r, c)
  <1> DEFINE A == {<<r, c>>, <<r, c + 1>>}
             B == {<<r + 1, c>>, <<r + 1, c + 1>>}
  <1>1. /\ f[<<r, c>>] \in Int /\ f[<<r, c + 1>>] \in Int
        /\ f[<<r + 1, c>>] \in Int /\ f[<<r + 1, c + 1>>] \in Int
    BY DEF OnPlaces
  <1>2. IsFiniteSet(A) /\ Cardinality(A) = 2 /\ Total(f, A) = f[<<r, c>>] + f[<<r, c + 1>>]
    <2> DEFINE v == <<r, c>>
               w == <<r, c + 1>>
    <2>1. v # w /\ f[v] \in Int /\ f[w] \in Int
      BY <1>1
    <2> HIDE DEF v, w
    <2>2. IsFiniteSet({v, w}) /\ Cardinality({v, w}) = 2 /\ Total(f, {v, w}) = f[v] + f[w]
      BY <2>1, TotalTwo, Zenon
    <2> QED
      BY <2>2, Zenon DEF v, w
  <1>3. /\ IsFiniteSet(B) /\ Cardinality(B) = 2
        /\ Total(f, B) = f[<<r + 1, c>>] + f[<<r + 1, c + 1>>]
    <2>1. <<r + 1, c>> # <<r + 1, c + 1>>
      OBVIOUS
    <2> QED
      BY <1>1, <2>1, TotalTwo
  <1>4. A \cap B = {} /\ Numbered(f, A \cup B)
    BY <1>1 DEF Numbered
  <1>5. BoxAt(r, c, 2, 2) = A \cup B
    BY FourBox
  <1> HIDE DEF A, B
  <1>6. Total(f, A \cup B) = Total(f, A) + Total(f, B)
    BY <1>2, <1>3, <1>4, TotalUnion, Zenon
  <1>7. Cardinality(A \cup B) = 4
    <2>1. Cardinality(A \cap B) = 0
      BY <1>4, FS_EmptySet
    <2> QED
      BY <1>2, <1>3, <2>1, FS_Union
  <1>8. Total(f, A \cup B) = BoxTotal(f, r, c)
    <2> DEFINE i == f[<<r, c>>]
               j == f[<<r, c + 1>>]
               k == f[<<r + 1, c>>]
               l == f[<<r + 1, c + 1>>]
    <2>1. Total(f, A \cup B) = (i + j) + (k + l) /\ BoxTotal(f, r, c) = i + j + k + l
      BY <1>2, <1>3, <1>6 DEF BoxTotal
    <2>2. i \in Int /\ j \in Int /\ k \in Int /\ l \in Int
      BY <1>1
    <2> HIDE DEF i, j, k, l
    <2> QED
      BY <2>1, <2>2
  <1> QED
    BY <1>5, <1>7, <1>8

LEMMA BoxTotalBounds ==
    ASSUME NEW f, NEW r, NEW c,
           f[<<r, c>>] \in Samples, f[<<r, c + 1>>] \in Samples,
           f[<<r + 1, c>>] \in Samples, f[<<r + 1, c + 1>>] \in Samples
    PROVE  BoxTotal(f, r, c) \in Nat /\ BoxTotal(f, r, c) <= MAXJSAMPLE * 4
  <1> DEFINE i == f[<<r, c>>]
             j == f[<<r, c + 1>>]
             k == f[<<r + 1, c>>]
             l == f[<<r + 1, c + 1>>]
  <1>1. i \in Samples /\ j \in Samples /\ k \in Samples /\ l \in Samples
    OBVIOUS
  <1>2. BoxTotal(f, r, c) = i + j + k + l
    BY DEF BoxTotal
  <1> HIDE DEF i, j, k, l
  <1> QED
    BY <1>1, <1>2 DEF Samples, MAXJSAMPLE

-----------------------------------------------------------------------------
(* The methods without smoothing. *)

MeanNear(f, box, s) == IsMean(Cardinality(box), s, Total(f, box))

\* What a method is given: the rows ys of a row group, for a component.
Given(f, width, R, group, ys, comp) ==
    /\ IsPicture(f, width) /\ R \in Int /\ Shows(group, f, R, ys, width)
    /\ comp.cols \in Nat

LEMMA FullSizeNear ==
    ASSUME NEW f, NEW width, NEW R, NEW group, NEW comp, NEW maxv \in Nat \ {0},
           Given(f, width, R, group, Span(maxv), comp),
           NEW y \in Span(maxv), NEW x \in Span(comp.cols)
    PROVE  MeanNear(f, BoxAt(R + y, x, 1, 1),
                    fullsize_downsample(group, width, comp, maxv)[y][x])
  <1>1. y \in Int /\ R \in Int /\ R + y \in Int /\ x \in Int
    BY DEF Given, Span
  <1>2. fullsize_downsample(group, width, comp, maxv)[y][x] = f[<<R + y, x>>]
    <2>1. fullsize_downsample(group, width, comp, maxv)[y]
              = expand_right_edge(group[y], width, comp.cols)
      BY Zenon DEF fullsize_downsample
    <2>2. \A z \in Span(width) : group[y][z] = f[<<R + y, z>>]
      BY DEF Given, Shows
    <2>3. expand_right_edge(group[y], width, comp.cols)[x] = f[<<R + y, x>>]
      <3> DEFINE r == R + y
                 row == group[y]
      <3>1. r \in Int /\ \A z \in Span(width) : row[z] = f[<<r, z>>]
        BY <1>1, <2>2
      <3>2. IsPicture(f, width) /\ comp.cols \in Nat
        BY Zenon DEF Given
      <3> HIDE DEF r, row
      <3>3. expand_right_edge(row, width, comp.cols)[x] = f[<<r, x>>]
        BY <3>1, <3>2, EdgeShows
      <3> QED
        BY <3>3 DEF r, row
    <2> QED
      BY <2>1, <2>3, Zenon
  <1> DEFINE p == <<R + y, x>>
  <1>3. f[p] \in Samples
    BY <1>1 DEF Given, IsPicture
  <1>4. BoxAt(R + y, x, 1, 1) = {p}
    BY <1>1, OneBox
  <1>5. Cardinality({p}) = 1 /\ Total(f, {p}) = f[p] /\ f[p] \in Int
    <2>1. f[p] \in Int
      BY <1>3 DEF Samples, MAXJSAMPLE
    <2> QED
      BY <2>1, TotalOne
  <1> DEFINE s == f[p]
  <1>6. IsMean(1, s, s)
    <2>1. s \in Int
      BY <1>5
    <2> HIDE DEF s
    <2> QED
      BY <2>1 DEF IsMean
  <1> QED
    BY <1>2, <1>4, <1>5, <1>6 DEF MeanNear

LEMMA H2v1Near ==
    ASSUME NEW f, NEW width, NEW R, NEW group, NEW comp, NEW maxv \in Nat \ {0},
           Given(f, width, R, group, Span(maxv), comp),
           NEW y \in Span(maxv), NEW x \in Span(comp.cols)
    PROVE  MeanNear(f, BoxAt(R + y, 2 * x, 1, 2),
                    h2v1_downsample(group, width, comp, maxv)[y][x])
  <1> DEFINE e == Expanded(group, width, comp.cols * 2)
             a == <<R + y, 2 * x>>
             b == <<R + y, 2 * x + 1>>
             t == f[a] + f[b]
             d == x % 2
  <1>1. /\ y \in Int /\ R \in Int /\ R + y \in Int /\ x \in Int /\ 2 * x \in Int
        /\ comp.cols * 2 \in Nat
        /\ 2 * x \in Span(comp.cols * 2) /\ 2 * x + 1 \in Span(comp.cols * 2)
    BY DEF Given, Span
  <1>2. e[y][2 * x] = f[a] /\ e[y][2 * x + 1] = f[b]
    <2>1. Span(maxv) \in SUBSET Int
      BY DEF Span
    <2>2. ReadsFrom(e, f, R, Span(maxv), comp.cols * 2)
      BY <1>1, <2>1, ExpandedShows DEF Given
    <2> HIDE DEF e
    <2> QED
      BY <1>1, <2>2 DEF ReadsFrom
  <1>3. f[a] \in Samples /\ f[b] \in Samples
    BY <1>1, PixelsAre DEF Given
  <1>4. h2v1_downsample(group, width, comp, maxv)[y][x] = Sample((t + d) \div 2)
    <2>1. h2v1_downsample(group, width, comp, maxv)[y][x]
              = Sample((e[y][2 * x] + e[y][2 * x + 1] + d) \div 2)
      BY Zenon DEF h2v1_downsample
    <2> HIDE DEF e, a, b, d
    <2> QED
      BY <1>2, <2>1
  <1>5. /\ BoxAt(R + y, 2 * x, 1, 2) = {a, b}
        /\ Cardinality({a, b}) = 2 /\ Total(f, {a, b}) = t
    <2>1. BoxAt(R + y, 2 * x, 1, 2) = {a, b}
      BY <1>1, TwoBox
    <2>2. a # b
      BY <1>1
    <2>3. f[a] \in Int /\ f[b] \in Int
      BY <1>3 DEF Samples
    <2> QED
      BY <2>1, <2>2, <2>3, TotalTwo
  <1>6. t \in Nat /\ t <= MAXJSAMPLE * 2 /\ d \in 0..1
    <2>1. d \in 0..1
      BY <1>1
    <2> DEFINE i == f[a]
               j == f[b]
    <2>2. i \in Samples /\ j \in Samples
      BY <1>3
    <2> HIDE DEF i, j
    <2>3. i + j \in Nat /\ i + j <= MAXJSAMPLE * 2
      BY <2>2 DEF Samples, MAXJSAMPLE
    <2> QED
      BY <2>1, <2>3 DEF i, j
  <1> HIDE DEF t, d, a, b
  <1>7. (t + d) \div 2 \in Samples /\ IsMean(2, (t + d) \div 2, t)
    BY <1>6, RoundedMean
  <1>8. Sample((t + d) \div 2) = (t + d) \div 2
    BY <1>7, CastIs
  <1> QED
    BY <1>4, <1>5, <1>7, <1>8 DEF MeanNear

LEMMA H2v2Near ==
    ASSUME NEW f, NEW width, NEW R, NEW group, NEW comp, NEW maxv \in Nat \ {0},
           maxv % 2 = 0, Given(f, width, R, group, Span(maxv), comp),
           NEW y \in Span(maxv \div 2), NEW x \in Span(comp.cols)
    PROVE  MeanNear(f, BoxAt(R + 2 * y, 2 * x, 2, 2),
                    h2v2_downsample(group, width, comp, maxv)[y][x])
  <1> DEFINE e == Expanded(group, width, comp.cols * 2)
             r == R + 2 * y
             c == 2 * x
             t == BoxTotal(f, r, c)
             d == 1 + (x % 2)
  <1>1. /\ y \in Int /\ R \in Int /\ x \in Int /\ r \in Int /\ c \in Int
        /\ comp.cols * 2 \in Nat
        /\ c \in Span(comp.cols * 2) /\ c + 1 \in Span(comp.cols * 2)
        /\ 2 * y \in Span(maxv) /\ 2 * y + 1 \in Span(maxv)
        /\ R + (2 * y + 1) = r + 1
    BY DEF Given, Span
  <1>2. /\ e[2 * y][c] = f[<<r, c>>] /\ e[2 * y][c + 1] = f[<<r, c + 1>>]
        /\ e[2 * y + 1][c] = f[<<r + 1, c>>] /\ e[2 * y + 1][c + 1] = f[<<r + 1, c + 1>>]
    <2>1. Span(maxv) \in SUBSET Int
      BY DEF Span
    <2>2. ReadsFrom(e, f, R, Span(maxv), comp.cols * 2)
      BY <1>1, <2>1, ExpandedShows DEF Given
    <2> HIDE DEF e
    <2>3. ASSUME NEW z \in Span(comp.cols * 2)
          PROVE  e[2 * y][z] = f[<<R + 2 * y, z>>] /\ e[2 * y + 1][z] = f[<<R + (2 * y + 1), z>>]
      BY <1>1, <2>2, Zenon DEF ReadsFrom
    <2> QED
      BY <1>1, <2>3, Zenon
  <1>3. /\ f[<<r, c>>] \in Samples /\ f[<<r, c + 1>>] \in Samples
        /\ f[<<r + 1, c>>] \in Samples /\ f[<<r + 1, c + 1>>] \in Samples
    <2>1. c + 1 \in Int /\ r + 1 \in Int
      BY <1>1
    <2> HIDE DEF r, c
    <2> QED
      BY <1>1, <2>1 DEF Given, IsPicture
  <1>4. h2v2_downsample(group, width, comp, maxv)[y][x] = Sample((t + d) \div 4)
    <2>1. h2v2_downsample(group, width, comp, maxv)[y][x]
              = Sample((e[2 * y][c] + e[2 * y][c + 1] + e[2 * y + 1][c] + e[2 * y + 1][c + 1]
                        + 1 + (x % 2)) \div 4)
      BY Zenon DEF h2v2_downsample
    <2>2. t = e[2 * y][c] + e[2 * y][c + 1] + e[2 * y + 1][c] + e[2 * y + 1][c + 1]
      <3> HIDE DEF e, r, c
      <3> QED
        BY <1>2, Zenon DEF BoxTotal
    <2>3. t \in Int /\ x % 2 \in Int
      <3> HIDE DEF r, c
      <3> QED
        BY <1>1, <1>3 DEF BoxTotal, Samples
    <2>4. t + 1 + (x % 2) = t + d
      <3> HIDE DEF t
      <3> QED
        BY <2>3
    <2> HIDE DEF e, c, t, d
    <2> QED
      BY <2>1, <2>2, <2>4
  <1>5. /\ Cardinality(BoxAt(r, c, 2, 2)) = 4 /\ Total(f, BoxAt(r, c, 2, 2)) = t
    <2>1. OnPlaces(f)
      BY PixelsAre DEF Given
    <2> HIDE DEF r, c
    <2> QED
      BY <1>1, <2>1, FourTotal
  <1>6. t \in Nat /\ t <= MAXJSAMPLE * 4 /\ d \in 1..2
    <2>1. d \in 1..2
      BY <1>1
    <2> HIDE DEF r, c
    <2> QED
      BY <1>3, <2>1, BoxTotalBounds
  <1> HIDE DEF t, d, r, c
  <1>7. (t + d) \div 4 \in Samples /\ IsMean(4, (t + d) \div 4, t)
    BY <1>6, RoundedMean
  <1>8. Sample((t + d) \div 4) = (t + d) \div 4
    BY <1>7, CastIs
  <1> QED
    BY <1>4, <1>5, <1>7, <1>8 DEF MeanNear, r, c

LEMMA InPart ==
    ASSUME NEW q \in Nat, NEW v \in Nat, NEW y \in Span(q), NEW i \in Span(v)
    PROVE  y * v + i \in Span(q * v)
  <1> DEFINE p == y * v
             w == q * v
  <1>1. y \in Nat /\ y + 1 <= q /\ i \in Nat /\ i <= v - 1
    BY DEF Span
  <1>2. p \in Nat /\ w \in Nat /\ p + v <= w
    <2>1. (y + 1) * v <= q * v
      BY <1>1, SMTT(30)
    <2>2. (y + 1) * v = y * v + v
      BY <1>1
    <2>3. p \in Nat /\ w \in Nat
      BY <1>1
    <2> QED
      BY <2>1, <2>2, <2>3
  <1> HIDE DEF p, w
  <1>3. p + i \in Span(w)
    BY <1>1, <1>2 DEF Span
  <1> QED
    BY <1>3 DEF p, w

\* The places of a box that int_downsample adds up.
IntPlaces(e, r, c, S) == [at \in S |-> e[r + at[1]][c + at[2]]]

LEMMA IntSum ==
    ASSUME NEW e, NEW r, NEW c, NEW S
    PROVE  MapThenSumSet(LAMBDA at : e[r + at[1]][c + at[2]], S)
               = Total(IntPlaces(e, r, c, S), S)
  <1> DEFINE g == IntPlaces(e, r, c, S)
             Left(iter) == [s \in SUBSET S |->
                 IF s = {} THEN 0
                 ELSE e[r + AnyOf(s)[1]][c + AnyOf(s)[2]] + iter[s \ {AnyOf(s)}]]
             Right(iter) == [s \in SUBSET S |->
                 IF s = {} THEN 0 ELSE g[AnyOf(s)] + iter[s \ {AnyOf(s)}]]
  <1>1. ASSUME NEW iter
        PROVE  Left(iter) = Right(iter)
    <2>1. ASSUME NEW s \in SUBSET S, s # {}
          PROVE  g[AnyOf(s)] = e[r + AnyOf(s)[1]][c + AnyOf(s)[2]]
      <3>1. AnyOf(s) \in S
        BY <2>1, AnyOfIn
      <3> QED
        BY <3>1, Zenon DEF IntPlaces
    <2> HIDE DEF g
    <2> QED
      BY <2>1
  <1> HIDE DEF g
  <1>2. (CHOOSE iter : iter = Left(iter)) = (CHOOSE iter : iter = Right(iter))
    <2> HIDE DEF Left, Right
    <2> QED
      BY <1>1, Zenon
  <1>3. MapThenSumSet(LAMBDA at : e[r + at[1]][c + at[2]], S)
            = (CHOOSE iter : iter = Left(iter))[S]
    BY Zenon DEF MapThenSumSet, MapThenFoldSet, AnyOf
  <1>4. Total(g, S) = (CHOOSE iter : iter = Right(iter))[S]
    BY Zenon DEF Total, MapThenSumSet, MapThenFoldSet, AnyOf
  <1> QED
    BY <1>2, <1>3, <1>4, Zenon DEF g

\* A box and the places in it, counted from its corner.
PlacesRead(g, f, r, c, S) == \A at \in S : g[at] = f[<<r + at[1], c + at[2]>>]
BoxHas(f, r, c, v, w, t) ==
    /\ Cardinality(BoxAt(r, c, v, w)) = v * w
    /\ IsFiniteSet(BoxAt(r, c, v, w))
    /\ Total(f, BoxAt(r, c, v, w)) = t

LEMMA BoxPlaces ==
    ASSUME NEW r \in Int, NEW c \in Int, NEW v \in Nat \ {0}, NEW w \in Nat \ {0},
           NEW f, NEW g, OnPlaces(f), PlacesRead(g, f, r, c, Span(v) \X Span(w))
    PROVE  BoxHas(f, r, c, v, w, Total(g, Span(v) \X Span(w)))
  <1> DEFINE S == Span(v) \X Span(w)
             h == [at \in S |-> <<r + at[1], c + at[2]>>]
  <1>1. /\ IsFiniteSet(Span(v)) /\ IsFiniteSet(Span(w))
        /\ Cardinality(Span(v)) = v /\ Cardinality(Span(w)) = w
    BY FS_Interval DEF Span
  <1>2. IsFiniteSet(S) /\ Cardinality(S) = v * w
    BY <1>1, FS_Product
  <1>3. \A at \in S : at[1] \in Span(v) /\ at[2] \in Span(w) /\ at = <<at[1], at[2]>>
    OBVIOUS
  <1>4. \A i \in Span(v) : i \in Int /\ r + i \in r .. r + v - 1
    BY DEF Span
  <1>5. \A j \in Span(w) : j \in Int /\ c + j \in c .. c + w - 1
    BY DEF Span
  <1>6. \A at \in S : f[h[at]] = g[at] /\ g[at] \in Int
    <2> TAKE at \in S
    <2>1. h[at] = <<r + at[1], c + at[2]>>
      BY Zenon
    <2>2. r + at[1] \in Int /\ c + at[2] \in Int
      BY <1>3, <1>4, <1>5
    <2>3. g[at] = f[<<r + at[1], c + at[2]>>]
      BY DEF PlacesRead
    <2> HIDE DEF h
    <2> QED
      BY <2>1, <2>2, <2>3 DEF OnPlaces
  <1>7. \A at, bt \in S : h[at] = h[bt] => at = bt
    <2> SUFFICES ASSUME NEW at \in S, NEW bt \in S, h[at] = h[bt]
                 PROVE  at = bt
      BY Zenon
    <2>1. r + at[1] = r + bt[1] /\ c + at[2] = c + bt[2]
      OBVIOUS
    <2>2. at[1] = bt[1] /\ at[2] = bt[2]
      BY <1>3, <1>4, <1>5, <2>1
    <2> QED
      BY <1>3, <2>2
  <1>8. ImageOf(h, S) = BoxAt(r, c, v, w)
    <2>1. ASSUME NEW at \in S
          PROVE  h[at] \in BoxAt(r, c, v, w)
      <3>1. h[at] = <<r + at[1], c + at[2]>>
        BY Zenon
      <3> HIDE DEF h
      <3> QED
        BY <1>3, <1>4, <1>5, <3>1 DEF BoxAt
    <2>2. ASSUME NEW p \in BoxAt(r, c, v, w)
          PROVE  \E at \in S : h[at] = p
      <3>1. p[1] - r \in Span(v) /\ p[2] - c \in Span(w) /\ p = <<p[1], p[2]>>
            /\ r + (p[1] - r) = p[1] /\ c + (p[2] - c) = p[2]
        BY DEF BoxAt, Span
      <3> DEFINE at == <<p[1] - r, p[2] - c>>
      <3>2. at \in S /\ at[1] = p[1] - r /\ at[2] = p[2] - c
        BY <3>1
      <3>3. h[at] = <<r + at[1], c + at[2]>>
        BY <3>2, Zenon
      <3>4. h[at] = p
        BY <3>1, <3>2, <3>3
      <3> HIDE DEF at, h
      <3> QED
        BY <3>2, <3>4, Zenon
    <2> HIDE DEF h, S
    <2> QED
      BY <2>1, <2>2 DEF ImageOf
  <1> HIDE DEF h
  <1>9. Numbered(g, S)
    BY <1>6 DEF Numbered
  <1> HIDE DEF S
  <1>10. /\ IsFiniteSet(ImageOf(h, S))
         /\ Cardinality(ImageOf(h, S)) = Cardinality(S)
         /\ Total(f, ImageOf(h, S)) = Total(g, S)
    <2>1. MovedBy(f, g, h, S)
      BY <1>6, <1>7 DEF MovedBy
    <2>2. SameTotal(f, ImageOf(h, S), g, S)
      BY <1>2, <1>9, <2>1, TotalMoved, Zenon
    <2> QED
      BY <2>2 DEF SameTotal
  <1> QED
    BY <1>2, <1>8, <1>10 DEF S, BoxHas

LEMMA IntNear ==
    ASSUME NEW f, NEW width, NEW R, NEW group, NEW comp, NEW maxv \in Nat \ {0},
           NEW ve \in Nat \ {0}, NEW he \in Nat \ {0}, maxv % ve = 0,
           Given(f, width, R, group, Span(maxv), comp),
           NEW y \in Span(maxv \div ve), NEW x \in Span(comp.cols)
    PROVE  MeanNear(f, BoxAt(R + ve * y, he * x, ve, he),
                    int_downsample(group, width, comp, he, ve, maxv)[y][x])
  <1> DEFINE e == Expanded(group, width, comp.cols * he)
             S == Span(ve) \X Span(he)
             g == IntPlaces(e, y * ve, x * he, S)
             n == he * ve
             t == Total(g, S)
             d == n \div 2
             box == BoxAt(R + ve * y, he * x, ve, he)
  <1>1. maxv \div ve \in Nat /\ maxv = (maxv \div ve) * ve
    <2>1. maxv \in Int /\ maxv >= 0
      OBVIOUS
    <2>2. /\ maxv \div ve \in Int /\ maxv = (maxv \div ve) * ve + (maxv % ve)
          /\ maxv \div ve >= 0
      BY <2>1, Divided
    <2> DEFINE q == maxv \div ve
    <2>3. q * ve \in Int
      BY <2>2
    <2> HIDE DEF q
    <2>4. q \in Nat /\ maxv = q * ve
      BY <2>2, <2>3 DEF q
    <2> QED
      BY <2>4 DEF q
  <1>2. comp.cols \in Nat /\ R \in Int /\ y \in Nat /\ x \in Nat /\ comp.cols * he \in Nat
        /\ R + ve * y \in Int /\ he * x \in Int
        /\ y * ve \in Nat /\ x * he \in Nat /\ ve * y = y * ve /\ he * x = x * he
    BY DEF Given, Span
  <1>3. ReadsFrom(e, f, R, Span(maxv), comp.cols * he)
    <2>1. Span(maxv) \in SUBSET Int
      BY DEF Span
    <2> QED
      BY <1>2, <2>1, ExpandedShows DEF Given
  <1>4. ASSUME NEW at \in S
        PROVE  g[at] = f[<<(R + ve * y) + at[1], he * x + at[2]>>]
    <2>1. at[1] \in Span(ve) /\ at[2] \in Span(he)
      OBVIOUS
    <2>2. g[at] = e[y * ve + at[1]][x * he + at[2]]
      BY Zenon DEF IntPlaces
    <2>3. y * ve + at[1] \in Span(maxv)
      <3> DEFINE i == at[1]
                 q == maxv \div ve
      <3>1. i \in Span(ve) /\ q \in Nat /\ y \in Span(q) /\ maxv = q * ve
        BY <1>1, <2>1
      <3> HIDE DEF i, q
      <3>2. y * ve + i \in Span(q * ve)
        BY <3>1, InPart
      <3> QED
        BY <3>1, <3>2 DEF i
    <2>4. x * he + at[2] \in Span(comp.cols * he)
      <3> DEFINE i == at[2]
                 q == comp.cols
      <3>1. i \in Span(he) /\ q \in Nat /\ x \in Span(q)
        BY <1>2, <2>1
      <3> HIDE DEF i, q
      <3>2. x * he + i \in Span(q * he)
        BY <3>1, InPart
      <3> QED
        BY <3>2 DEF i, q
    <2>5. e[y * ve + at[1]][x * he + at[2]] = f[<<R + (y * ve + at[1]), x * he + at[2]>>]
      <3> HIDE DEF e, S
      <3> QED
        BY <1>3, <2>3, <2>4, Zenon DEF ReadsFrom
    <2>6. R + (y * ve + at[1]) = (R + ve * y) + at[1]
      <3> DEFINE a == y * ve
                 b == ve * y
                 i == at[1]
      <3>1. a = b /\ a \in Int /\ i \in Int
        BY <1>2, <2>1 DEF Span
      <3> HIDE DEF a, b, i
      <3>2. R + (a + i) = (R + b) + i
        BY <1>2, <3>1
      <3> QED
        BY <3>2 DEF a, b, i
    <2> HIDE DEF e, g, S
    <2> QED
      BY <1>2, <2>2, <2>5, <2>6
  <1>5. OnPlaces(f) /\ \A r, c \in Int : f[<<r, c>>] \in Samples
    BY PixelsAre DEF Given
  <1>6. /\ Cardinality(box) = ve * he /\ IsFiniteSet(box) /\ Total(f, box) = t
    <2> DEFINE r == R + ve * y
               c == he * x
    <2>1. r \in Int /\ c \in Int
      BY <1>2
    <2>2. PlacesRead(g, f, r, c, S)
      BY <1>4 DEF PlacesRead
    <2> HIDE DEF g, r, c
    <2>3. BoxHas(f, r, c, ve, he, Total(g, S))
      BY <1>5, <2>1, <2>2, BoxPlaces, Zenon
    <2> QED
      BY <2>3 DEF r, c, BoxHas
  <1>7. n \in Nat \ {0} /\ ve * he = n
    <2>1. \A i, j \in Nat \ {0} : i * j \in Nat \ {0} /\ i * j = j * i
      BY SMTT(30)
    <2> QED
      BY <2>1, Zenon
  <1>8. t \in Nat /\ t <= MAXJSAMPLE * n
    <2>1. \A p \in box : f[p] \in 0..MAXJSAMPLE
      <3>1. ASSUME NEW p \in box
            PROVE  p[1] \in Int /\ p[2] \in Int /\ p = <<p[1], p[2]>>
        BY <1>2 DEF BoxAt
      <3> HIDE DEF box
      <3>2. ASSUME NEW p \in box
            PROVE  f[p] \in Samples
        BY <1>5, <3>1, <3>2
      <3> QED
        BY <3>2 DEF Samples
    <2>2. MAXJSAMPLE \in Nat
      BY DEF MAXJSAMPLE
    <2> HIDE DEF box, t, n
    <2>3. Total(f, box) \in Nat /\ Total(f, box) <= MAXJSAMPLE * Cardinality(box)
      BY <1>6, <2>1, <2>2, TotalBounds, Zenon
    <2> QED
      BY <1>6, <1>7, <2>3
  <1>9. int_downsample(group, width, comp, he, ve, maxv)[y][x] = Sample((t + d) \div n)
    <2>1. int_downsample(group, width, comp, he, ve, maxv)[y][x]
              = Sample((MapThenSumSet(LAMBDA at : e[y * ve + at[1]][x * he + at[2]], S)
                        + n \div 2) \div n)
      BY Zenon DEF int_downsample
    <2>2. MapThenSumSet(LAMBDA at : e[y * ve + at[1]][x * he + at[2]], S) = t
      BY IntSum, Zenon
    <2> QED
      BY <2>1, <2>2, Zenon
  <1>10. d \in Nat /\ n <= 2 * d + 2 /\ 2 * d <= n
    <2> HIDE DEF n
    <2> QED
      BY <1>7
  <1> HIDE DEF t, n, d, box
  <1>11. (t + d) \div n \in Samples /\ IsMean(n, (t + d) \div n, t)
    BY <1>7, <1>8, <1>10, RoundedMean
  <1>12. Sample((t + d) \div n) = (t + d) \div n
    BY <1>11, CastIs, Zenon
  <1>13. MeanNear(f, box, (t + d) \div n)
    BY <1>6, <1>7, <1>11, Zenon DEF MeanNear
  <1> QED
    BY <1>9, <1>12, <1>13, Zenon DEF box

-----------------------------------------------------------------------------
(* Smoothing. *)

Ring(p) == ((p[1] - 1 .. p[1] + 1) \X (p[2] - 1 .. p[2] + 1)) \ {p}

\* 1024 times what smoothing makes of a picture.
SmoothOf(f, s) == [p \in Int \X Int |-> (1024 - 8 * s) * f[p] + s * Total(f, Ring(p))]
SmoothNear(f, s, box, v) ==
    IsMean(1024 * Cardinality(box), v, Total(SmoothOf(f, s), box))

\* The eight places around <<i, j>>, their rows i0 and i2, their columns j0 and j2.
RingWith(f, i, j, i0, i2, j0, j2) ==
    (f[<<i0, j0>>] + f[<<i0, j>>] + f[<<i0, j2>>])
        + (f[<<i, j0>>] + f[<<i, j2>>])
        + (f[<<i2, j0>>] + f[<<i2, j>>] + f[<<i2, j2>>])

LEMMA RingIs ==
    ASSUME NEW f, OnPlaces(f), NEW i \in Int, NEW j \in Int,
           NEW i0, NEW i2, NEW j0, NEW j2,
           i0 = i - 1, i2 = i + 1, j0 = j - 1, j2 = j + 1
    PROVE  Total(f, Ring(<<i, j>>)) = RingWith(f, i, j, i0, i2, j0, j2)
  <1> DEFINE A == {<<i0, j0>>, <<i0, j>>, <<i0, j2>>}
             B == {<<i, j0>>, <<i, j2>>}
             C == {<<i2, j0>>, <<i2, j>>, <<i2, j2>>}
  <1>1. /\ i0 \in Int /\ i2 \in Int /\ j0 \in Int /\ j2 \in Int
        /\ i0 # i /\ i # i2 /\ i0 # i2 /\ j0 # j /\ j # j2 /\ j0 # j2
    OBVIOUS
  <1>2. \A x, y \in Int : f[<<x, y>>] \in Int
    BY DEF OnPlaces
  <1>3. IsFiniteSet(A) /\ Total(f, A) = f[<<i0, j0>>] + f[<<i0, j>>] + f[<<i0, j2>>]
    <2> DEFINE a == <<i0, j0>>
               b == <<i0, j>>
               c == <<i0, j2>>
    <2>1. a # b /\ a # c /\ b # c
      BY <1>1
    <2>2. f[a] \in Int /\ f[b] \in Int /\ f[c] \in Int
      BY <1>1, <1>2
    <2> HIDE DEF a, b, c
    <2>3. ThreeAdded(f, a, b, c)
      BY <2>1, <2>2, TotalThree, Zenon
    <2> QED
      BY <2>3 DEF a, b, c, ThreeAdded
  <1>4. IsFiniteSet(B) /\ Total(f, B) = f[<<i, j0>>] + f[<<i, j2>>]
    <2>1. <<i, j0>> # <<i, j2>>
      BY <1>1
    <2> QED
      BY <1>1, <1>2, <2>1, TotalTwo
  <1>5. IsFiniteSet(C) /\ Total(f, C) = f[<<i2, j0>>] + f[<<i2, j>>] + f[<<i2, j2>>]
    <2> DEFINE a == <<i2, j0>>
               b == <<i2, j>>
               c == <<i2, j2>>
    <2>1. a # b /\ a # c /\ b # c
      BY <1>1
    <2>2. f[a] \in Int /\ f[b] \in Int /\ f[c] \in Int
      BY <1>1, <1>2
    <2> HIDE DEF a, b, c
    <2>3. ThreeAdded(f, a, b, c)
      BY <2>1, <2>2, TotalThree, Zenon
    <2> QED
      BY <2>3 DEF a, b, c, ThreeAdded
  <1>6. Ring(<<i, j>>) = (A \cup B) \cup C
    <2>1. i - 1 .. i + 1 = {i0, i, i2} /\ j - 1 .. j + 1 = {j0, j, j2}
      OBVIOUS
    <2>2. Ring(<<i, j>>) = ({i0, i, i2} \X {j0, j, j2}) \ {<<i, j>>}
      <3> DEFINE p == <<i, j>>
      <3>1. p[1] = i /\ p[2] = j
        OBVIOUS
      <3> HIDE DEF p
      <3>2. Ring(p) = ({i0, i, i2} \X {j0, j, j2}) \ {p}
        BY <2>1, <3>1, Zenon DEF Ring
      <3> QED
        BY <3>2 DEF p
    <2>3. ({i0, i, i2} \X {j0, j, j2}) \ {<<i, j>>} = (A \cup B) \cup C
      BY <1>1
    <2> QED
      BY <2>2, <2>3, Zenon
  <1>7. A \cap B = {} /\ (A \cup B) \cap C = {}
    BY <1>1
  <1>8. Numbered(f, A \cup B) /\ Numbered(f, (A \cup B) \cup C)
    BY <1>1, <1>2 DEF Numbered
  <1> HIDE DEF A, B, C
  <1>9. Total(f, A \cup B) = Total(f, A) + Total(f, B) /\ IsFiniteSet(A \cup B)
    <2>1. IsFiniteSet(A \cup B)
      BY <1>3, <1>4, FS_Union, Zenon
    <2>2. Total(f, A \cup B) = Total(f, A) + Total(f, B)
      BY <1>3, <1>4, <1>7, <1>8, TotalUnion, Zenon
    <2> QED
      BY <2>1, <2>2
  <1>10. Total(f, (A \cup B) \cup C) = Total(f, A \cup B) + Total(f, C)
    BY <1>5, <1>7, <1>8, <1>9, TotalUnion, Zenon
  <1> QED
    BY <1>3, <1>4, <1>5, <1>6, <1>9, <1>10, Zenon DEF RingWith

\* Columns at which an edge is repeated.
LEMMA SameColumn ==
    ASSUME NEW f, NEW width, IsPicture(f, width), NEW r \in Int, NEW c \in Int, NEW d \in Int,
           Inside(c, width) = Inside(d, width)
    PROVE  f[<<r, c>>] = f[<<r, d>>]
  <1>1. f[<<r, c>>] = f[<<r, Inside(c, width)>>] /\ f[<<r, d>>] = f[<<r, Inside(d, width)>>]
    BY Zenon DEF IsPicture
  <1> QED
    BY <1>1, Zenon

\* The columns beside x, repeated at the edges of the n columns there are.
LEMMA Beside ==
    ASSUME NEW f, NEW width, IsPicture(f, width), NEW r \in Int,
           NEW n \in Nat, width <= n, NEW x \in Span(n)
    PROVE  /\ x = 0 => f[<<r, 0>>] = f[<<r, -1>>]
           /\ x = n - 1 => f[<<r, x>>] = f[<<r, x + 1>>]
  <1>1. width \in Nat \ {0} /\ x \in Nat
    BY DEF IsPicture, Span
  <1>2. Inside(0, width) = Inside(-1, width)
    BY <1>1 DEF Inside, Smaller
  <1>3. x = n - 1 => Inside(x, width) = Inside(x + 1, width)
    BY <1>1 DEF Inside, Smaller
  <1>4. f[<<r, 0>>] = f[<<r, -1>>]
    BY <1>2, SameColumn
  <1>5. ASSUME x = n - 1
        PROVE  f[<<r, x>>] = f[<<r, x + 1>>]
    <2> DEFINE z == x + 1
    <2>1. x \in Int /\ z \in Int /\ Inside(x, width) = Inside(z, width)
      BY <1>1, <1>3, <1>5
    <2> HIDE DEF z
    <2>2. f[<<r, x>>] = f[<<r, z>>]
      BY <2>1, SameColumn
    <2> QED
      BY <2>2 DEF z
  <1> QED
    BY <1>4, <1>5

\* fullsize_smooth_downsample for one sample, e the sample and n those around it.
FullTerm(e, n, s) == e * (65536 - s * 512) + n * (s * 64) + 32768
FullMean(e, n, s) == (1024 - 8 * s) * e + s * n

\* Sums of so many samples, and a mean so many times as large.
SumsOfSamples(n) == 0..(MAXJSAMPLE * n)
MeanIs(quotient, t, n) ==
    /\ t \in Nat /\ t <= MAXJSAMPLE * n
    /\ quotient = (t + n \div 2) \div n
Percent == 0..100

LEMMA FullWeights ==
    ASSUME NEW s \in Percent, NEW e \in Samples, NEW n \in SumsOfSamples(8)
    PROVE  MeanIs(FullTerm(e, n, s) \div SCALE, FullMean(e, n, s), 1024)
  <1> USE DEF Percent, Samples, SumsOfSamples, MAXJSAMPLE
  <1> DEFINE a == s * e
             b == s * n
             w == 1024 - 8 * s
             t == FullMean(e, n, s)
  <1>1. a \in Nat /\ b \in Nat /\ b <= 2040 * s /\ w \in Nat
    <2>1. b \in Nat /\ b <= s * 2040
      BY SMTT(30)
    <2> QED
      BY <2>1
  <1>2. t = 1024 * e - 8 * a + b
    <2>1. (1024 - 8 * s) * e = 1024 * e - 8 * (s * e)
      BY SMTT(30)
    <2> QED
      BY <2>1 DEF FullMean
  <1>3. w * e \in Nat /\ w * e <= w * 255
    <2> HIDE DEF w
    <2> QED
      BY <1>1, SMTT(30)
  <1>4. t \in Nat /\ t <= 255 * 1024
    <2> DEFINE p == w * e
    <2>1. t = p + b
      BY DEF FullMean
    <2>2. p \in Nat /\ p <= 255 * 1024 - 2040 * s
      BY <1>3
    <2> HIDE DEF t, p, b
    <2> QED
      BY <1>1, <2>1, <2>2
  <1>5. FullTerm(e, n, s) = 65536 * e - 512 * a + 64 * b + 32768
    <2>1. e * (65536 - s * 512) = 65536 * e - 512 * (s * e)
      BY SMTT(30)
    <2>2. n * (s * 64) = 64 * (s * n)
      BY SMTT(30)
    <2> QED
      BY <2>1, <2>2 DEF FullTerm
  <1>6. FullTerm(e, n, s) = 64 * (t + 512)
    <2> HIDE DEF a, b, t
    <2> QED
      BY <1>1, <1>2, <1>5
  <1> HIDE DEF t
  <1>7. (64 * (t + 512)) \div 65536 = (t + 512) \div 1024
    BY <1>4, SMTT(30)
  <1> QED
    BY <1>4, <1>6, <1>7 DEF t, SCALE, MeanIs

\* What is a mean before the cast is one after it.
LEMMA MeanOfTerm ==
    ASSUME NEW q, NEW t, NEW n \in Nat \ {0}, n % 2 = 0, MeanIs(q, t, n)
    PROVE  Sample(q) = q /\ IsMean(n, q, t)
  <1>1. n \div 2 \in Nat /\ n <= 2 * (n \div 2) + 2 /\ 2 * (n \div 2) <= n
    OBVIOUS
  <1>2. t \in Nat /\ t <= MAXJSAMPLE * n /\ q = (t + n \div 2) \div n
    BY DEF MeanIs
  <1> DEFINE d == n \div 2
  <1> HIDE DEF d
  <1>3. (t + d) \div n \in Samples /\ IsMean(n, (t + d) \div n, t)
    BY <1>1, <1>2, RoundedMean DEF d
  <1> QED
    BY <1>2, <1>3, CastIs DEF d

\* fullsize_smooth_downsample for a place, l and q the columns beside it.
ColumnOf(e, y, x) == e[y - 1][x] + e[y][x] + e[y + 1][x]
NeighboursOf(e, y, x, l, q) == ColumnOf(e, y, l) + (ColumnOf(e, y, x) - e[y][x]) + ColumnOf(e, y, q)

LEMMA FullSmoothSample ==
    ASSUME NEW group, NEW width, NEW comp, NEW maxv, NEW s,
           NEW y \in Span(maxv), NEW x \in Span(comp.cols)
    PROVE  LET e == Expanded(group, width, comp.cols)
               n == NeighboursOf(e, y, x, IF x = 0 THEN 0 ELSE x - 1,
                                 Smaller(x + 1, comp.cols - 1))
           IN  fullsize_smooth_downsample(group, width, comp, maxv, s)[y][x]
                   = Sample(FullTerm(e[y][x], n, s) \div SCALE)
  BY DEF fullsize_smooth_downsample, FullTerm, NeighboursOf, ColumnOf

LEMMA RingBounds ==
    ASSUME NEW f, NEW width, IsPicture(f, width), NEW i \in Int, NEW j \in Int,
           NEW i0 \in Int, NEW i2 \in Int, NEW j0 \in Int, NEW j2 \in Int
    PROVE  RingWith(f, i, j, i0, i2, j0, j2) \in SumsOfSamples(8)
  <1> DEFINE a == f[<<i0, j0>>]
             b == f[<<i0, j>>]
             c == f[<<i0, j2>>]
             d == f[<<i, j0>>]
             p == f[<<i, j2>>]
             q == f[<<i2, j0>>]
             r == f[<<i2, j>>]
             t == f[<<i2, j2>>]
  <1>1. /\ a \in Samples /\ b \in Samples /\ c \in Samples /\ d \in Samples
        /\ p \in Samples /\ q \in Samples /\ r \in Samples /\ t \in Samples
    BY PixelsAre
  <1>2. RingWith(f, i, j, i0, i2, j0, j2) = (a + b + c) + (d + p) + (q + r + t)
    BY DEF RingWith
  <1> HIDE DEF a, b, c, d, p, q, r, t
  <1> QED
    BY <1>1, <1>2 DEF Samples, MAXJSAMPLE, SumsOfSamples

LEMMA NeighboursRing ==
    ASSUME NEW f, NEW width, IsPicture(f, width), NEW R \in Int, NEW cols \in Nat, width <= cols,
           NEW e, NEW ys \in SUBSET Int, ReadsFrom(e, f, R, ys, cols),
           NEW y \in Int, y - 1 \in ys, y \in ys, y + 1 \in ys, NEW x \in Span(cols)
    PROVE  LET i == R + y
           IN  /\ e[y][x] = f[<<i, x>>]
               /\ NeighboursOf(e, y, x, IF x = 0 THEN 0 ELSE x - 1, Smaller(x + 1, cols - 1))
                      = RingWith(f, i, x, i - 1, i + 1, x - 1, x + 1)
  <1> DEFINE i == R + y
             l == IF x = 0 THEN 0 ELSE x - 1
             q == Smaller(x + 1, cols - 1)
             i0 == i - 1
             i2 == i + 1
             j0 == x - 1
             j2 == x + 1
  <1>1. /\ x \in Nat /\ i \in Int /\ i0 \in Int /\ i2 \in Int /\ j0 \in Int /\ j2 \in Int
        /\ l \in Span(cols) /\ q \in Span(cols)
        /\ R + (y - 1) = i0 /\ R + (y + 1) = i2
        /\ (x = 0 /\ l = 0 /\ j0 = -1) \/ (x # 0 /\ l = j0)
        /\ (x = cols - 1 /\ q = x) \/ (x # cols - 1 /\ q = j2)
    BY DEF Span, Smaller
  <1>2. ASSUME NEW z \in Span(cols)
        PROVE  e[y - 1][z] = f[<<i0, z>>] /\ e[y][z] = f[<<i, z>>] /\ e[y + 1][z] = f[<<i2, z>>]
    <2>1. /\ e[y - 1][z] = f[<<R + (y - 1), z>>] /\ e[y][z] = f[<<R + y, z>>]
          /\ e[y + 1][z] = f[<<R + (y + 1), z>>]
      BY Zenon DEF ReadsFrom
    <2> HIDE DEF i0, i2
    <2> QED
      BY <1>1, <2>1
  <1>3. ASSUME NEW r \in Int
        PROVE  f[<<r, l>>] = f[<<r, j0>>] /\ f[<<r, q>>] = f[<<r, j2>>]
    <2>1. /\ x = 0 => f[<<r, 0>>] = f[<<r, -1>>]
          /\ x = cols - 1 => f[<<r, x>>] = f[<<r, x + 1>>]
      BY Beside
    <2>2. f[<<r, l>>] = f[<<r, j0>>]
      BY <1>1, <2>1
    <2>3. f[<<r, q>>] = f[<<r, j2>>]
      BY <1>1, <2>1
    <2> QED
      BY <2>2, <2>3
  <1>4. OnPlaces(f)
    BY PixelsAre
  <1> HIDE DEF i, l, q, i0, i2, j0, j2
  <1>5. /\ e[y][x] = f[<<i, x>>]
        /\ ColumnOf(e, y, l) = f[<<i0, j0>>] + f[<<i, j0>>] + f[<<i2, j0>>]
        /\ ColumnOf(e, y, x) = f[<<i0, x>>] + f[<<i, x>>] + f[<<i2, x>>]
        /\ ColumnOf(e, y, q) = f[<<i0, j2>>] + f[<<i, j2>>] + f[<<i2, j2>>]
    <2>1. ASSUME NEW z \in Span(cols)
          PROVE  ColumnOf(e, y, z) = f[<<i0, z>>] + f[<<i, z>>] + f[<<i2, z>>]
      BY <1>2, Zenon DEF ColumnOf
    <2>2. /\ f[<<i0, l>>] = f[<<i0, j0>>] /\ f[<<i, l>>] = f[<<i, j0>>]
          /\ f[<<i2, l>>] = f[<<i2, j0>>]
          /\ f[<<i0, q>>] = f[<<i0, j2>>] /\ f[<<i, q>>] = f[<<i, j2>>]
          /\ f[<<i2, q>>] = f[<<i2, j2>>]
      BY <1>1, <1>3, Zenon
    <2>3. /\ ColumnOf(e, y, l) = f[<<i0, l>>] + f[<<i, l>>] + f[<<i2, l>>]
          /\ ColumnOf(e, y, q) = f[<<i0, q>>] + f[<<i, q>>] + f[<<i2, q>>]
      BY <1>1, <2>1, Zenon
    <2>4. /\ ColumnOf(e, y, l) = f[<<i0, j0>>] + f[<<i, j0>>] + f[<<i2, j0>>]
          /\ ColumnOf(e, y, q) = f[<<i0, j2>>] + f[<<i, j2>>] + f[<<i2, j2>>]
      BY <2>2, <2>3, Zenon
    <2> QED
      BY <1>2, <2>1, <2>4, Zenon
  <1>6. NeighboursOf(e, y, x, l, q) = RingWith(f, i, x, i0, i2, j0, j2)
    <2> DEFINE a == f[<<i0, j0>>]
               b == f[<<i0, x>>]
               c == f[<<i0, j2>>]
               d == f[<<i, j0>>]
               m == f[<<i, x>>]
               p == f[<<i, j2>>]
               u == f[<<i2, j0>>]
               v == f[<<i2, x>>]
               w == f[<<i2, j2>>]
    <2>1. /\ a \in Int /\ b \in Int /\ c \in Int /\ d \in Int /\ m \in Int
          /\ p \in Int /\ u \in Int /\ v \in Int /\ w \in Int
      BY <1>1, <1>4 DEF OnPlaces
    <2>2. NeighboursOf(e, y, x, l, q) = (a + d + u) + ((b + m + v) - m) + (c + p + w)
      BY <1>5, Zenon DEF NeighboursOf
    <2>3. RingWith(f, i, x, i0, i2, j0, j2) = (a + b + c) + (d + p) + (u + v + w)
      BY Zenon DEF RingWith
    <2> HIDE DEF a, b, c, d, m, p, u, v, w
    <2> QED
      BY <2>1, <2>2, <2>3
  <1> QED
    BY <1>5, <1>6 DEF i, l, q, i0, i2, j0, j2

LEMMA FullSmoothNear ==
    ASSUME NEW f, NEW width, NEW R, NEW group, NEW comp, NEW maxv \in Nat \ {0},
           NEW s \in Percent, Given(f, width, R, group, -1..maxv, comp), width <= comp.cols,
           NEW y \in Span(maxv), NEW x \in Span(comp.cols)
    PROVE  SmoothNear(f, s, BoxAt(R + y, x, 1, 1),
                      fullsize_smooth_downsample(group, width, comp, maxv, s)[y][x])
  <1> DEFINE e == Expanded(group, width, comp.cols)
             i == R + y
             m == f[<<i, x>>]
             n == RingWith(f, i, x, i - 1, i + 1, x - 1, x + 1)
             t == FullMean(m, n, s)
             p == <<i, x>>
  <1>1. /\ y \in Int /\ R \in Int /\ i \in Int /\ x \in Int /\ comp.cols \in Nat
        /\ y - 1 \in -1..maxv /\ y \in -1..maxv /\ y + 1 \in -1..maxv
        /\ IsPicture(f, width)
    BY DEF Given, Span
  <1>2. ReadsFrom(e, f, R, -1..maxv, comp.cols)
    <2>1. -1..maxv \in SUBSET Int
      OBVIOUS
    <2> QED
      BY <1>1, <2>1, ExpandedShows DEF Given
  <1>3. fullsize_smooth_downsample(group, width, comp, maxv, s)[y][x]
            = Sample(FullTerm(m, n, s) \div SCALE)
    <2> DEFINE k == NeighboursOf(e, y, x, IF x = 0 THEN 0 ELSE x - 1,
                                 Smaller(x + 1, comp.cols - 1))
    <2>1. fullsize_smooth_downsample(group, width, comp, maxv, s)[y][x]
              = Sample(FullTerm(e[y][x], k, s) \div SCALE)
      BY FullSmoothSample
    <2>2. e[y][x] = m /\ k = n
      <3> DEFINE c == comp.cols
                 ys == -1..maxv
      <3>1. /\ c \in Nat /\ width <= c /\ ys \in SUBSET Int /\ ReadsFrom(e, f, R, ys, c)
            /\ y - 1 \in ys /\ y \in ys /\ y + 1 \in ys /\ x \in Span(c)
        BY <1>1, <1>2
      <3> HIDE DEF e, c, ys
      <3>2. LET h == R + y
            IN  /\ e[y][x] = f[<<h, x>>]
                /\ NeighboursOf(e, y, x, IF x = 0 THEN 0 ELSE x - 1, Smaller(x + 1, c - 1))
                       = RingWith(f, h, x, h - 1, h + 1, x - 1, x + 1)
        BY <1>1, <3>1, NeighboursRing
      <3> QED
        BY <3>2 DEF c
    <2> HIDE DEF e, k, m, n
    <2> QED
      BY <2>1, <2>2
  <1>4. m \in Samples /\ n \in SumsOfSamples(8)
    <2>1. m \in Samples
      BY <1>1, PixelsAre
    <2> DEFINE i0 == i - 1
               i2 == i + 1
               j0 == x - 1
               j2 == x + 1
    <2>2. i0 \in Int /\ i2 \in Int /\ j0 \in Int /\ j2 \in Int
      BY <1>1
    <2> HIDE DEF i, i0, i2, j0, j2
    <2>3. RingWith(f, i, x, i0, i2, j0, j2) \in SumsOfSamples(8)
      BY <1>1, <2>2, RingBounds, Zenon
    <2> QED
      BY <2>1, <2>3 DEF i, i0, i2, j0, j2
  <1>5. SmoothOf(f, s)[p] = t
    <2>1. p \in Int \X Int
      BY <1>1
    <2>2. Total(f, Ring(p)) = n
      BY <1>1, PixelsAre, RingIs
    <2>3. SmoothOf(f, s)[p] = (1024 - 8 * s) * f[p] + s * Total(f, Ring(p))
      BY <2>1 DEF SmoothOf
    <2> QED
      BY <2>2, <2>3 DEF FullMean
  <1> HIDE DEF m, n, i
  <1> DEFINE v == FullTerm(m, n, s) \div SCALE
  <1>6. MeanIs(v, t, 1024)
    BY <1>4, FullWeights
  <1> HIDE DEF t, p, v
  <1>7. Sample(v) = v /\ IsMean(1024, v, t) /\ t \in Int
    <2>1. 1024 \in Nat \ {0} /\ 1024 % 2 = 0
      OBVIOUS
    <2>2. t \in Int
      BY <1>6 DEF MeanIs
    <2> QED
      BY <1>6, <2>1, <2>2, MeanOfTerm
  <1>8. /\ Cardinality(BoxAt(i, x, 1, 1)) = 1
        /\ Total(SmoothOf(f, s), BoxAt(i, x, 1, 1)) = t
    <2>1. BoxAt(i, x, 1, 1) = {p}
      BY <1>1, OneBox DEF p
    <2>2. SmoothOf(f, s)[p] \in Int
      BY <1>5, <1>7
    <2> QED
      BY <1>5, <2>1, <2>2, TotalOne
  <1> QED
    BY <1>3, <1>7, <1>8 DEF SmoothNear, i, v

\* h2v2_smooth_downsample for one sample, m the four samples and w those around them.
FourTerm(m, w, s) == m * (16384 - s * 80) + w * (s * 16) + 32768
FourMean(m, w, s) == (1024 - 5 * s) * m + s * w

LEMMA FourWeights ==
    ASSUME NEW s \in Percent, NEW m \in SumsOfSamples(4), NEW w \in SumsOfSamples(20)
    PROVE  MeanIs(FourTerm(m, w, s) \div SCALE, FourMean(m, w, s), 4096)
  <1> USE DEF Percent, SumsOfSamples, MAXJSAMPLE
  <1> DEFINE a == s * m
             b == s * w
             z == 1024 - 5 * s
             t == FourMean(m, w, s)
  <1>1. a \in Nat /\ b \in Nat /\ b <= 5100 * s /\ z \in Nat
    <2>1. b \in Nat /\ b <= s * 5100
      BY SMTT(30)
    <2> QED
      BY <2>1
  <1>2. t = 1024 * m - 5 * a + b
    <2>1. (1024 - 5 * s) * m = 1024 * m - 5 * (s * m)
      BY SMTT(30)
    <2> QED
      BY <2>1 DEF FourMean
  <1>3. z * m \in Nat /\ z * m <= z * 1020
    <2> HIDE DEF z
    <2> QED
      BY <1>1, SMTT(30)
  <1>4. t \in Nat /\ t <= 255 * 4096
    <2> DEFINE p == z * m
    <2>1. t = p + b
      BY DEF FourMean
    <2>2. p \in Nat /\ p <= 1020 * 1024 - 5100 * s
      BY <1>3
    <2> HIDE DEF t, p, b
    <2> QED
      BY <1>1, <2>1, <2>2
  <1>5. FourTerm(m, w, s) = 16384 * m - 80 * a + 16 * b + 32768
    <2>1. m * (16384 - s * 80) = 16384 * m - 80 * (s * m)
      BY SMTT(30)
    <2>2. w * (s * 16) = 16 * (s * w)
      BY SMTT(30)
    <2> QED
      BY <2>1, <2>2 DEF FourTerm
  <1>6. FourTerm(m, w, s) = 16 * (t + 2048)
    <2> HIDE DEF a, b, t
    <2> QED
      BY <1>1, <1>2, <1>5
  <1> HIDE DEF t
  <1>7. (16 * (t + 2048)) \div 65536 = (t + 2048) \div 4096
    BY <1>4, SMTT(30)
  <1> QED
    BY <1>4, <1>6, <1>7 DEF t, SCALE, MeanIs

\* h2v2_smooth_downsample for a place, l and q the columns beside the pair.
PairOf(e, y, a, b) == e[y][a] + e[y][b]
MembersOf(e, y, x) == PairOf(e, y, x, x + 1) + PairOf(e, y + 1, x, x + 1)
CornersOf(e, y, l, q) == PairOf(e, y - 1, l, q) + PairOf(e, y + 2, l, q)
EdgesOf(e, y, x, l, q) == CornersOf(e, y, x, x + 1) + PairOf(e, y, l, q) + PairOf(e, y + 1, l, q)
OthersOf(e, y, x, l, q) == 2 * EdgesOf(e, y, x, l, q) + CornersOf(e, y, l, q)

LEMMA FourSmoothSample ==
    ASSUME NEW group, NEW width, NEW comp, NEW maxv, NEW s,
           NEW y \in Span(maxv \div 2), NEW x \in Span(comp.cols)
    PROVE  LET e == Expanded(group, width, comp.cols * 2)
               w == OthersOf(e, 2 * y, 2 * x, LeftOf(x), RightOf(x, comp.cols))
           IN  h2v2_smooth_downsample(group, width, comp, maxv, s)[y][x]
                   = Sample(FourTerm(MembersOf(e, 2 * y, 2 * x), w, s) \div SCALE)
  BY DEF h2v2_smooth_downsample, FourTerm, MembersOf, OthersOf, EdgesOf, CornersOf, PairOf

\* The same of a picture, its rows i0..i3 and its columns j0..j3.
FourMembers(f, i1, i2, j1, j2) ==
    (f[<<i1, j1>>] + f[<<i1, j2>>]) + (f[<<i2, j1>>] + f[<<i2, j2>>])
FourOthers(f, i0, i1, i2, i3, j0, j1, j2, j3) ==
    2 * (((f[<<i0, j1>>] + f[<<i0, j2>>]) + (f[<<i3, j1>>] + f[<<i3, j2>>]))
         + (f[<<i1, j0>>] + f[<<i1, j3>>]) + (f[<<i2, j0>>] + f[<<i2, j3>>]))
      + ((f[<<i0, j0>>] + f[<<i0, j3>>]) + (f[<<i3, j0>>] + f[<<i3, j3>>]))

LEMMA FourRings ==
    ASSUME NEW f, OnPlaces(f),
           NEW i0 \in Int, NEW i1 \in Int, NEW i2 \in Int, NEW i3 \in Int,
           NEW j0 \in Int, NEW j1 \in Int, NEW j2 \in Int, NEW j3 \in Int
    PROVE  RingWith(f, i1, j1, i0, i2, j0, j2) + RingWith(f, i1, j2, i0, i2, j1, j3)
               + (RingWith(f, i2, j1, i1, i3, j0, j2) + RingWith(f, i2, j2, i1, i3, j1, j3))
           = 3 * FourMembers(f, i1, i2, j1, j2) + FourOthers(f, i0, i1, i2, i3, j0, j1, j2, j3)
  <1> DEFINE a0 == f[<<i0, j0>>]
             a1 == f[<<i0, j1>>]
             a2 == f[<<i0, j2>>]
             a3 == f[<<i0, j3>>]
             b0 == f[<<i1, j0>>]
             b1 == f[<<i1, j1>>]
             b2 == f[<<i1, j2>>]
             b3 == f[<<i1, j3>>]
             c0 == f[<<i2, j0>>]
             c1 == f[<<i2, j1>>]
             c2 == f[<<i2, j2>>]
             c3 == f[<<i2, j3>>]
             d0 == f[<<i3, j0>>]
             d1 == f[<<i3, j1>>]
             d2 == f[<<i3, j2>>]
             d3 == f[<<i3, j3>>]
  <1>1. /\ a0 \in Int /\ a1 \in Int /\ a2 \in Int /\ a3 \in Int
        /\ b0 \in Int /\ b1 \in Int /\ b2 \in Int /\ b3 \in Int
        /\ c0 \in Int /\ c1 \in Int /\ c2 \in Int /\ c3 \in Int
        /\ d0 \in Int /\ d1 \in Int /\ d2 \in Int /\ d3 \in Int
    BY DEF OnPlaces
  <1>2. /\ RingWith(f, i1, j1, i0, i2, j0, j2) = (a0 + a1 + a2) + (b0 + b2) + (c0 + c1 + c2)
        /\ RingWith(f, i1, j2, i0, i2, j1, j3) = (a1 + a2 + a3) + (b1 + b3) + (c1 + c2 + c3)
        /\ RingWith(f, i2, j1, i1, i3, j0, j2) = (b0 + b1 + b2) + (c0 + c2) + (d0 + d1 + d2)
        /\ RingWith(f, i2, j2, i1, i3, j1, j3) = (b1 + b2 + b3) + (c1 + c3) + (d1 + d2 + d3)
    BY Zenon DEF RingWith
  <1>3. /\ FourMembers(f, i1, i2, j1, j2) = (b1 + b2) + (c1 + c2)
        /\ FourOthers(f, i0, i1, i2, i3, j0, j1, j2, j3)
               = 2 * (((a1 + a2) + (d1 + d2)) + (b0 + b3) + (c0 + c3)) + ((a0 + a3) + (d0 + d3))
    BY Zenon DEF FourMembers, FourOthers
  <1> HIDE DEF a0, a1, a2, a3, b0, b1, b2, b3, c0, c1, c2, c3, d0, d1, d2, d3
  <1> QED
    BY <1>1, <1>2, <1>3

LEMMA FourBounds ==
    ASSUME NEW f, NEW width, IsPicture(f, width),
           NEW i0 \in Int, NEW i1 \in Int, NEW i2 \in Int, NEW i3 \in Int,
           NEW j0 \in Int, NEW j1 \in Int, NEW j2 \in Int, NEW j3 \in Int
    PROVE  /\ FourMembers(f, i1, i2, j1, j2) \in SumsOfSamples(4)
           /\ FourOthers(f, i0, i1, i2, i3, j0, j1, j2, j3) \in SumsOfSamples(20)
  <1> DEFINE a0 == f[<<i0, j0>>]
             a1 == f[<<i0, j1>>]
             a2 == f[<<i0, j2>>]
             a3 == f[<<i0, j3>>]
             b0 == f[<<i1, j0>>]
             b1 == f[<<i1, j1>>]
             b2 == f[<<i1, j2>>]
             b3 == f[<<i1, j3>>]
             c0 == f[<<i2, j0>>]
             c1 == f[<<i2, j1>>]
             c2 == f[<<i2, j2>>]
             c3 == f[<<i2, j3>>]
             d0 == f[<<i3, j0>>]
             d1 == f[<<i3, j1>>]
             d2 == f[<<i3, j2>>]
             d3 == f[<<i3, j3>>]
  <1>1. /\ a0 \in Samples /\ a1 \in Samples /\ a2 \in Samples /\ a3 \in Samples
        /\ b0 \in Samples /\ b1 \in Samples /\ b2 \in Samples /\ b3 \in Samples
        /\ c0 \in Samples /\ c1 \in Samples /\ c2 \in Samples /\ c3 \in Samples
        /\ d0 \in Samples /\ d1 \in Samples /\ d2 \in Samples /\ d3 \in Samples
    BY PixelsAre
  <1>2. /\ FourMembers(f, i1, i2, j1, j2) = (b1 + b2) + (c1 + c2)
        /\ FourOthers(f, i0, i1, i2, i3, j0, j1, j2, j3)
               = 2 * (((a1 + a2) + (d1 + d2)) + (b0 + b3) + (c0 + c3)) + ((a0 + a3) + (d0 + d3))
    BY Zenon DEF FourMembers, FourOthers
  <1> HIDE DEF a0, a1, a2, a3, b0, b1, b2, b3, c0, c1, c2, c3, d0, d1, d2, d3
  <1> DEFINE beside == ((a1 + a2) + (d1 + d2)) + (b0 + b3) + (c0 + c3)
             corners == (a0 + a3) + (d0 + d3)
  <1>3. (b1 + b2) + (c1 + c2) \in SumsOfSamples(4)
    BY <1>1 DEF Samples, MAXJSAMPLE, SumsOfSamples
  <1>4. beside \in SumsOfSamples(8)
    BY <1>1 DEF Samples, MAXJSAMPLE, SumsOfSamples
  <1>5. corners \in SumsOfSamples(4)
    BY <1>1 DEF Samples, MAXJSAMPLE, SumsOfSamples
  <1>6. FourOthers(f, i0, i1, i2, i3, j0, j1, j2, j3) = 2 * beside + corners
    BY <1>2
  <1> HIDE DEF beside, corners
  <1>7. 2 * beside + corners \in SumsOfSamples(20)
    BY <1>4, <1>5 DEF MAXJSAMPLE, SumsOfSamples
  <1> QED
    BY <1>2, <1>3, <1>6, <1>7

LEMMA BesidePair ==
    ASSUME NEW f, NEW width, IsPicture(f, width), NEW r \in Int,
           NEW cols \in Nat, width <= cols * 2, NEW x \in Span(cols)
    PROVE  /\ LeftOf(x) \in Span(cols * 2) /\ RightOf(x, cols) \in Span(cols * 2)
           /\ f[<<r, LeftOf(x)>>] = f[<<r, 2 * x - 1>>]
           /\ f[<<r, RightOf(x, cols)>>] = f[<<r, 2 * x + 2>>]
  <1> DEFINE n == cols * 2
             z == 2 * x + 1
  <1>1. /\ n \in Nat /\ width <= n /\ 0 \in Span(n) /\ z \in Span(n) /\ z \in Int /\ x \in Nat
        /\ LeftOf(x) \in Span(n) /\ RightOf(x, cols) \in Span(n)
        /\ z + 1 = 2 * x + 2 /\ (x = cols - 1 => z = n - 1)
    BY DEF Span, LeftOf, RightOf
  <1>2. f[<<r, LeftOf(x)>>] = f[<<r, 2 * x - 1>>]
    <2>1. CASE x = 0
      <3>1. f[<<r, 0>>] = f[<<r, -1>>]
        <4> HIDE DEF n
        <4> QED
          BY <1>1, Beside
      <3>2. 2 * x - 1 = -1 /\ LeftOf(x) = 0
        BY <2>1 DEF LeftOf
      <3> QED
        BY <3>1, <3>2
    <2>2. CASE x # 0
      BY <2>2 DEF LeftOf
    <2> QED
      BY <2>1, <2>2
  <1>3. f[<<r, RightOf(x, cols)>>] = f[<<r, 2 * x + 2>>]
    <2>1. CASE x = cols - 1
      <3>1. f[<<r, z>>] = f[<<r, z + 1>>]
        <4>1. z = n - 1
          BY <1>1, <2>1
        <4>2. z \in Span(n) /\ n \in Nat /\ width <= n
          BY <1>1
        <4> HIDE DEF n, z
        <4> QED
          BY <4>1, <4>2, Beside, Zenon
      <3>2. RightOf(x, cols) = z
        BY <2>1 DEF RightOf
      <3> QED
        BY <1>1, <3>1, <3>2
    <2>2. CASE x # cols - 1
      BY <2>2 DEF RightOf
    <2> QED
      BY <2>1, <2>2
  <1> QED
    BY <1>1, <1>2, <1>3

LEMMA OthersAround ==
    ASSUME NEW f, NEW width, IsPicture(f, width), NEW R \in Int,
           NEW cols \in Nat, width <= cols * 2,
           NEW e, NEW ys \in SUBSET Int, ReadsFrom(e, f, R, ys, cols * 2),
           NEW y \in Int, y - 1 \in ys, y \in ys, y + 1 \in ys, y + 2 \in ys,
           NEW x \in Span(cols)
    PROVE  LET i == R + y
               j == 2 * x
           IN  /\ MembersOf(e, y, j) = FourMembers(f, i, i + 1, j, j + 1)
               /\ OthersOf(e, y, j, LeftOf(x), RightOf(x, cols))
                      = FourOthers(f, i - 1, i, i + 1, i + 2, j - 1, j, j + 1, j + 2)
  <1> DEFINE i == R + y
             i0 == i - 1
             i2 == i + 1
             i3 == i + 2
             j == 2 * x
             j0 == j - 1
             j2 == j + 1
             j3 == j + 2
             l == LeftOf(x)
             q == RightOf(x, cols)
             n == cols * 2
  <1>1. /\ i \in Int /\ i0 \in Int /\ i2 \in Int /\ i3 \in Int
        /\ j \in Int /\ j0 \in Int /\ j2 \in Int /\ j3 \in Int
        /\ R + (y - 1) = i0 /\ R + (y + 1) = i2 /\ R + (y + 2) = i3
        /\ j \in Span(n) /\ j2 \in Span(n)
    BY DEF Span
  <1>2. /\ l \in Span(n) /\ q \in Span(n)
        /\ \A r \in Int : f[<<r, l>>] = f[<<r, j0>>] /\ f[<<r, q>>] = f[<<r, j3>>]
    <2>1. ASSUME NEW r \in Int
          PROVE  /\ l \in Span(n) /\ q \in Span(n)
                 /\ f[<<r, l>>] = f[<<r, j0>>] /\ f[<<r, q>>] = f[<<r, j3>>]
      BY BesidePair
    <2> QED
      BY <1>1, <2>1
  <1>3. ASSUME NEW z \in Span(n)
        PROVE  /\ e[y - 1][z] = f[<<i0, z>>] /\ e[y][z] = f[<<i, z>>]
               /\ e[y + 1][z] = f[<<i2, z>>] /\ e[y + 2][z] = f[<<i3, z>>]
    <2>1. /\ e[y - 1][z] = f[<<R + (y - 1), z>>] /\ e[y][z] = f[<<R + y, z>>]
          /\ e[y + 1][z] = f[<<R + (y + 1), z>>] /\ e[y + 2][z] = f[<<R + (y + 2), z>>]
      BY Zenon DEF ReadsFrom
    <2> HIDE DEF i0, i2, i3
    <2> QED
      BY <1>1, <2>1
  <1> HIDE DEF i, i0, i2, i3, j, j0, j3, l, q, n
  <1>4. MembersOf(e, y, j) = FourMembers(f, i, i2, j, j2)
    <2>1. /\ e[y][j] = f[<<i, j>>] /\ e[y][j2] = f[<<i, j2>>]
          /\ e[y + 1][j] = f[<<i2, j>>] /\ e[y + 1][j2] = f[<<i2, j2>>]
      BY <1>1, <1>3, Zenon
    <2> QED
      BY <2>1, Zenon DEF MembersOf, FourMembers, PairOf
  <1>5. OthersOf(e, y, j, l, q) = FourOthers(f, i0, i, i2, i3, j0, j, j2, j3)
    <2>1. /\ e[y - 1][j] = f[<<i0, j>>] /\ e[y - 1][j2] = f[<<i0, j2>>]
          /\ e[y + 2][j] = f[<<i3, j>>] /\ e[y + 2][j2] = f[<<i3, j2>>]
      BY <1>1, <1>3, Zenon
    <2>2. /\ e[y - 1][l] = f[<<i0, j0>>] /\ e[y - 1][q] = f[<<i0, j3>>]
          /\ e[y][l] = f[<<i, j0>>] /\ e[y][q] = f[<<i, j3>>]
          /\ e[y + 1][l] = f[<<i2, j0>>] /\ e[y + 1][q] = f[<<i2, j3>>]
          /\ e[y + 2][l] = f[<<i3, j0>>] /\ e[y + 2][q] = f[<<i3, j3>>]
      <3>1. /\ f[<<i0, l>>] = f[<<i0, j0>>] /\ f[<<i0, q>>] = f[<<i0, j3>>]
            /\ f[<<i, l>>] = f[<<i, j0>>] /\ f[<<i, q>>] = f[<<i, j3>>]
            /\ f[<<i2, l>>] = f[<<i2, j0>>] /\ f[<<i2, q>>] = f[<<i2, j3>>]
            /\ f[<<i3, l>>] = f[<<i3, j0>>] /\ f[<<i3, q>>] = f[<<i3, j3>>]
        BY <1>1, <1>2, Zenon
      <3>2. /\ e[y - 1][l] = f[<<i0, l>>] /\ e[y - 1][q] = f[<<i0, q>>]
            /\ e[y][l] = f[<<i, l>>] /\ e[y][q] = f[<<i, q>>]
            /\ e[y + 1][l] = f[<<i2, l>>] /\ e[y + 1][q] = f[<<i2, q>>]
            /\ e[y + 2][l] = f[<<i3, l>>] /\ e[y + 2][q] = f[<<i3, q>>]
        BY <1>2, <1>3, Zenon
      <3> QED
        BY <3>1, <3>2, Zenon
    <2> QED
      BY <2>1, <2>2, Zenon DEF OthersOf, EdgesOf, CornersOf, PairOf, FourOthers
  <1> QED
    BY <1>4, <1>5 DEF i, i0, i2, i3, j, j0, j2, j3, l, q

\* What smoothing makes of the four places of a pair of rows and columns.
FourSmooth(f, s, i0, i1, i2, i3, j0, j1, j2, j3) ==
    BoxTotal(SmoothOf(f, s), i1, j1)
        = FourMean(FourMembers(f, i1, i2, j1, j2),
                   FourOthers(f, i0, i1, i2, i3, j0, j1, j2, j3), s)

LEMMA FourSmoothed ==
    ASSUME NEW f, OnPlaces(f), NEW s \in Percent,
           NEW i0 \in Int, NEW i1 \in Int, NEW i2 \in Int, NEW i3 \in Int,
           NEW j0 \in Int, NEW j1 \in Int, NEW j2 \in Int, NEW j3 \in Int,
           i0 = i1 - 1, i2 = i1 + 1, i3 = i2 + 1, j0 = j1 - 1, j2 = j1 + 1, j3 = j2 + 1
    PROVE  /\ OnPlaces(SmoothOf(f, s))
           /\ FourSmooth(f, s, i0, i1, i2, i3, j0, j1, j2, j3)
  <1> DEFINE g == SmoothOf(f, s)
             z == 1024 - 8 * s
  <1>1. ASSUME NEW i \in Int, NEW k \in Int, NEW j \in Int, NEW l \in Int,
               NEW h \in Int, NEW q \in Int, h = i - 1, k = i + 1, q = j - 1, l = j + 1
        PROVE  /\ RingWith(f, i, j, h, k, q, l) \in Int
               /\ g[<<i, j>>] = z * f[<<i, j>>] + s * RingWith(f, i, j, h, k, q, l)
    <2>1. Total(f, Ring(<<i, j>>)) = RingWith(f, i, j, h, k, q, l)
      BY <1>1, RingIs
    <2>2. g[<<i, j>>] = z * f[<<i, j>>] + s * Total(f, Ring(<<i, j>>))
      BY DEF SmoothOf
    <2>3. RingWith(f, i, j, h, k, q, l) \in Int
      BY DEF RingWith, OnPlaces
    <2> QED
      BY <2>1, <2>2, <2>3
  <1>2. OnPlaces(g)
    <2> SUFFICES ASSUME NEW i \in Int, NEW j \in Int
                 PROVE  g[<<i, j>>] \in Int
      BY Zenon DEF OnPlaces
    <2>1. i - 1 \in Int /\ i + 1 \in Int /\ j - 1 \in Int /\ j + 1 \in Int
      OBVIOUS
    <2> DEFINE u == RingWith(f, i, j, i - 1, i + 1, j - 1, j + 1)
               m == f[<<i, j>>]
    <2>2. u \in Int /\ g[<<i, j>>] = z * m + s * u
      BY <1>1, <2>1
    <2>3. m \in Int /\ s \in Int /\ z \in Int
      BY DEF OnPlaces, Percent
    <2> HIDE DEF u, m, g, z
    <2> QED
      BY <2>2, <2>3
  <1> DEFINE a == f[<<i1, j1>>]
             b == f[<<i1, j2>>]
             c == f[<<i2, j1>>]
             d == f[<<i2, j2>>]
             A == RingWith(f, i1, j1, i0, i2, j0, j2)
             B == RingWith(f, i1, j2, i0, i2, j1, j3)
             C == RingWith(f, i2, j1, i1, i3, j0, j2)
             D == RingWith(f, i2, j2, i1, i3, j1, j3)
             m == FourMembers(f, i1, i2, j1, j2)
             w == FourOthers(f, i0, i1, i2, i3, j0, j1, j2, j3)
  <1>3. /\ A \in Int /\ B \in Int /\ C \in Int /\ D \in Int
        /\ g[<<i1, j1>>] = z * a + s * A /\ g[<<i1, j2>>] = z * b + s * B
        /\ g[<<i2, j1>>] = z * c + s * C /\ g[<<i2, j2>>] = z * d + s * D
    <2> HIDE DEF g, z
    <2>1. i1 = i2 - 1 /\ j1 = j2 - 1
      OBVIOUS
    <2>2. A \in Int /\ g[<<i1, j1>>] = z * a + s * A
      BY <1>1
    <2>3. B \in Int /\ g[<<i1, j2>>] = z * b + s * B
      BY <1>1, <2>1
    <2>4. C \in Int /\ g[<<i2, j1>>] = z * c + s * C
      BY <1>1, <2>1
    <2>5. D \in Int /\ g[<<i2, j2>>] = z * d + s * D
      BY <1>1, <2>1
    <2> QED
      BY <2>2, <2>3, <2>4, <2>5
  <1>4. A + B + (C + D) = 3 * m + w
    BY FourRings
  <1>5. /\ a \in Int /\ b \in Int /\ c \in Int /\ d \in Int /\ w \in Int
        /\ m = (a + b) + (c + d)
    <2>1. /\ a \in Int /\ b \in Int /\ c \in Int /\ d \in Int
          /\ m = (a + b) + (c + d)
      BY DEF OnPlaces, FourMembers
    <2>2. w \in Int
      <3> HIDE DEF a, b, c, d, A, B, C, D, m, w
      <3>1. A + B + (C + D) \in Int /\ m \in Int
        BY <1>3, <2>1
      <3>2. w \in Int
        BY DEF OnPlaces, FourOthers, w
      <3> QED
        BY <3>2
    <2> QED
      BY <2>1, <2>2
  <1>6. BoxTotal(g, i1, j1) = g[<<i1, j1>>] + g[<<i1, j2>>] + g[<<i2, j1>>] + g[<<i2, j2>>]
    BY Zenon DEF BoxTotal
  <1>7. z \in Int /\ s \in Int /\ z = 1024 - 8 * s
    BY DEF Percent
  <1> HIDE DEF g, z, a, b, c, d, A, B, C, D, m, w
  <1>8. BoxTotal(g, i1, j1) = z * m + s * (3 * m + w)
    <2>1. z * m = z * a + z * b + (z * c + z * d)
      BY <1>5, <1>7, SMTT(30)
    <2>2. s * (A + B + (C + D)) = s * A + s * B + (s * C + s * D)
      BY <1>3, <1>7, SMTT(30)
    <2>3. /\ z * a \in Int /\ z * b \in Int /\ z * c \in Int /\ z * d \in Int
          /\ s * A \in Int /\ s * B \in Int /\ s * C \in Int /\ s * D \in Int
      BY <1>3, <1>5, <1>7
    <2>4. BoxTotal(g, i1, j1) = (z * a + s * A) + (z * b + s * B) + (z * c + s * C) + (z * d + s * D)
      BY <1>3, <1>6
    <2>5. BoxTotal(g, i1, j1) = z * m + s * (A + B + (C + D))
      BY <2>1, <2>2, <2>3, <2>4
    <2> QED
      BY <1>4, <2>5
  <1>9. z * m + s * (3 * m + w) = FourMean(m, w, s)
    <2>1. m \in Int
      BY <1>5
    <2>2. z * m = 1024 * m - 8 * (s * m)
      BY <1>7, <2>1, SMTT(30)
    <2>3. s * (3 * m + w) = 3 * (s * m) + s * w
      BY <1>5, <1>7, <2>1, SMTT(30)
    <2>4. (1024 - 5 * s) * m = 1024 * m - 5 * (s * m)
      BY <1>7, <2>1, SMTT(30)
    <2> QED
      BY <1>5, <1>7, <2>1, <2>2, <2>3, <2>4 DEF FourMean
  <1> QED
    BY <1>2, <1>8, <1>9 DEF g, m, w, FourSmooth

LEMMA H2v2SmoothNear ==
    ASSUME NEW f, NEW width, NEW R, NEW group, NEW comp, NEW maxv \in Nat \ {0}, maxv % 2 = 0,
           NEW s \in Percent, Given(f, width, R, group, -1..maxv, comp), width <= comp.cols * 2,
           NEW y \in Span(maxv \div 2), NEW x \in Span(comp.cols)
    PROVE  SmoothNear(f, s, BoxAt(R + 2 * y, 2 * x, 2, 2),
                      h2v2_smooth_downsample(group, width, comp, maxv, s)[y][x])
  <1> DEFINE e == Expanded(group, width, comp.cols * 2)
             i == R + 2 * y
             j == 2 * x
             m == FourMembers(f, i, i + 1, j, j + 1)
             w == FourOthers(f, i - 1, i, i + 1, i + 2, j - 1, j, j + 1, j + 2)
             t == FourMean(m, w, s)
             ys == -1..maxv
  <1>1. /\ y \in Int /\ R \in Int /\ i \in Int /\ x \in Int /\ comp.cols \in Nat /\ j \in Int
        /\ comp.cols * 2 \in Nat /\ 2 * y \in Int
        /\ 2 * y - 1 \in ys /\ 2 * y \in ys /\ 2 * y + 1 \in ys /\ 2 * y + 2 \in ys
        /\ IsPicture(f, width) /\ ys \in SUBSET Int
    BY DEF Given, Span
  <1>2. OnPlaces(f)
    BY <1>1, PixelsAre
  <1>3. ReadsFrom(e, f, R, ys, comp.cols * 2)
    BY <1>1, ExpandedShows DEF Given
  <1>4. h2v2_smooth_downsample(group, width, comp, maxv, s)[y][x]
            = Sample(FourTerm(m, w, s) \div SCALE)
    <2> DEFINE k == OthersOf(e, 2 * y, j, LeftOf(x), RightOf(x, comp.cols))
    <2>1. h2v2_smooth_downsample(group, width, comp, maxv, s)[y][x]
              = Sample(FourTerm(MembersOf(e, 2 * y, j), k, s) \div SCALE)
      BY FourSmoothSample
    <2>2. MembersOf(e, 2 * y, j) = m /\ k = w
      <3> DEFINE c == comp.cols
                 v == 2 * y
      <3>1. /\ c \in Nat /\ width <= c * 2 /\ ReadsFrom(e, f, R, ys, c * 2) /\ x \in Span(c)
            /\ v \in Int /\ v - 1 \in ys /\ v \in ys /\ v + 1 \in ys /\ v + 2 \in ys
        BY <1>1, <1>3
      <3> HIDE DEF e, c, ys, v
      <3>2. LET a == R + v
                b == 2 * x
            IN  /\ MembersOf(e, v, b) = FourMembers(f, a, a + 1, b, b + 1)
                /\ OthersOf(e, v, b, LeftOf(x), RightOf(x, c))
                       = FourOthers(f, a - 1, a, a + 1, a + 2, b - 1, b, b + 1, b + 2)
        BY <1>1, <3>1, OthersAround
      <3> QED
        BY <3>2 DEF c, v
    <2> HIDE DEF e, k, m, w
    <2> QED
      BY <2>1, <2>2
  <1>5. /\ m \in SumsOfSamples(4) /\ w \in SumsOfSamples(20)
        /\ OnPlaces(SmoothOf(f, s)) /\ BoxTotal(SmoothOf(f, s), i, j) = t
    <2> DEFINE i0 == i - 1
               i2 == i + 1
               i3 == i + 2
               j0 == j - 1
               j2 == j + 1
               j3 == j + 2
    <2>1. /\ i0 \in Int /\ i2 \in Int /\ i3 \in Int /\ j0 \in Int /\ j2 \in Int /\ j3 \in Int
          /\ i0 = i - 1 /\ i2 = i + 1 /\ i3 = i2 + 1
          /\ j0 = j - 1 /\ j2 = j + 1 /\ j3 = j2 + 1
      BY <1>1
    <2> HIDE DEF i, j, i0, i2, i3, j0, j2, j3
    <2>2. /\ FourMembers(f, i, i2, j, j2) \in SumsOfSamples(4)
          /\ FourOthers(f, i0, i, i2, i3, j0, j, j2, j3) \in SumsOfSamples(20)
      BY <1>1, <2>1, FourBounds, Zenon
    <2>3. OnPlaces(SmoothOf(f, s)) /\ FourSmooth(f, s, i0, i, i2, i3, j0, j, j2, j3)
      BY <1>1, <1>2, <2>1, FourSmoothed
    <2> QED
      BY <2>2, <2>3 DEF FourSmooth, i, j, i0, i2, i3, j0, j2, j3
  <1> HIDE DEF m, w, i, j
  <1> DEFINE v == FourTerm(m, w, s) \div SCALE
  <1>6. MeanIs(v, t, 4096)
    BY <1>5, FourWeights
  <1> HIDE DEF t, v
  <1>7. Sample(v) = v /\ IsMean(4096, v, t)
    <2>1. 4096 \in Nat \ {0} /\ 4096 % 2 = 0
      OBVIOUS
    <2> QED
      BY <1>6, <2>1, MeanOfTerm
  <1>8. /\ Cardinality(BoxAt(i, j, 2, 2)) = 4
        /\ Total(SmoothOf(f, s), BoxAt(i, j, 2, 2)) = t
    BY <1>1, <1>5, FourTotal
  <1>9. 1024 * Cardinality(BoxAt(i, j, 2, 2)) = 4096
    BY <1>8
  <1>10. SmoothNear(f, s, BoxAt(i, j, 2, 2), v)
    BY <1>7, <1>8, <1>9 DEF SmoothNear
  <1>11. h2v2_smooth_downsample(group, width, comp, maxv, s)[y][x] = v
    <2>1. Sample(v) = v
      BY <1>7
    <2> QED
      BY <1>4, <2>1, Zenon DEF v
  <1> QED
    BY <1>10, <1>11, Zenon DEF i, j

-----------------------------------------------------------------------------
(* The method a component has. *)

\* What jinit_downsampler makes sure of.
DownsamplerFits(comp, maxh, maxv) ==
    /\ comp.hg \in Nat \ {0} /\ comp.vg \in Nat \ {0}
    /\ comp.down \in {"fullsize", "h2v1", "h2v2", "int", "fullsize_smooth", "h2v2_smooth"}
    /\ comp.down \in {"fullsize", "fullsize_smooth"} => maxh = comp.hg /\ maxv = comp.vg
    /\ comp.down = "h2v1" => maxh = 2 * comp.hg /\ maxv = comp.vg
    /\ comp.down \in {"h2v2", "h2v2_smooth"} => maxh = 2 * comp.hg /\ maxv = 2 * comp.vg
    /\ comp.down = "int" => maxh % comp.hg = 0 /\ maxv % comp.vg = 0

SampledNear(f, comp, smoothing, box, v) ==
    IF NeedsContext(comp.down) THEN SmoothNear(f, smoothing, box, v) ELSE MeanNear(f, box, v)

\* The rows of a group with its context are also those of the group alone.
LEMMA GivenMore ==
    ASSUME NEW f, NEW width, NEW R, NEW group, NEW comp, NEW maxv \in Nat \ {0},
           Given(f, width, R, group, -1..maxv, comp)
    PROVE  Given(f, width, R, group, Span(maxv), comp)
  <1>1. Span(maxv) \subseteq -1..maxv
    BY DEF Span
  <1> QED
    BY <1>1, Zenon DEF Given, Shows

LEMMA DivideTwice ==
    ASSUME NEW n \in Nat \ {0}
    PROVE  /\ n \div n = 1 /\ (2 * n) \div n = 2
           /\ (2 * n) \div 2 = n /\ (2 * n) % 2 = 0
  <1>1. n = 1 * n + 0 /\ 2 * n = 2 * n + 0 /\ 0 \in 0..(n - 1)
    OBVIOUS
  <1>2. (1 * n + 0) \div n = 1 /\ (2 * n + 0) \div n = 2
    BY <1>1, DividedIs
  <1> QED
    BY <1>1, <1>2

LEMMA MethodNear ==
    ASSUME NEW f, NEW s, s.maxh \in Nat \ {0}, s.maxv \in Nat \ {0}, s.smoothing \in Percent,
           NEW comp, DownsamplerFits(comp, s.maxh, s.maxv),
           s.width <= comp.cols * (s.maxh \div comp.hg),
           NEW R, NEW group, Given(f, s.width, R, group, Span(s.maxv), comp),
           NeedsContext(comp.down) => Given(f, s.width, R, group, -1..s.maxv, comp),
           NEW y \in Span(comp.vg), NEW x \in Span(comp.cols)
    PROVE  LET h == s.maxh \div comp.hg
               v == s.maxv \div comp.vg
           IN  SampledNear(f, comp, s.smoothing, BoxAt(R + v * y, h * x, v, h),
                           downsample(group, comp, s)[y][x])
  <1> DEFINE h == s.maxh \div comp.hg
             v == s.maxv \div comp.vg
             w == downsample(group, comp, s)[y][x]
  <1>1. /\ comp.hg \in Nat \ {0} /\ comp.vg \in Nat \ {0}
        /\ comp.down \in {"fullsize", "h2v1", "h2v2", "int", "fullsize_smooth", "h2v2_smooth"}
    BY DEF DownsamplerFits
  <1>2. R \in Int /\ y \in Int /\ x \in Int /\ comp.cols \in Nat
    BY DEF Given, Span
  <1>3. CASE comp.down = "fullsize"
    <2>1. s.maxh = comp.hg /\ s.maxv = comp.vg /\ h = 1 /\ v = 1
      BY <1>1, <1>3, DivideTwice DEF DownsamplerFits
    <2>2. MeanNear(f, BoxAt(R + y, x, 1, 1),
                   fullsize_downsample(group, s.width, comp, s.maxv)[y][x])
      BY <2>1, FullSizeNear
    <2>3. w = fullsize_downsample(group, s.width, comp, s.maxv)[y][x]
      BY <1>3, Zenon DEF downsample
    <2>4. ~NeedsContext(comp.down)
      BY <1>3 DEF NeedsContext
    <2>5. v * y = y /\ h * x = x
      BY <1>2, <2>1
    <2> HIDE DEF v, h, w
    <2> QED
      BY <2>1, <2>2, <2>3, <2>4, <2>5, Zenon DEF SampledNear, v, h, w
  <1>4. CASE comp.down = "h2v1"
    <2>1. s.maxh = 2 * comp.hg /\ s.maxv = comp.vg /\ h = 2 /\ v = 1
      BY <1>1, <1>4, DivideTwice DEF DownsamplerFits
    <2>2. MeanNear(f, BoxAt(R + y, 2 * x, 1, 2),
                   h2v1_downsample(group, s.width, comp, s.maxv)[y][x])
      BY <2>1, H2v1Near
    <2>3. w = h2v1_downsample(group, s.width, comp, s.maxv)[y][x]
      BY <1>4, Zenon DEF downsample
    <2>4. ~NeedsContext(comp.down)
      BY <1>4 DEF NeedsContext
    <2>5. v * y = y
      BY <1>2, <2>1
    <2> HIDE DEF v, h, w
    <2> QED
      BY <2>1, <2>2, <2>3, <2>4, <2>5, Zenon DEF SampledNear, v, h, w
  <1>5. CASE comp.down = "h2v2"
    <2>1. /\ s.maxh = 2 * comp.hg /\ s.maxv = 2 * comp.vg /\ h = 2 /\ v = 2
          /\ s.maxv \div 2 = comp.vg /\ s.maxv % 2 = 0
      BY <1>1, <1>5, DivideTwice DEF DownsamplerFits
    <2>2. MeanNear(f, BoxAt(R + 2 * y, 2 * x, 2, 2),
                   h2v2_downsample(group, s.width, comp, s.maxv)[y][x])
      BY <2>1, H2v2Near
    <2>3. w = h2v2_downsample(group, s.width, comp, s.maxv)[y][x]
      BY <1>5, Zenon DEF downsample
    <2>4. ~NeedsContext(comp.down)
      BY <1>5 DEF NeedsContext
    <2> HIDE DEF v, h, w
    <2> QED
      BY <2>1, <2>2, <2>3, <2>4, Zenon DEF SampledNear, v, h, w
  <1>6. CASE comp.down = "int"
    <2>1. /\ h \in Nat \ {0} /\ v \in Nat \ {0} /\ s.maxv = comp.vg * v /\ s.maxv % v = 0
          /\ s.maxv \div v = comp.vg
      <3>1. s.maxh % comp.hg = 0 /\ s.maxv % comp.vg = 0
        BY <1>6 DEF DownsamplerFits
      <3>2. h \in Nat \ {0} /\ v \in Nat \ {0} /\ s.maxv = comp.vg * v
        BY <1>1, <3>1, Quotient
      <3> HIDE DEF v
      <3>3. comp.vg * v = comp.vg * v + 0 /\ 0 \in 0..(v - 1)
        <4>1. comp.vg * v \in Int
          BY <1>1, <3>2
        <4> QED
          BY <3>2, <4>1
      <3>4. (comp.vg * v + 0) \div v = comp.vg /\ (comp.vg * v + 0) % v = 0
        <4> DEFINE c == comp.vg
        <4>1. c \in Int
          BY <1>1
        <4> HIDE DEF c
        <4>2. (c * v + 0) \div v = c /\ (c * v + 0) % v = 0
          BY <3>2, <3>3, <4>1, DividedIs, Zenon
        <4> QED
          BY <4>2 DEF c
      <3> QED
        BY <3>2, <3>3, <3>4
    <2>2. w = int_downsample(group, s.width, comp, h, v, s.maxv)[y][x]
      BY <1>6, Zenon DEF downsample
    <2>3. ~NeedsContext(comp.down)
      BY <1>6 DEF NeedsContext
    <2> HIDE DEF v, h, w
    <2>4. MeanNear(f, BoxAt(R + v * y, h * x, v, h),
                   int_downsample(group, s.width, comp, h, v, s.maxv)[y][x])
      BY <2>1, IntNear
    <2> QED
      BY <2>2, <2>3, <2>4, Zenon DEF SampledNear, v, h, w
  <1>7. CASE comp.down = "fullsize_smooth"
    <2>1. s.maxh = comp.hg /\ s.maxv = comp.vg /\ h = 1 /\ v = 1
      BY <1>1, <1>7, DivideTwice DEF DownsamplerFits
    <2>2. NeedsContext(comp.down)
      BY <1>7 DEF NeedsContext
    <2>3. s.width <= comp.cols
      BY <1>2, <2>1
    <2>4. SmoothNear(f, s.smoothing, BoxAt(R + y, x, 1, 1),
                   fullsize_smooth_downsample(group, s.width, comp, s.maxv, s.smoothing)[y][x])
      BY <2>1, <2>2, <2>3, FullSmoothNear
    <2>5. w = fullsize_smooth_downsample(group, s.width, comp, s.maxv, s.smoothing)[y][x]
      BY <1>7, Zenon DEF downsample
    <2>6. v * y = y /\ h * x = x
      BY <1>2, <2>1
    <2> HIDE DEF v, h, w
    <2> QED
      BY <2>1, <2>2, <2>4, <2>5, <2>6, Zenon DEF SampledNear, v, h, w
  <1>8. CASE comp.down = "h2v2_smooth"
    <2>1. /\ s.maxh = 2 * comp.hg /\ s.maxv = 2 * comp.vg /\ h = 2 /\ v = 2
          /\ s.maxv \div 2 = comp.vg /\ s.maxv % 2 = 0
      BY <1>1, <1>8, DivideTwice DEF DownsamplerFits
    <2>2. NeedsContext(comp.down)
      BY <1>8 DEF NeedsContext
    <2>3. s.width <= comp.cols * 2
      BY <1>2, <2>1
    <2>4. SmoothNear(f, s.smoothing, BoxAt(R + 2 * y, 2 * x, 2, 2),
                   h2v2_smooth_downsample(group, s.width, comp, s.maxv, s.smoothing)[y][x])
      BY <2>1, <2>2, <2>3, H2v2SmoothNear
    <2>5. w = h2v2_smooth_downsample(group, s.width, comp, s.maxv, s.smoothing)[y][x]
      BY <1>8, Zenon DEF downsample
    <2> HIDE DEF v, h, w
    <2> QED
      BY <2>1, <2>2, <2>4, <2>5, Zenon DEF SampledNear, v, h, w
  <1> QED
    BY <1>1, <1>3, <1>4, <1>5, <1>6, <1>7, <1>8
=============================================================================
