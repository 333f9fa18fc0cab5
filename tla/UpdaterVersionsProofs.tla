------------------------ MODULE UpdaterVersionsProofs ------------------------
(***************************************************************************)
(* Proofs about a_newer_than_b(): for every field width W, the loop over   *)
(* the three fields with its early returns orders W-bit versions as the    *)
(* numbers they spell, uninitialized fields read as 0.                     *)
(***************************************************************************)
EXTENDS MCUpdaterVersions, FiniteSetTheorems, TLAPS

\* The values of a W-bit field.
Field == 0..AllOnes

\* The base of VersionNumber.
Base == 2^W

\* The filtered value of field i of version v.
F(v, i) == Filtered(v[i])

\* The loop of a_newer_than_b() as a function of the rest of the loop.
CmpBody(u, v, f) ==
    [i \in 1..4 |-> IF i = 4 THEN FALSE
                    ELSE IF F(u, i) # F(v, i) THEN F(u, i) > F(v, i)
                    ELSE f[i + 1]]

\* a_newer_than_b() written out field by field.
Unrolled(u, v) ==
    IF F(u, 1) # F(v, 1) THEN F(u, 1) > F(v, 1)
    ELSE IF F(u, 2) # F(v, 2) THEN F(u, 2) > F(v, 2)
    ELSE IF F(u, 3) # F(v, 3) THEN F(u, 3) > F(v, 3)
    ELSE FALSE

-----------------------------------------------------------------------------
\* 2^W is a natural of at least 2: it is the number of subsets of 1..W,
\* among which {} and {1}.
LEMMA BaseAtLeastTwo == Base \in Nat /\ Base >= 2
<1>1. IsFiniteSet(1..W) /\ Cardinality(1..W) = W
  BY WidthAssumption, FS_Interval
<1>2. IsFiniteSet(SUBSET (1..W)) /\ Cardinality(SUBSET (1..W)) = 2^W
  BY <1>1, FS_SUBSET
<1>3. Cardinality(SUBSET (1..W)) \in Nat
  BY <1>2, FS_CardinalityType
<1> DEFINE Empty1 == {{}}
           Two == Empty1 \cup {{1}}
<1>4. Cardinality(Two) = 2
  <2>1. IsFiniteSet(Empty1) /\ Cardinality(Empty1) = 1
    BY FS_Singleton DEF Empty1
  <2>2. {1} \notin Empty1
    BY DEF Empty1
  <2>3. Cardinality(Two) = Cardinality(Empty1) + 1
    BY <2>1, <2>2, FS_AddElement, Zenon DEF Two
  <2> QED
    BY <2>1, <2>3
<1>5. Cardinality(Two) <= Cardinality(SUBSET (1..W))
  <2>1. Two \in SUBSET SUBSET (1..W)
    BY WidthAssumption DEF Two, Empty1
  <2> QED
    BY <1>2, <2>1, FS_Subset
<1> QED
  BY <1>2, <1>3, <1>4, <1>5 DEF Base

\* A filtered W-bit field is a digit in base 2^W.
LEMMA FilteredDigit ==
    ASSUME NEW x \in Field
    PROVE  Filtered(x) \in 0..Base - 1
BY BaseAtLeastTwo DEF Filtered, Field, AllOnes, Base

\* Two-digit numbers in base B compare as their digits do, high digit first.
LEMMA DigitOrder ==
    ASSUME NEW B \in Nat \ {0}, NEW p \in Nat, NEW q \in Nat,
           NEW r \in 0..B - 1, NEW s \in 0..B - 1
    PROVE  /\ (p * B + r > q * B + s) <=> (p > q \/ (p = q /\ r > s))
           /\ (p * B + r = q * B + s) <=> (p = q /\ r = s)
<1>1. CASE p > q
  <2>1. p * B >= q * B + B
    <3>1. p >= q + 1
      BY <1>1
    <3> QED
      BY <3>1
  <2> QED
    BY <1>1, <2>1
<1>2. CASE q > p
  <2>1. q * B >= p * B + B
    <3>1. q >= p + 1
      BY <1>2
    <3> QED
      BY <3>1
  <2> QED
    BY <1>2, <2>1
<1>3. CASE p = q
  BY <1>3
<1> QED
  BY <1>1, <1>2, <1>3
\* The recursive function of a_newer_than_b() exists and is unique on
\* 1..4, so the comparison is the loop written out.
LEMMA NewerUnrolled ==
    ASSUME NEW u, NEW v
    PROVE  ANewerThanB(u, v) = Unrolled(u, v)
<1> DEFINE c3 == IF F(u, 3) # F(v, 3) THEN F(u, 3) > F(v, 3) ELSE FALSE
           c2 == IF F(u, 2) # F(v, 2) THEN F(u, 2) > F(v, 2) ELSE c3
           c1 == IF F(u, 1) # F(v, 1) THEN F(u, 1) > F(v, 1) ELSE c2
           g == [i \in 1..4 |-> IF i = 4 THEN FALSE ELSE IF i = 3 THEN c3
                                ELSE IF i = 2 THEN c2 ELSE c1]
           cmp == CHOOSE f : f = CmpBody(u, v, f)
<1>1. ANewerThanB(u, v) = cmp[1]
  BY DEF ANewerThanB, CmpBody, F
<1>2. g = CmpBody(u, v, g)
  BY DEF CmpBody
<1>3. cmp = CmpBody(u, v, cmp)
  BY <1>2
<1>4. /\ 4 \in 1..4 /\ 3 \in 1..4 /\ 2 \in 1..4 /\ 1 \in 1..4
      /\ 3 # 4 /\ 2 # 4 /\ 1 # 4 /\ 3 + 1 = 4 /\ 2 + 1 = 3 /\ 1 + 1 = 2
  OBVIOUS
<1>5. \A i \in 1..4 :
        cmp[i] = IF i = 4 THEN FALSE
                 ELSE IF F(u, i) # F(v, i) THEN F(u, i) > F(v, i)
                 ELSE cmp[i + 1]
  BY <1>3, Zenon DEF CmpBody
<1>6. cmp[4] = FALSE
  BY <1>4, <1>5, Zenon
<1>7. cmp[3] = c3
  BY <1>4, <1>5, <1>6, Zenon
<1>8. cmp[2] = c2
  BY <1>4, <1>5, <1>7, Zenon
<1>9. cmp[1] = c1
  BY <1>4, <1>5, <1>8, Zenon
<1> QED
  BY <1>1, <1>9 DEF Unrolled

-----------------------------------------------------------------------------
(* For every field width W, a_newer_than_b() on two versions of W-bit      *)
(* fields holds exactly when the first is the larger number in base 2^W,   *)
(* fields filtered: its loop, which returns at the first field that        *)
(* differs, compares the two as numbers, most significant field first, and *)
(* 0xffffffff headers count as version 0.                                  *)
THEOREM NewerIsNumericOrder ==
    \A u, v \in Field \X Field \X Field :
       ANewerThanB(u, v) = (VersionNumber(u) > VersionNumber(v))
<1> SUFFICES ASSUME NEW u \in Field \X Field \X Field,
                    NEW v \in Field \X Field \X Field
             PROVE  ANewerThanB(u, v) = (VersionNumber(u) > VersionNumber(v))
  OBVIOUS
<1>1. Base \in Nat \ {0}
  BY BaseAtLeastTwo
<1> DEFINE a1 == F(u, 1)  a2 == F(u, 2)  a3 == F(u, 3)
           b1 == F(v, 1)  b2 == F(v, 2)  b3 == F(v, 3)
           X == a1 * Base + a2
           Y == b1 * Base + b2
<1>2. /\ a1 \in 0..Base - 1 /\ a2 \in 0..Base - 1 /\ a3 \in 0..Base - 1
      /\ b1 \in 0..Base - 1 /\ b2 \in 0..Base - 1 /\ b3 \in 0..Base - 1
  BY FilteredDigit DEF F, Field
<1>3. X \in Nat /\ Y \in Nat
  BY <1>1, <1>2
<1>4. /\ (X > Y) <=> (a1 > b1 \/ (a1 = b1 /\ a2 > b2))
      /\ (X = Y) <=> (a1 = b1 /\ a2 = b2)
  BY <1>1, <1>2, DigitOrder
<1>5. (X * Base + a3 > Y * Base + b3) <=> (X > Y \/ (X = Y /\ a3 > b3))
  BY <1>1, <1>2, <1>3, DigitOrder
<1>6. VersionNumber(u) = X * Base + a3 /\ VersionNumber(v) = Y * Base + b3
  BY DEF VersionNumber, F, Base
<1>7. ANewerThanB(u, v) = Unrolled(u, v)
  BY NewerUnrolled
\* The comparisons the loop returns are Boolean.
<1> DEFINE Lex == a1 > b1 \/ (a1 = b1 /\ a2 > b2) \/ (a1 = b1 /\ a2 = b2 /\ a3 > b3)
<1>8. Unrolled(u, v) \in BOOLEAN /\ (Unrolled(u, v) <=> Lex)
  <2>1. CASE a1 # b1
    <3>1. Unrolled(u, v) = (a1 > b1)
      BY <2>1, Zenon DEF Unrolled, a1, b1
    <3>2. (a1 > b1) \in BOOLEAN /\ (Lex <=> a1 > b1)
      BY <2>1, <1>2
    <3> QED
      BY <3>1, <3>2, Zenon
  <2>2. CASE a1 = b1 /\ a2 # b2
    <3>1. Unrolled(u, v) = (a2 > b2)
      BY <2>2, Zenon DEF Unrolled, a1, b1, a2, b2
    <3>2. (a2 > b2) \in BOOLEAN /\ (Lex <=> a2 > b2)
      BY <2>2, <1>2
    <3> QED
      BY <3>1, <3>2, Zenon
  <2>3. CASE a1 = b1 /\ a2 = b2
    <3>1. CASE a3 # b3
      <4>1. Unrolled(u, v) = (a3 > b3)
        BY <2>3, <3>1, Zenon DEF Unrolled, a1, b1, a2, b2, a3, b3
      <4>2. (a3 > b3) \in BOOLEAN /\ (Lex <=> a3 > b3)
        BY <2>3, <3>1, <1>2
      <4> QED
        BY <4>1, <4>2, Zenon
    <3>2. CASE a3 = b3
      <4>1. Unrolled(u, v) = FALSE
        BY <2>3, <3>2, Zenon DEF Unrolled, a1, b1, a2, b2, a3, b3
      <4>2. ~Lex
        BY <2>3, <3>2, <1>2
      <4> QED
        BY <4>1, <4>2, Zenon
    <3> QED
      BY <3>1, <3>2
  <2> QED
    BY <2>1, <2>2, <2>3
<1>9. (VersionNumber(u) > VersionNumber(v)) \in BOOLEAN
      /\ ((VersionNumber(u) > VersionNumber(v)) <=> Lex)
  BY <1>4, <1>5, <1>6
<1> QED
  BY <1>7, <1>8, <1>9, Zenon
-----------------------------------------------------------------------------
\* The pairs the run draws are pairs of W-bit versions.
VersionsInv == a \in Versions /\ b \in Versions

\* For every field width, the check the updater_versions run makes holds in
\* every state: a_newer_than_b() agrees with the numeric order on every pair
\* of versions whose fields are 0, 1, the largest W-bit value and the
\* all-ones value that marks an uninitialized header.
THEOREM NewerMatchesSafe == Spec => []NewerMatchesReference
<1>1. Init => VersionsInv
  BY DEF Init, VersionsInv
<1>2. VersionsInv /\ [Next]_<<a, b>> => VersionsInv'
  BY DEF Next, VersionsInv
<1>3. VersionsInv => NewerMatchesReference
  <2>1. FieldValues \subseteq Field
    BY BaseAtLeastTwo DEF FieldValues, Field, AllOnes, Base
  <2>2. Versions \subseteq Field \X Field \X Field
    BY <2>1 DEF Versions
  <2> QED
    BY <2>2, NewerIsNumericOrder DEF VersionsInv, NewerMatchesReference
<1> QED
  BY <1>1, <1>2, <1>3, PTL DEF Spec
====
