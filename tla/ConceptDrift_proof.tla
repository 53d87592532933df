------------------------- MODULE ConceptDrift_proof -------------------------
(***************************************************************************)
(* Proofs about the detectors of ConceptDrift, for every stream of errors, *)
(* not the few patterns TLC follows: Page-Hinkley and DDM on a stream up   *)
(* to the length of a window, ADWIN's histogram on a stream of any length. *)
(***************************************************************************)
EXTENDS ConceptDrift, TLAPS, WellFoundedInduction, FiniteSetTheorems, SequenceTheorems

\* What the default parameters give: the sum forgets at most a ten-thousandth
\* of itself with each element, delta is more than a rounding, and the stream
\* is a window (core/monitor.py:31), not endless.
SlowForgetting ==
  /\ PHAlpha \in 9999 .. 10000
  /\ PHDelta \in Nat /\ PHDelta >= 2
  /\ PHThreshold \in Nat
  /\ MaxLength <= 512

\* 256 times a bound on 1 + 1/2 + ... + 1/n.
Harmonic(n) ==
  IF n <= 4 THEN 256 * n
  ELSE IF n <= 16 THEN 1024 + 64 * (n - 4)
  ELSE IF n <= 64 THEN 1792 + 16 * (n - 16)
  ELSE IF n <= 256 THEN 2560 + 4 * (n - 64)
  ELSE 3328 + (n - 256)

\* The bound on the harmonic sum grows by at least 1/(n + 1) with an element.
LEMMA HarmonicGrows ==
  ASSUME NEW n \in Nat, n < 512
  PROVE  /\ Harmonic(n) \in Nat /\ Harmonic(n + 1) \in Nat
         /\ Harmonic(n) <= 3584
         /\ \E k \in Nat : Harmonic(n + 1) = Harmonic(n) + k /\ k * (n + 1) >= 256
<1>1. CASE n + 1 <= 4
  <2>1. Harmonic(n + 1) = Harmonic(n) + 256 /\ Harmonic(n) = 256 * n
    BY <1>1 DEF Harmonic
  <2>2. Harmonic(n) \in Nat /\ Harmonic(n + 1) \in Nat /\ Harmonic(n) <= 3584
    BY <1>1, <2>1
  <2>3. 256 \in Nat /\ 256 * (n + 1) >= 256
    BY <1>1
  <2>4. \E k \in Nat : Harmonic(n + 1) = Harmonic(n) + k /\ k * (n + 1) >= 256
    <3> WITNESS 256 \in Nat
    <3> QED BY <2>1, <2>3
  <2> QED BY <2>2, <2>4
<1>2. CASE 4 < n + 1 /\ n + 1 <= 16
  <2>1. Harmonic(n + 1) = Harmonic(n) + 64 /\ Harmonic(n) = 1024 + 64 * (n - 4)
    BY <1>2 DEF Harmonic
  <2>2. Harmonic(n) \in Nat /\ Harmonic(n + 1) \in Nat /\ Harmonic(n) <= 3584
    BY <1>2, <2>1
  <2>3. 64 \in Nat /\ 64 * (n + 1) >= 256
    BY <1>2
  <2>4. \E k \in Nat : Harmonic(n + 1) = Harmonic(n) + k /\ k * (n + 1) >= 256
    <3> WITNESS 64 \in Nat
    <3> QED BY <2>1, <2>3
  <2> QED BY <2>2, <2>4
<1>3. CASE 16 < n + 1 /\ n + 1 <= 64
  <2>1. Harmonic(n + 1) = Harmonic(n) + 16 /\ Harmonic(n) = 1792 + 16 * (n - 16)
    BY <1>3 DEF Harmonic
  <2>2. Harmonic(n) \in Nat /\ Harmonic(n + 1) \in Nat /\ Harmonic(n) <= 3584
    BY <1>3, <2>1
  <2>3. 16 \in Nat /\ 16 * (n + 1) >= 256
    BY <1>3
  <2>4. \E k \in Nat : Harmonic(n + 1) = Harmonic(n) + k /\ k * (n + 1) >= 256
    <3> WITNESS 16 \in Nat
    <3> QED BY <2>1, <2>3
  <2> QED BY <2>2, <2>4
<1>4. CASE 64 < n + 1 /\ n + 1 <= 256
  <2>1. Harmonic(n + 1) = Harmonic(n) + 4 /\ Harmonic(n) = 2560 + 4 * (n - 64)
    BY <1>4 DEF Harmonic
  <2>2. Harmonic(n) \in Nat /\ Harmonic(n + 1) \in Nat /\ Harmonic(n) <= 3584
    BY <1>4, <2>1
  <2>3. 4 \in Nat /\ 4 * (n + 1) >= 256
    BY <1>4
  <2>4. \E k \in Nat : Harmonic(n + 1) = Harmonic(n) + k /\ k * (n + 1) >= 256
    <3> WITNESS 4 \in Nat
    <3> QED BY <2>1, <2>3
  <2> QED BY <2>2, <2>4
<1>5. CASE 256 < n + 1
  <2>1. Harmonic(n + 1) = Harmonic(n) + 1 /\ Harmonic(n) = 3328 + (n - 256)
    BY <1>5 DEF Harmonic
  <2>2. Harmonic(n) \in Nat /\ Harmonic(n + 1) \in Nat /\ Harmonic(n) <= 3584
    BY <1>5, <2>1
  <2>3. 1 \in Nat /\ 1 * (n + 1) >= 256
    BY <1>5
  <2>4. \E k \in Nat : Harmonic(n + 1) = Harmonic(n) + k /\ k * (n + 1) >= 256
    <3> WITNESS 1 \in Nat
    <3> QED BY <2>1, <2>3
  <2> QED BY <2>2, <2>4
<1> QED BY <1>1, <1>2, <1>3, <1>4, <1>5

\* The rate, rounded down.
LEMMA RateBounds ==
  \A w \in Nat, n \in Nat \ {0} :
    /\ Rate(w, n) \in Nat
    /\ n * Rate(w, n) <= 1000 * w
    /\ 1000 * w < n * Rate(w, n) + n
<1> TAKE w \in Nat, n \in Nat \ {0}
<1> DEFINE a == 1000 * w
<1>1. a \in Nat
  OBVIOUS
<1> HIDE DEF a
<1>2. a \div n \in Nat /\ n * (a \div n) <= a /\ a < n * (a \div n) + n
  BY <1>1
<1> QED BY <1>2 DEF Rate, a

LEMMA TimesMonotone ==
  ASSUME NEW a \in Nat, NEW b \in Nat, NEW c \in Nat, a <= b
  PROVE  a * c <= b * c /\ a * c \in Nat /\ b * c \in Nat
<1>1. PICK d \in Nat : b = a + d
  <2>1. b - a \in Nat /\ b = a + (b - a)
    OBVIOUS
  <2> QED BY <2>1
<1>2. b * c = a * c + d * c /\ d * c \in Nat /\ a * c \in Nat
  BY <1>1
<1> QED BY <1>2

-----------------------------------------------------------------------------
(* The sum never sinks so low that forgetting lifts it                     *)

\* How low the sum may be when w of the n elements were errors.
Held(sum, rates, deltas) == 256 * (0 - sum) <= 1000 * rates + 256 * deltas
\* With w errors among n elements the sum is held up by what they added.
HeldUp(sum, w, n) == Held(sum, w * Harmonic(n), n * PHDelta)

\* What the rates of w errors add up to.
LEMMA OneMoreRate ==
  ASSUME NEW n \in Nat, n < 512, NEW w \in Nat, NEW v \in Nat, w <= v
  PROVE  1000 * (w * Harmonic(n)) + 256 * Rate(v, n + 1) <= 1000 * (v * Harmonic(n + 1))
<1> DEFINE r == Rate(v, n + 1)
           h == Harmonic(n)
           m == n + 1
<1>1. PICK k \in Nat : Harmonic(n + 1) = h + k /\ k * m >= 256
  BY HarmonicGrows
<1>2. r \in Nat /\ m * r <= 1000 * v
  BY RateBounds
<1>3. h \in Nat /\ m \in Nat
  BY HarmonicGrows
<1> HIDE DEF r, h, m
<1>4. 256 * r <= (k * m) * r
  BY <1>1, <1>2, <1>3, TimesMonotone
<1>5. (m * r) * k <= (1000 * v) * k
  BY <1>2, <1>3, TimesMonotone
<1>6. (k * m) * r = (m * r) * k
  BY <1>2, <1>3
<1>7. 256 * r <= 1000 * (v * k)
  <2>1. (1000 * v) * k = 1000 * (v * k)
    OBVIOUS
  <2> QED BY <1>2, <1>3, <1>4, <1>5, <1>6, <2>1
<1>8. w * h <= v * h /\ w * h \in Nat /\ v * h \in Nat
  BY <1>3, TimesMonotone
<1>9. v * (h + k) = v * h + v * k /\ v * k \in Nat
  BY <1>3
<1>10. 1000 * (w * h) + 256 * r <= 1000 * (v * (h + k))
  BY <1>2, <1>7, <1>8, <1>9
<1> QED BY <1>1, <1>10 DEF r, h, m

\* A sum that is not too low stays below what it takes to rise by itself.
LEMMA SumIsHeld ==
  ASSUME SlowForgetting, NEW n \in Nat, n < 512, NEW w \in Nat, NEW sum \in Int,
         HeldUp(sum, w, n), NEW v \in Nat, w <= v
  PROVE  0 - sum <= 10000 * (Rate(v, n + 1) + PHDelta)
<1> DEFINE r == Rate(v, n + 1)
           h == Harmonic(n)
           m == n + 1
<1>1. r \in Nat /\ 1000 * v < m * r + m
  BY RateBounds
<1>2. h \in Nat /\ h <= 3584 /\ m \in Nat /\ m <= 512
  BY HarmonicGrows
<1>3. 256 * (0 - sum) <= 1000 * (w * h) + 256 * (n * PHDelta)
  BY DEF HeldUp, Held
<1> HIDE DEF r, h, m
<1>4. 1000 * (w * h) <= 1000 * (v * h)
  BY <1>2, TimesMonotone
<1>5. (1000 * v) * h <= (m * r + m) * h /\ 1000 * (v * h) = (1000 * v) * h
  BY <1>1, <1>2, TimesMonotone
<1>6. (m * r + m) * h = (m * h) * (r + 1)
  BY <1>1, <1>2
<1>7. m * h <= 512 * 3584
  <2>1. m * h <= 512 * h
    BY <1>2, TimesMonotone
  <2> QED BY <1>2, <2>1
<1>8. (m * h) * (r + 1) <= 1835008 * (r + 1)
  BY <1>1, <1>2, <1>7, TimesMonotone
<1>9. n * PHDelta <= 512 * PHDelta
  BY TimesMonotone DEF SlowForgetting
<1>10. n * PHDelta \in Nat /\ w * h \in Nat /\ v * h \in Nat /\ PHDelta \in Nat /\ PHDelta >= 2
  BY <1>2 DEF SlowForgetting
<1>11. 256 * (0 - sum) <= 1835008 * (r + 1) + 256 * (512 * PHDelta)
  BY <1>1, <1>2, <1>3, <1>4, <1>5, <1>6, <1>8, <1>9, <1>10
<1>12. 0 - sum <= 10000 * (r + PHDelta)
  BY <1>1, <1>10, <1>11
<1> QED BY <1>12 DEF r, m

\* What is left of a sum when an element has made it forget: it rises by no
\* more than d, and it does not sink below both itself and 0.
Remains(sum) == (PHAlpha * sum) \div 10000
RisesBy(sum, d) ==
  /\ Remains(sum) \in Int /\ Remains(sum) <= sum + d
  /\ Remains(sum) >= sum \/ Remains(sum) >= 0
NotTooLow(sum, d) == 0 - sum <= 10000 * d

\* With little forgetting a sum that is not too low rises by no more than delta.
LEMMA Forgotten ==
  ASSUME SlowForgetting
  PROVE  \A sum \in Int, d \in Nat : NotTooLow(sum, d) => RisesBy(sum, d)
<1> TAKE sum \in Int, d \in Nat
<1> HAVE NotTooLow(sum, d)
<1> DEFINE a == PHAlpha * sum
           kept == a \div 10000
<1>1. a \in Int
  BY DEF SlowForgetting
<1>2. a = 10000 * sum \/ a = 10000 * sum - sum
  BY DEF SlowForgetting
<1> HIDE DEF a
<1>3. kept \in Int /\ 10000 * kept <= a /\ a < 10000 * kept + 10000
  BY <1>1
<1> HIDE DEF kept
<1>4. kept <= sum + d /\ (kept >= sum \/ kept >= 0)
  BY <1>1, <1>2, <1>3 DEF NotTooLow
<1> QED BY <1>3, <1>4 DEF kept, a, Remains, RisesBy

-----------------------------------------------------------------------------
(* Page-Hinkley counts errors                                              *)

\* The errors counted so far towards the next signal.
Counting == IF ph.drift THEN 0 ELSE ph.since

PHTypes ==
  /\ errors \in Seq({0, 1}) /\ Len(errors) <= MaxLength
  /\ ph.n = Len(errors) /\ ph.wrong \in Nat /\ ph.since \in Nat /\ ph.drift \in BOOLEAN
  /\ ph.sum \in Int /\ ph.min \in Int /\ ph.min <= 0 /\ ph.min <= ph.sum

\* The sum has risen by no more than the errors, and not enough to signal.
PHInv ==
  /\ PHTypes
  /\ HeldUp(ph.sum, ph.wrong, ph.n)
  /\ ph.sum - ph.min <= PHThreshold
  /\ ph.sum - ph.min <= 1000 * Counting
  /\ PageHinkleyCounts

\* An element keeps the bounds on Page-Hinkley's sum and on its minimum.
LEMMA PHStep ==
  ASSUME SlowForgetting, PHInv, NEW e \in {0, 1}, Len(errors) < MaxLength, Update(e)
  PROVE  PHInv'
<1> DEFINE n == ph.n
           v == ph.wrong + e
           r == Rate(v, n + 1)
           kept == (PHAlpha * ph.sum) \div 10000
           sum == kept + 1000 * e - r - PHDelta
           min == IF sum < ph.min THEN sum ELSE ph.min
           fires == sum - min > PHThreshold
           since == IF ph.drift THEN e ELSE ph.since + e
<1>1. ph' = [n |-> n + 1, wrong |-> v, sum |-> IF fires THEN 0 ELSE sum,
             min |-> IF fires THEN 0 ELSE min, drift |-> fires, since |-> since]
  BY DEF Update, PHUpdated, PHSums
<1>2. errors' = Append(errors, e)
  BY DEF Update
<1>3. /\ errors \in Seq({0, 1}) /\ Len(errors) \in Nat /\ n = Len(errors) /\ n < 512
      /\ ph.wrong \in Nat /\ ph.since \in Nat /\ ph.drift \in BOOLEAN
      /\ ph.sum \in Int /\ ph.min \in Int /\ ph.min <= 0 /\ ph.min <= ph.sum
      /\ PHDelta \in Nat /\ PHThreshold \in Nat /\ MaxLength \in Nat
  BY BoundAssumption DEF PHInv, PHTypes, SlowForgetting
<1>4. v \in Nat /\ ph.wrong <= v /\ n \in Nat
  BY <1>3
<1>5. r \in Nat
  <2> DEFINE m == n + 1
  <2>1. m \in Nat \ {0} /\ v \in Nat
    BY <1>4
  <2> HIDE DEF m, v
  <2>2. Rate(v, m) \in Nat
    BY <2>1, RateBounds
  <2> QED BY <2>2 DEF m
<1>6. 0 - ph.sum <= 10000 * (r + PHDelta)
  BY <1>3, <1>4, SumIsHeld, SMTT(30) DEF PHInv
<1>7. /\ kept \in Int /\ kept <= ph.sum + (r + PHDelta)
      /\ kept >= ph.sum \/ kept >= 0
  <2> DEFINE d == r + PHDelta
             s == ph.sum
  <2>1. d \in Nat /\ s \in Int /\ NotTooLow(s, d)
    <3>1. d \in Nat /\ s \in Int
      BY <1>3, <1>5
    <3>2. NotTooLow(s, d)
      BY <1>6 DEF NotTooLow
    <3> QED BY <3>1, <3>2
  <2> HIDE DEF d, s
  <2>2. RisesBy(s, d)
    BY <2>1, Forgotten
  <2> QED BY <2>2 DEF d, s, RisesBy, Remains
<1>8. 1000 * (ph.wrong * Harmonic(n)) + 256 * r <= 1000 * (v * Harmonic(n + 1))
  BY <1>3, <1>4, OneMoreRate
<1>9. /\ Harmonic(n) \in Nat /\ Harmonic(n + 1) \in Nat
  BY <1>3, <1>4, HarmonicGrows
<1>10. 256 * (0 - ph.sum) <= 1000 * (ph.wrong * Harmonic(n)) + 256 * (n * PHDelta)
  BY DEF PHInv, HeldUp, Held
<1>11. ph.sum - ph.min <= PHThreshold /\ ph.sum - ph.min <= 1000 * Counting
  BY DEF PHInv
<1>12. Counting \in Nat /\ since = Counting + e
  <2>1. CASE ph.drift
    BY <1>3, <2>1 DEF Counting
  <2>2. CASE ~ph.drift
    BY <1>3, <2>2 DEF Counting
  <2> QED BY <2>1, <2>2
<1> HIDE DEF n, v, r, kept, since
<1>13. sum \in Int /\ sum <= ph.sum + 1000 * e
  BY <1>3, <1>5, <1>7
<1>14. HeldUp(sum, v, n + 1)
  <2>1. 0 - sum <= (0 - ph.sum) + r + PHDelta \/ 0 - sum <= r + PHDelta
    BY <1>3, <1>5, <1>7
  <2>2. (n + 1) * PHDelta = n * PHDelta + PHDelta /\ n * PHDelta \in Nat
    BY <1>3, <1>4
  <2>3. ph.wrong * Harmonic(n) \in Nat /\ v * Harmonic(n + 1) \in Nat
    BY <1>3, <1>4, <1>9
  <2> DEFINE a == ph.wrong * Harmonic(n)
             b == v * Harmonic(n + 1)
             c == n * PHDelta
             d == (n + 1) * PHDelta
  <2> HIDE DEF sum, a, b, c, d
  <2>4. /\ a \in Nat /\ b \in Nat /\ c \in Nat /\ d = c + PHDelta
        /\ 1000 * a + 256 * r <= 1000 * b /\ 256 * (0 - ph.sum) <= 1000 * a + 256 * c
    BY <1>8, <1>10, <2>2, <2>3 DEF a, b, c, d
  <2>5. 256 * (0 - sum) <= 1000 * b + 256 * d
    <3>1. r \in Nat /\ PHDelta \in Nat /\ sum \in Int /\ ph.sum \in Int
      BY <1>3, <1>5, <1>13
    <3> DEFINE low == ph.sum
    <3> HIDE DEF low
    <3>2. 256 * (0 - sum) <= 256 * (0 - low) + 256 * r + 256 * PHDelta
             \/ 256 * (0 - sum) <= 256 * r + 256 * PHDelta
      <4>1. low \in Int /\ (0 - sum <= (0 - low) + r + PHDelta \/ 0 - sum <= r + PHDelta)
        BY <2>1, <3>1 DEF low
      <4>2. CASE 0 - sum <= (0 - low) + r + PHDelta
        BY <3>1, <4>1, <4>2
      <4>3. CASE 0 - sum <= r + PHDelta
        BY <3>1, <4>3
      <4> QED BY <4>1, <4>2, <4>3
    <3>3. 256 * (0 - low) <= 1000 * a + 256 * c /\ low \in Int
      BY <2>4, <3>1 DEF low
    <3> QED BY <2>4, <3>1, <3>2, <3>3
  <2>6. Held(sum, b, d)
    BY <2>5 DEF Held
  <2> QED BY <2>6 DEF HeldUp, b, d
<1> HIDE DEF sum
<1>15. min \in Int /\ min <= 0 /\ min <= sum /\ sum - min <= ph.sum + 1000 * e - ph.min
  BY <1>3, <1>13
<1> HIDE DEF min
<1>16. sum - min <= 1000 * since
  BY <1>3, <1>11, <1>12, <1>13, <1>15
<1>17. fires => e = 1
  BY <1>3, <1>11, <1>13, <1>15
<1>18. HeldUp(0, v, n + 1)
  <2>1. v * Harmonic(n + 1) \in Nat /\ (n + 1) * PHDelta \in Nat
    BY <1>3, <1>4, <1>9
  <2> QED BY <2>1 DEF HeldUp, Held
<1>19. errors' \in Seq({0, 1}) /\ Len(errors') = n + 1 /\ errors'[Len(errors')] = e
  BY <1>2, <1>3
<1>20. /\ ph'.n = n + 1 /\ ph'.wrong = v /\ ph'.drift = fires /\ ph'.since = since
       /\ ph'.sum = (IF fires THEN 0 ELSE sum) /\ ph'.min = (IF fires THEN 0 ELSE min)
  BY <1>1
<1>21. PHTypes'
  <2>1. Len(errors') <= MaxLength
    BY <1>3, <1>19
  <2>2. fires \in BOOLEAN /\ since \in Nat
    BY <1>12
  <2> QED BY <1>3, <1>4, <1>13, <1>15, <1>19, <1>20, <2>1, <2>2 DEF PHTypes
<1>22. HeldUp(ph.sum, ph.wrong, ph.n)'
  <2>1. HeldUp(ph'.sum, v, n + 1)
    BY <1>14, <1>18, <1>20
  <2> QED BY <1>20, <2>1 DEF HeldUp
<1>23. ph'.sum - ph'.min <= PHThreshold /\ ph'.sum - ph'.min <= 1000 * Counting'
  <2>1. Counting' = IF fires THEN 0 ELSE since
    BY <1>20 DEF Counting
  <2>2. CASE fires
    BY <1>3, <1>20, <2>1, <2>2
  <2>3. CASE ~fires
    BY <1>3, <1>13, <1>15, <1>16, <1>20, <2>1, <2>3
  <2> QED BY <2>2, <2>3
<1>24. PageHinkleyCounts'
  <2>1. ASSUME fires PROVE errors'[Len(errors')] = 1 /\ 1000 * since > PHThreshold
    <3>1. since \in Nat
      BY <1>12
    <3>2. sum - min > PHThreshold /\ sum - min <= 1000 * since
      BY <1>16, <2>1
    <3> QED BY <1>3, <1>13, <1>15, <1>17, <1>19, <2>1, <3>1, <3>2
  <2> HIDE DEF fires
  <2>2. ph'.drift = fires /\ ph'.since = since
    BY <1>20
  <2> QED BY <2>1, <2>2 DEF PageHinkleyCounts
<1> QED BY <1>21, <1>22, <1>23, <1>24 DEF PHInv

(* Page-Hinkley fires on an error, and only after as many errors as its    *)
(* threshold, whatever the stream: with the default parameters up to 512   *)
(* elements (concept_drift.py:122-142).  Beyond, in a stream that has got  *)
(* better, the forgetting of a very low sum is enough to fire.             *)
THEOREM PageHinkleyFiresOnErrors ==
  ASSUME SlowForgetting
  PROVE  Spec => []PageHinkleyCounts
<1>1. Init => PHInv
  <2> SUFFICES ASSUME Init PROVE PHInv
    OBVIOUS
  <2>1. errors = <<>> /\ ph = NewPH
    BY DEF Init
  <2>2. HeldUp(0, 0, 0)
    <3>1. Harmonic(0) = 0 /\ PHDelta \in Nat
      BY DEF Harmonic, SlowForgetting
    <3> QED BY <3>1 DEF HeldUp, Held
  <2> QED BY <2>1, <2>2, BoundAssumption
          DEF PHInv, PHTypes, NewPH, Counting, PageHinkleyCounts, SlowForgetting
<1>2. PHInv /\ [Next]_vars => PHInv'
  <2> SUFFICES ASSUME PHInv, [Next]_vars PROVE PHInv'
    OBVIOUS
  <2>1. CASE Follow \/ Switch
    <3>1. PICK e \in {0, 1} : Update(e)
      BY <2>1 DEF Follow, Switch, Value
    <3>2. Len(errors) < MaxLength
      BY <2>1 DEF Follow, Switch
    <3> QED BY <3>1, <3>2, PHStep
  <2>2. CASE UNCHANGED vars
    BY <2>2 DEF vars, PHInv, PHTypes, Counting, PageHinkleyCounts, HeldUp
  <2> QED BY <2>1, <2>2 DEF Next
<1>3. PHInv => PageHinkleyCounts
  BY DEF PHInv
<1> QED BY <1>1, <1>2, <1>3, PTL DEF Spec

-----------------------------------------------------------------------------
(* Rates and deviations in integers                                       *)

\* A set of naturals has a least element: the form of induction used here,
\* as the least counterexample of what is proved cannot exist.
LEMMA LeastNatural ==
  ASSUME NEW T, T \subseteq Nat, T # {}
  PROVE  \E x \in T : \A y \in T : x <= y
<1> DEFINE R == OpToRel(<, Nat)
<1>1. IsWellFoundedOn(R, Nat)
  BY NatLessThanWellFounded
<1> HIDE DEF R
<1>2. PICK x \in T : \A y \in T : ~ (<<y, x>> \in R)
  BY <1>1, WFMin
<1>3. ASSUME NEW y \in T PROVE x <= y
  <2>1. x \in Nat /\ y \in Nat /\ <<y, x>> \notin R
    BY <1>2
  <2>2. ~ (y < x)
    BY <2>1 DEF R, OpToRel
  <2> QED BY <2>1, <2>2
<1> QED BY <1>2, <1>3

\* Products of naturals are naturals.
LEMMA Products ==
  \A a, b \in Nat : a * b \in Nat /\ a * b = b * a
OBVIOUS

\* The scale of the products that DDM divides.
Million == 1000000

\* A square root exists, up to a thousand.
LEMMA SqrtType ==
  ASSUME NEW x \in Nat, x <= Million
  PROVE  Sqrt(x) \in 0 .. 1000 /\ Sqrt(x) * Sqrt(x) <= x /\ x < (Sqrt(x) + 1) * (Sqrt(x) + 1)
<1> DEFINE T == {r \in Nat : x < (r + 1) * (r + 1)}
<1>1. 1000 \in T
  BY DEF T, Million
<1>2. PICK r \in T : \A y \in T : r <= y
  <2>1. T \subseteq Nat /\ T # {}
    BY <1>1
  <2> HIDE DEF T
  <2> QED BY <2>1, LeastNatural
<1>3. r \in 0 .. 1000
  BY <1>1, <1>2
<1>4. r * r <= x
  <2>1. CASE r = 0
    BY <2>1
  <2>2. CASE r # 0
    <3>1. r - 1 \in Nat /\ r - 1 \notin T
      BY <1>2, <1>3, <2>2
    <3>2. ~ (x < ((r - 1) + 1) * ((r - 1) + 1))
      BY <3>1
    <3>3. (r - 1) + 1 = r
      BY <1>3
    <3> QED BY <1>3, <3>2, <3>3
  <2> QED BY <2>1, <2>2
<1>5. x < (r + 1) * (r + 1)
  BY <1>2
<1> DEFINE Root(q) == q * q <= x /\ x < (q + 1) * (q + 1)
<1>6. Root(r) /\ r \in 0 .. 1000
  BY <1>3, <1>4, <1>5
<1>7. Sqrt(x) = CHOOSE q \in 0 .. 1000 : Root(q)
  BY DEF Sqrt
<1>8. Root(Sqrt(x)) /\ Sqrt(x) \in 0 .. 1000
  <2> HIDE DEF Root, T
  <2> DEFINE candidates == 0 .. 1000
  <2>1. \E q \in candidates : Root(q)
    BY <1>6
  <2>2. Sqrt(x) = CHOOSE q \in candidates : Root(q)
    BY <1>7
  <2> HIDE DEF candidates
  <2>3. Root(Sqrt(x)) /\ Sqrt(x) \in candidates
    BY <2>1, <2>2, Zenon
  <2> QED BY <2>3 DEF candidates
<1> QED BY <1>8

\* A quotient is rounded down by less than the divisor.
LEMMA Quotient ==
  \A a \in Nat, b \in Nat \ {0} :
    a \div b \in Nat /\ b * (a \div b) <= a /\ a < b * (a \div b) + b
OBVIOUS

\* A positive factor can be dropped.
LEMMA FromProduct ==
  ASSUME NEW a \in Nat, NEW b \in Nat, NEW c \in Nat \ {0}, c * a <= c * b
  PROVE  a <= b
<1> SUFFICES ASSUME ~ (a <= b) PROVE FALSE
  OBVIOUS
<1>1. b + 1 <= a
  OBVIOUS
<1>2. (b + 1) * c <= a * c
  BY <1>1, TimesMonotone
<1> QED BY <1>2

\* The deviation of w errors among n elements, squared and rounded down twice.
IsDeviation(s, w, k, n) ==
  /\ s \in 0 .. 1000
  /\ (n * n) * n * (s * s) <= Million * (w * k)
  /\ Million * (w * k) <= (n * n) * n * ((s + 1) * (s + 1)) + n * n

\* The deviation in per mille is the rounded root of p(1 - p)/n.
LEMMA DeviationBounds ==
  ASSUME NEW n \in Nat \ {0}, NEW w \in 0 .. n
  PROVE  IsDeviation(Deviation(w, n), w, n - w, n)
<1> DEFINE k == n - w
           b == Million * w
           a == b \div n
           c == a * k
           m == n * n
           x == c \div m
           s == Sqrt(x)
<1>0. Million \in Nat
  BY DEF Million
<1>1. k \in Nat /\ k <= n /\ b \in Nat /\ b <= Million * n /\ n >= 1
  BY DEF Million
<1>2. a \in Nat /\ n * a <= b /\ b < n * a + n
  BY <1>1, Quotient
<1>3. m \in Nat \ {0}
  OBVIOUS
<1>4. Deviation(w, n) = s
  BY DEF Deviation, Million
<1>5. Million * (w * k) = b * k
  BY <1>0
<1> HIDE DEF k, a
<1>6. c \in Nat
  BY <1>1, <1>2
<1>7. x \in Nat /\ m * x <= c /\ c < m * x + m
  <2> HIDE DEF c, m
  <2> QED BY <1>3, <1>6, Quotient
<1>8. a <= Million
  <2>1. n * a <= n * Million
    <3> HIDE DEF b
    <3> QED BY <1>0, <1>1, <1>2
  <2> QED BY <1>0, <1>2, <2>1, FromProduct
<1>9. c <= Million * m
  <2>1. a * k <= Million * k
    BY <1>0, <1>1, <1>2, <1>8, TimesMonotone
  <2>2. n <= m
    <3>1. 1 * n <= n * n
      BY <1>1, TimesMonotone
    <3> QED BY <3>1
  <2> HIDE DEF m
  <2> QED BY <1>0, <1>1, <1>3, <1>6, <2>1, <2>2
<1>10. x <= Million
  <2> HIDE DEF x, c, m
  <2>1. m * x <= m * Million
    BY <1>0, <1>3, <1>6, <1>7, <1>9
  <2> QED BY <1>0, <1>3, <1>7, <2>1, FromProduct
<1>11. s \in 0 .. 1000 /\ s * s <= x /\ x < (s + 1) * (s + 1)
  BY <1>7, <1>10, SqrtType
<1> HIDE DEF x, s
<1> DEFINE q == s * s
           u == (s + 1) * (s + 1)
<1>12. q \in Nat /\ u \in Nat /\ s \in Nat
  BY <1>11
<1>13. b * k <= (n * a) * k + n * k /\ (n * a) * k <= b * k
  <2>1. b * k <= (n * a + n) * k
    <3> HIDE DEF b
    <3>1. n * a \in Nat
      BY <1>1, <1>2, Products
    <3> QED BY <1>1, <1>2, <3>1, TimesMonotone
  <2>2. (n * a) * k <= b * k
    <3> HIDE DEF b
    <3>1. n * a \in Nat
      BY <1>1, <1>2, Products
    <3> QED BY <1>1, <1>2, <3>1, TimesMonotone
  <2>3. (n * a + n) * k = (n * a) * k + n * k
    BY <1>1, <1>2
  <2> HIDE DEF b
  <2> QED BY <2>1, <2>2, <2>3
<1>14. (n * a) * k = n * c /\ n * k <= n * n
  <2>1. k * n <= n * n
    BY <1>1, TimesMonotone
  <2> QED BY <1>1, <1>2, <2>1
<1> HIDE DEF b, c, q, u
<1>15. n * (m * q) <= n * c /\ n * c <= n * (m * u)
  <2>1. m * q <= c
    <3>1. q * m <= x * m
      BY <1>3, <1>7, <1>11, <1>12, TimesMonotone DEF q
    <3> HIDE DEF m
    <3> QED BY <1>3, <1>6, <1>7, <1>12, <3>1
  <2>2. c <= m * u
    <3>1. x + 1 <= u
      BY <1>7, <1>11, <1>12 DEF u
    <3>2. (x + 1) * m <= u * m
      BY <1>3, <1>7, <1>12, <3>1, TimesMonotone
    <3>3. (x + 1) * m = m * x + m
      BY <1>3, <1>7
    <3> HIDE DEF m
    <3> QED BY <1>3, <1>6, <1>7, <1>12, <3>2, <3>3
  <2>3. m * q \in Nat /\ m * u \in Nat
    BY <1>3, <1>12, Products
  <2> HIDE DEF m
  <2>4. (m * q) * n <= c * n /\ c * n <= (m * u) * n
    BY <1>1, <1>6, <2>1, <2>2, <2>3, TimesMonotone
  <2> QED BY <1>1, <1>6, <2>3, <2>4, Products
<1>16. n * (m * q) = m * n * q /\ n * (m * u) = m * n * u
  BY <1>1, <1>3, <1>12
<1>17. m * n * q <= b * k /\ b * k <= m * n * u + m
  <2> DEFINE y == m * n * q
             z == m * n * u
             v == n * c
             l == b * k
  <2>1. y <= v /\ v <= z
    BY <1>15, <1>16
  <2>2. v <= l /\ l <= v + n * k /\ n * k <= m
    BY <1>13, <1>14
  <2>3. y \in Int /\ v \in Int /\ z \in Int /\ l \in Int /\ n * k \in Int /\ m \in Int
    <3>1. b \in Nat
      BY <1>1
    <3> QED BY <1>1, <1>2, <1>3, <1>6, <1>12, <3>1
  <2> HIDE DEF y, v, z, l, m
  <2> QED BY <2>1, <2>2, <2>3 DEF y, z, l
<1> QED BY <1>4, <1>5, <1>11, <1>17 DEF IsDeviation, q, u, m, k, s

\* What the provers need to know of a million, kept out of their sight elsewhere.
LEMMA MillionType == Million \in Nat /\ Million = 1000 * 1000
BY DEF Million

\* A deviation among n elements that is more than a rounding.
IsLarge(m, n) == m >= 1 /\ n * (m + 1) >= 600

\* The deviation kept with a minimum is not much smaller than the rounding allows.
LEMMA DeviationIsLarge ==
  ASSUME NEW w \in Nat \ {0}, NEW k \in Nat \ {0}, NEW n \in Nat, n = w + k, n <= 512,
         NEW m \in Nat, IsDeviation(m, w, k, n)
  PROVE  IsLarge(m, n)
<1> DEFINE a == n * (m + 1)
<1>1. n \in Nat \ {0} /\ n >= 2 /\ n <= 512 /\ a \in Nat
  OBVIOUS
<1>2. w * k >= n - 1
  <2>1. w - 1 \in Nat /\ k - 1 \in Nat
    OBVIOUS
  <2>2. (w - 1) * (k - 1) >= 0 /\ (w - 1) * (k - 1) = w * k - w - k + 1
    <3>1. (w - 1) * (k - 1) \in Nat
      BY <2>1, Products
    <3> QED BY <3>1
  <2> QED BY <2>2
<1>3. (n * n) * n * ((m + 1) * (m + 1)) = n * (a * a)
  BY <1>1
<1>4. Million * (w * k) <= n * (a * a) + n * n
  BY <1>3 DEF IsDeviation
<1>5. Million * (w * k) >= Million * (n - 1)
  BY <1>1, <1>2, MillionType, TimesMonotone
<1>6. n * n <= 512 * n
  BY <1>1, TimesMonotone
<1>7. 2 * (Million * (n - 1)) >= Million * n
  BY <1>1, MillionType
<1> DEFINE y == a * a
<1>8. y \in Nat
  BY <1>1, Products
<1>9. w * k \in Nat
  OBVIOUS
<1> HIDE DEF a, y
<1>10. n * Million <= n * (2 * y + 1024)
  <2>1. n * y \in Nat /\ Million * n \in Nat /\ Million * (n - 1) \in Nat /\ n * n \in Nat
    BY <1>1, <1>8, MillionType
  <2>2. n * (2 * y + 1024) = 2 * (n * y) + 1024 * n
    BY <1>1, <1>8
  <2>3. Million * (n - 1) <= n * y + 512 * n
    BY <1>1, <1>4, <1>5, <1>6, <1>9, <2>1, MillionType DEF y
  <2>4. Million * n <= 2 * (n * y) + 1024 * n
    BY <1>1, <1>7, <2>1, <2>3
  <2> QED BY <1>1, <2>2, <2>4, MillionType
<1>11. Million <= 2 * y + 1024
  BY <1>1, <1>8, <1>10, MillionType, FromProduct
<1>12. a >= 600
  <2> SUFFICES ASSUME ~ (a >= 600) PROVE FALSE
    OBVIOUS
  <2>1. a * a <= 600 * a /\ a * 600 <= 600 * 600
    BY <1>1, TimesMonotone
  <2> QED BY <1>1, <1>11, <2>1 DEF y, Million
<1>13. m >= 1
  BY <1>1, <1>12 DEF a
<1> QED BY <1>12, <1>13 DEF a, IsLarge

\* Moving e from one factor to the other changes the product by |e| (a + b).
LEMMA ProductShift ==
  ASSUME NEW a \in Nat, NEW b \in Nat, NEW e \in Int, NEW f \in Nat, e = f \/ e = 0 - f
  PROVE  (a - e) * (b + e) <= a * b + f * (a + b)
<1>1. a * b \in Nat /\ f * a \in Nat /\ f * b \in Nat /\ f * f \in Nat
  BY Products
<1>2. CASE e = f
  <2>1. (a - f) * (b + f) = a * b + f * a - f * b - f * f
    OBVIOUS
  <2>2. f * (a + b) = f * a + f * b
    OBVIOUS
  <2> QED BY <1>1, <1>2, <2>1, <2>2
<1>3. CASE e = 0 - f
  <2>1. (a + f) * (b - f) = a * b - f * a + f * b - f * f
    OBVIOUS
  <2>2. f * (a + b) = f * a + f * b
    OBVIOUS
  <2>3. a - e = a + f /\ b + e = b - f
    BY <1>3
  <2> QED BY <1>1, <2>1, <2>2, <2>3
<1> QED BY <1>2, <1>3

\* The rate in per mille, rounded down; how far the share w0/n0 lies from w/n.
IsRate(r, w, n) == r \in Nat /\ n * r <= 1000 * w /\ 1000 * w < n * r + n
Moved(e, f, w, n, w0, n0, d) ==
  (e = f \/ e = 0 - f) /\ e = w0 * n - w * n0 /\ 1000 * f <= (n * n0) * (d + 1)

\* Rate computes it.
LEMMA RateIs == \A w \in Nat, n \in Nat \ {0} : IsRate(Rate(w, n), w, n)
BY RateBounds DEF IsRate

\* How far the share of errors has moved when the rate has not gone up.
LEMMA ShareMoved ==
  ASSUME NEW n \in Nat, NEW n0 \in Nat, NEW w \in Nat, NEW w0 \in Nat,
         NEW p \in Nat, NEW p0 \in Nat, NEW d \in Nat, p0 = p + d,
         IsRate(p, w, n), IsRate(p0, w0, n0)
  PROVE  \E e \in Int, f \in Nat : Moved(e, f, w, n, w0, n0, d)
<1> DEFINE q == n * n0
           a == w0 * n
           b == w * n0
           g == q * p
           h == q * d
<1>1. q \in Nat /\ a \in Nat /\ b \in Nat
  BY Products
<1>2. g \in Nat /\ h \in Nat
  <2> HIDE DEF q
  <2> QED BY <1>1, Products
<1>3. 1000 * a <= g + h + q /\ g + h <= 1000 * a
  <2>1. (n0 * p0) * n <= (1000 * w0) * n /\ (1000 * w0) * n <= (n0 * p0 + n0) * n
    <3>1. n0 * p0 \in Nat
      BY Products
    <3> QED BY <3>1, TimesMonotone DEF IsRate
  <2>2. (n0 * p0) * n = g + h /\ (n0 * p0 + n0) * n = g + h + q /\ (1000 * w0) * n = 1000 * a
    OBVIOUS
  <2> QED BY <2>1, <2>2
<1>4. 1000 * b <= g + q /\ g <= 1000 * b
  <2>1. (n * p) * n0 <= (1000 * w) * n0 /\ (1000 * w) * n0 <= (n * p + n) * n0
    <3>1. n * p \in Nat
      BY Products
    <3> QED BY <3>1, TimesMonotone DEF IsRate
  <2>2. (n * p) * n0 = g /\ (n * p + n) * n0 = g + q /\ (1000 * w) * n0 = 1000 * b
    OBVIOUS
  <2> QED BY <2>1, <2>2
<1>5. q * (d + 1) = h + q
  OBVIOUS
<1> HIDE DEF q, a, b, g, h
<1>6. CASE a >= b
  <2>1. a - b \in Nat /\ a - b \in Int /\ 1000 * (a - b) <= q * (d + 1)
    BY <1>1, <1>2, <1>3, <1>4, <1>5, <1>6
  <2>2. Moved(a - b, a - b, w, n, w0, n0, d)
    BY <2>1 DEF Moved, a, b, q
  <2> QED BY <2>1, <2>2
<1>7. CASE ~ (a >= b)
  <2>1. b - a \in Nat /\ a - b \in Int /\ 1000 * (b - a) <= q * (d + 1) /\ a - b = 0 - (b - a)
    BY <1>1, <1>2, <1>3, <1>4, <1>5, <1>7
  <2>2. Moved(a - b, b - a, w, n, w0, n0, d)
    BY <2>1 DEF Moved, a, b, q
  <2> QED BY <2>1, <2>2
<1> QED BY <1>6, <1>7

\* The variance w k / n^2 moves by no more than the share does.
LEMMA ProductMoved ==
  ASSUME NEW w \in Nat, NEW k \in Nat, NEW w0 \in Nat, NEW k0 \in Nat,
         NEW e \in Int, NEW f \in Nat, e = f \/ e = 0 - f,
         e = w0 * (w + k) - w * (w0 + k0)
  PROVE  (w * k) * ((w0 + k0) * (w0 + k0))
           <= (w0 * k0) * ((w + k) * (w + k)) + f * ((w + k) * (w0 + k0))
<1> DEFINE n == w + k
           n0 == w0 + k0
           a == w0 * n
           b == k0 * n
<1>1. n \in Nat /\ n0 \in Nat /\ a \in Nat /\ b \in Nat
  OBVIOUS
<1>2. w * n0 = a - e /\ k * n0 = b + e /\ a + b = n * n0
  OBVIOUS
<1>3. (a - e) * (b + e) <= a * b + f * (a + b)
  BY <1>1, ProductShift
<1>4. (w * k) * (n0 * n0) = (w * n0) * (k * n0)
  BY <1>1
<1>5. a * b = (w0 * k0) * (n * n)
  BY <1>1
<1> HIDE DEF n, n0, a, b
<1>6. (w * k) * (n0 * n0) <= (w0 * k0) * (n * n) + f * (n * n0)
  BY <1>2, <1>3, <1>4, <1>5
<1> QED BY <1>6 DEF n, n0

\* The bound on the deviation s among n when the one among n0 was m.
GrowsBarely(s, n, m, n0, d) == n * (s * s) <= n0 * ((m + 1) * (m + 1)) + 1001 + 1000 * d

\* The deviation cannot have grown much while the rate has not.
LEMMA DeviationBarelyGrows ==
  ASSUME NEW w \in Nat, NEW k \in Nat, NEW w0 \in Nat, NEW k0 \in Nat,
         NEW n \in Nat \ {0}, n = w + k, NEW n0 \in Nat \ {0}, n0 = w0 + k0,
         NEW s \in Nat, NEW m \in Nat, NEW d \in Nat, NEW e \in Int, NEW f \in Nat,
         IsDeviation(s, w, k, n), IsDeviation(m, w0, k0, n0),
         Moved(e, f, w, n, w0, n0, d)
  PROVE  GrowsBarely(s, n, m, n0, d)
<1> DEFINE q == n * n0
           x == w * k
           y == w0 * k0
           v == s * s
           u == (m + 1) * (m + 1)
           nn == n * n
           mm == n0 * n0
           t == q * q
<1>1. n \in Nat \ {0} /\ n0 \in Nat \ {0}
  OBVIOUS
<1>2. x \in Nat /\ y \in Nat /\ v \in Nat /\ u \in Nat
  BY Products
<1>3. x * mm <= y * nn + f * q
  <2>1. (e = f \/ e = 0 - f) /\ e = w0 * (w + k) - w * (w0 + k0)
    BY DEF Moved
  <2>2. x * ((w0 + k0) * (w0 + k0)) <= y * ((w + k) * (w + k)) + f * ((w + k) * (w0 + k0))
    BY <2>1, ProductMoved
  <2> QED BY <2>2
<1>4. 1000 * f <= q * (d + 1)
  BY DEF Moved
<1>5. nn * n * v <= Million * x /\ Million * y <= mm * n0 * u + mm
  <2>1. nn * n * v <= Million * x
    BY DEF IsDeviation
  <2>2. Million * y <= mm * n0 * u + mm
    BY DEF IsDeviation
  <2> QED BY <2>1, <2>2
<1> HIDE DEF x, y, v, u
<1>6. q \in Nat \ {0} /\ nn \in Nat /\ mm \in Nat /\ nn * mm = t
  <2>1. q \in Nat /\ nn \in Nat /\ mm \in Nat
    BY <1>1, Products
  <2>2. q # 0
    BY <1>1
  <2>3. nn * mm = t
    BY <1>1
  <2> QED BY <2>1, <2>2, <2>3
<1>7. nn * n * v \in Nat /\ mm * n0 * u \in Nat
  BY <1>1, <1>2, <1>6
<1>8. (nn * n * v) * mm = t * (n * v) /\ (mm * n0 * u + mm) * nn = t * (n0 * u) + t
  BY <1>1, <1>2
<1> HIDE DEF q, nn, mm
<1>9. t \in Nat \ {0}
  <2>1. t \in Nat
    BY <1>6, Products
  <2>2. t # 0
    BY <1>6
  <2> QED BY <2>1, <2>2
<1>10. t * (n * v) <= Million * (x * mm)
  <2>1. (nn * n * v) * mm <= (Million * x) * mm
    <3>1. Million * x \in Nat
      BY <1>2, MillionType, Products
    <3> QED BY <1>5, <1>6, <1>7, <3>1, TimesMonotone
  <2>2. (Million * x) * mm = Million * (x * mm)
    BY <1>2, <1>6, MillionType
  <2> QED BY <1>8, <2>1, <2>2
<1>11. Million * (y * nn) <= t * (n0 * u) + t
  <2>1. (Million * y) * nn <= (mm * n0 * u + mm) * nn
    <3>1. Million * y \in Nat /\ mm * n0 * u + mm \in Nat
      BY <1>2, <1>6, <1>7, MillionType, Products
    <3> QED BY <1>5, <1>6, <3>1, TimesMonotone
  <2>2. (Million * y) * nn = Million * (y * nn)
    BY <1>2, <1>6, MillionType
  <2> QED BY <1>8, <2>1, <2>2
<1>12. Million * (f * q) <= t * (1000 * (d + 1))
  <2> DEFINE b == d + 1
             c == q * b
             g == 1000 * f
  <2>1. b \in Nat /\ g \in Nat /\ c \in Nat
    BY <1>6
  <2>2. g * q <= c * q
    <3> HIDE DEF g, c, b
    <3>1. g <= c
      BY <1>4 DEF g, c, b
    <3> QED BY <1>6, <2>1, <3>1, TimesMonotone
  <2>3. Million * (f * q) = 1000 * (g * q)
    BY <1>6, MillionType
  <2>4. 1000 * (c * q) = t * (1000 * b)
    <3> HIDE DEF b
    <3> QED BY <1>6, <2>1
  <2>5. g * q \in Nat /\ c * q \in Nat
    BY <1>6, <2>1, Products
  <2> HIDE DEF g, c, t, b
  <2>6. 1000 * (g * q) <= 1000 * (c * q)
    BY <2>2, <2>5
  <2> QED BY <2>3, <2>4, <2>6 DEF b
<1>13. Million * (x * mm) <= Million * (y * nn) + Million * (f * q)
  <2> DEFINE l == x * mm
             r == y * nn
             i == f * q
  <2>1. l \in Nat /\ r \in Nat /\ i \in Nat
    BY <1>2, <1>6, Products
  <2>2. l <= r + i
    BY <1>3
  <2> HIDE DEF l, r, i
  <2>3. Million * l <= Million * r + Million * i
    BY <2>1, <2>2, MillionType
  <2> QED BY <2>3 DEF l, r, i
<1> DEFINE a == n * v
           b == n0 * u
<1>14. a \in Nat /\ b \in Nat
  BY <1>1, <1>2, Products
<1> HIDE DEF t, a, b
<1>15. t * a <= t * (b + 1 + 1000 * (d + 1))
  <2>1. t * (b + 1 + 1000 * (d + 1)) = t * b + t + t * (1000 * (d + 1))
    BY <1>9, <1>14
  <2> DEFINE l == Million * (x * mm)
             r == Million * (y * nn)
             i == Million * (f * q)
             z == t * (1000 * (d + 1))
             g == t * b
             h == t * a
  <2>2. l \in Int /\ r \in Int /\ i \in Int /\ z \in Int /\ g \in Int /\ h \in Int /\ t \in Int
    BY <1>2, <1>6, <1>9, <1>14, MillionType
  <2>3. h <= l /\ l <= r + i /\ r <= g + t /\ i <= z
    BY <1>10, <1>11, <1>12, <1>13 DEF a, b
  <2> HIDE DEF l, r, i, z, g, h
  <2>4. h <= g + t + z
    BY <2>2, <2>3
  <2> QED BY <2>1, <2>4 DEF h, g, z
<1>16. a <= b + 1 + 1000 * (d + 1)
  <2> DEFINE z == b + 1 + 1000 * (d + 1)
  <2>1. z \in Nat
    BY <1>14
  <2> HIDE DEF z
  <2> QED BY <1>9, <1>14, <1>15, <2>1, FromProduct DEF z
<1> QED BY <1>14, <1>16 DEF GrowsBarely, a, b, v, u

\* So a rate that has not gone up cannot carry a drift.
LEMMA NoDriftWithout ==
  ASSUME NEW n \in Nat, NEW n0 \in Nat, n0 <= n, NEW s \in Nat, NEW m \in Nat, NEW d \in Nat,
         GrowsBarely(s, n, m, n0, d), IsLarge(m, n0), s >= 3 * m + d
  PROVE  FALSE
<1> DEFINE t == 3 * m + d
           a == n0 * (m + 1)
           ad == a * d
           x == n0 * (m * m)
           y == n0 * m
           z == n0 * (m * d)
           r == n0 * (d * d)
<1>1. t \in Nat /\ a \in Nat /\ ad \in Nat /\ x \in Nat /\ y \in Nat /\ z \in Nat /\ r \in Nat
  OBVIOUS
<1>2. n0 * (t * t) <= n * (s * s)
  <2>1. t * t <= s * s
    <3>1. t * t <= s * t /\ t * s <= s * s
      <4> HIDE DEF t
      <4> QED BY <1>1, TimesMonotone DEF t
    <3> HIDE DEF t
    <3> QED BY <1>1, <3>1
  <2>2. t * t \in Nat /\ s * s \in Nat
    BY <1>1, Products
  <2> HIDE DEF t
  <2>3. (t * t) * n0 <= (s * s) * n0 /\ n0 * (s * s) <= n * (s * s)
    BY <2>1, <2>2, TimesMonotone
  <2> QED BY <1>1, <2>2, <2>3
<1>3. n0 * (t * t) = 9 * x + 6 * z + r
  OBVIOUS
<1>4. n0 * ((m + 1) * (m + 1)) = x + 2 * y + n0
  OBVIOUS
<1>5. a = y + n0 /\ ad = z + n0 * d
  OBVIOUS
<1> m >= 1
  BY DEF IsLarge
<1>6. y <= x /\ n0 <= y
  <2>1. m * 1 <= m * m /\ 1 * n0 <= m * n0
    BY TimesMonotone
  <2>2. m * m \in Nat
    BY Products
  <2>3. m * n0 <= (m * m) * n0
    BY <2>1, <2>2, TimesMonotone
  <2> QED BY <2>1, <2>2, <2>3
<1>7. n0 * d <= z
  <2>1. 1 * d <= m * d /\ m * d \in Nat
    BY TimesMonotone
  <2>2. d * n0 <= (m * d) * n0
    BY <2>1, TimesMonotone
  <2> QED BY <2>1, <2>2
<1>8. ad >= 600 * d
  <2>1. 600 * d <= a * d
    BY <1>1, TimesMonotone DEF IsLarge
  <2> QED BY <2>1
<1>9. n0 * d \in Nat
  BY Products
<1> DEFINE nd == n0 * d
           l == n * (s * s)
           h == n0 * (t * t)
           g == n0 * ((m + 1) * (m + 1))
<1>10. /\ h <= l /\ l <= g + 1001 + 1000 * d
       /\ a >= 600 /\ nd \in Nat /\ l \in Int /\ h \in Int /\ g \in Int
  BY <1>1, <1>2, <1>9 DEF GrowsBarely, IsLarge
<1>11. /\ h = 9 * x + 6 * z + r /\ g = x + 2 * y + n0
       /\ a = y + n0 /\ ad = z + nd /\ nd <= z
  BY <1>3, <1>4, <1>5, <1>7
<1> HIDE DEF t, a, ad, x, y, z, r, nd, l, h, g
<1> QED BY <1>1, <1>6, <1>8, <1>10, <1>11

\* DDM's condition cannot hold while the rate is that of the minimum or lower:
\* the deviation would have had to grow threefold, more than rounding allows.
LEMMA NoFalseDrift ==
  ASSUME NEW w \in Nat, NEW k \in Nat, NEW w0 \in Nat \ {0}, NEW k0 \in Nat \ {0},
         w0 <= w, k0 <= k, w + k <= 512,
         NEW s \in Nat, NEW m \in Nat, NEW level \in Nat, level >= 3,
         IsDeviation(s, w, k, w + k), IsDeviation(m, w0, k0, w0 + k0),
         Rate(w, w + k) + s >= Rate(w0, w0 + k0) + level * m
  PROVE  Rate(w, w + k) > Rate(w0, w0 + k0)
<1> DEFINE n == w + k
           n0 == w0 + k0
           p == Rate(w, n)
           p0 == Rate(w0, n0)
           d == p0 - p
<1>1. n \in Nat \ {0} /\ n0 \in Nat \ {0} /\ n0 <= n
  OBVIOUS
<1>2. IsRate(p, w, n) /\ IsRate(p0, w0, n0)
  <2> HIDE DEF n, n0
  <2> QED BY <1>1, RateIs
<1>3. p \in Nat /\ p0 \in Nat
  BY <1>2 DEF IsRate
<1> HIDE DEF p, p0
<1>4. SUFFICES ASSUME p <= p0 PROVE FALSE
  BY <1>3 DEF p, p0
<1>5. d \in Nat /\ p0 = p + d
  BY <1>3, <1>4
<1>6. s >= 3 * m + d
  <2>1. 3 * m <= level * m /\ level * m \in Nat
    BY TimesMonotone
  <2>2. p + s >= p0 + level * m
    BY DEF p, p0
  <2> QED BY <1>2, <1>3, <2>1, <2>2
<1> HIDE DEF d, n, n0
<1>7. PICK e \in Int, f \in Nat : Moved(e, f, w, n, w0, n0, d)
  BY <1>1, <1>2, <1>3, <1>5, ShareMoved
<1>8. IsDeviation(s, w, k, n) /\ IsDeviation(m, w0, k0, n0)
  BY DEF n, n0
<1>9. n = w + k /\ n0 = w0 + k0 /\ n0 <= 512
  BY DEF n, n0
<1>10. GrowsBarely(s, n, m, n0, d)
  BY <1>1, <1>5, <1>7, <1>8, <1>9, DeviationBarelyGrows
<1>11. IsLarge(m, n0)
  BY <1>1, <1>8, <1>9, DeviationIsLarge
<1> QED BY <1>1, <1>5, <1>6, <1>10, <1>11, NoDriftWithout

-----------------------------------------------------------------------------
(* DDM fires on a rate above its minimum                                   *)

\* What the default parameters give (concept_drift.py:153): a drift is three
\* deviations, in a stream that is a window.
ThreeDeviations ==
  /\ MinN \in Nat \ {0}
  /\ DriftLevel \in Nat /\ DriftLevel >= 3
  /\ MaxLength <= 512

\* The minimum is one of a prefix with w errors and k others.
MinimumOf(min, w, k) ==
  /\ min \in [p : Nat, s : Nat]
  /\ min.p = Rate(w, w + k) /\ IsDeviation(min.s, w, k, w + k)
HasMinimum(min, wrong, right) ==
  \E w, k \in Nat \ {0} : w <= wrong /\ k <= right /\ MinimumOf(min, w, k)

\* There is a minimum from MinN elements on.
MinimumIs(min, n, wrong) ==
  /\ n < MinN => min = None
  /\ ~(n < MinN) => HasMinimum(min, wrong, n - wrong)

\* What DDM has counted fits in the window.
DDMTypes ==
  /\ errors \in Seq({0, 1}) /\ Len(errors) <= MaxLength
  /\ ddm.n \in Nat /\ ddm.n <= Len(errors) /\ ddm.wrong \in 0 .. ddm.n

\* The inductive invariant of DDM.
DDMInv ==
  /\ DDMTypes
  /\ MinimumIs(ddm.min, ddm.n, ddm.wrong)

\* What a drift of DDM means.
DriftOnWorse(e) ==
  DDMUpdated(e).drift => IF ddm.min = None THEN Counted(e).wrong \in {0, MinN}
                         ELSE Counted(e).p > ddm.min.p

\* Without a deviation all predictions were right, or all wrong.
LEMMA NoDeviation ==
  ASSUME NEW w \in Nat, NEW k \in Nat, w + k <= 512, w + k # 0, NEW s \in Nat,
         IsDeviation(s, w, k, w + k)
  PROVE  s = 0 <=> w = 0 \/ k = 0
<1>1. ASSUME w # 0, k # 0 PROVE s # 0
  <2>1. w \in Nat \ {0} /\ k \in Nat \ {0} /\ w + k \in Nat
    BY <1>1
  <2>2. IsLarge(s, w + k)
    BY <2>1, DeviationIsLarge
  <2> QED BY <2>2 DEF IsLarge
<1>2. ASSUME w = 0 \/ k = 0 PROVE s = 0
  <2> DEFINE n == w + k
             v == s * s
             nn == n * n
  <2>1. n \in Nat \ {0} /\ w * k = 0 /\ v \in Nat
    BY <1>2, Products
  <2>2. nn * n * v <= Million * 0
    BY <2>1 DEF IsDeviation
  <2>3. nn \in Nat /\ nn >= 1
    <3>1. 1 * n <= n * n
      BY <2>1, TimesMonotone
    <3> QED BY <2>1, <3>1
  <2> HIDE DEF n, v, nn
  <2>4. nn * n >= 1 /\ nn * n \in Nat
    <3>1. 1 * n <= nn * n
      BY <2>1, <2>3, TimesMonotone
    <3> QED BY <2>1, <2>3, <3>1, Products
  <2>5. 1 * v <= nn * n * v
    BY <2>1, <2>4, TimesMonotone
  <2> DEFINE y == nn * n * v
  <2>6. v = 0
    <3>1. v <= y /\ y <= 0 /\ y \in Nat
      BY <2>1, <2>2, <2>4, <2>5, MillionType
    <3> HIDE DEF y
    <3> QED BY <2>1, <3>1
  <2> QED BY <2>6 DEF v
<1> QED BY <1>1, <1>2

(* One more result counted: the errors and the others stay within the window. *)
LEMMA OneMoreResult ==
  ASSUME NEW m \in Nat, NEW wrong \in 0 .. m, NEW e \in {0, 1}, m < 512
  PROVE  /\ m + 1 \in Nat \ {0} /\ m + 1 <= 512
         /\ wrong + e \in Nat /\ wrong + e \in 0 .. m + 1
         /\ (m + 1) - (wrong + e) \in Nat
         /\ m + 1 = (wrong + e) + ((m + 1) - (wrong + e))
         /\ wrong <= wrong + e
         /\ m - wrong <= (m + 1) - (wrong + e)
<1>1. CASE e = 0
  BY <1>1
<1>2. CASE e = 1
  BY <1>2
<1> QED BY <1>1, <1>2

\* An element keeps the invariant, and DDM fires on it only as promised.
LEMMA DDMStep ==
  ASSUME ThreeDeviations, DDMInv, NEW e \in {0, 1}, Len(errors) < MaxLength, Update(e)
  PROVE  DDMInv' /\ DriftOnWorse(e)
<1> DEFINE d == Counted(e)
           n == ddm.n + 1
           w == ddm.wrong + e
           k == n - w
           p == Rate(w, n)
           s == Deviation(w, n)
           lower == n >= MinN /\ (ddm.min = None \/ p + s < ddm.min.p + ddm.min.s)
           min == IF lower THEN [p |-> p, s |-> s] ELSE ddm.min
           fires == n >= MinN /\ p + s >= min.p + DriftLevel * min.s
<1>1. /\ errors \in Seq({0, 1}) /\ Len(errors) \in Nat /\ Len(errors) < 512
      /\ ddm.n \in Nat /\ ddm.n <= Len(errors) /\ ddm.wrong \in 0 .. ddm.n
      /\ MinN \in Nat \ {0} /\ DriftLevel \in Nat /\ DriftLevel >= 3 /\ MaxLength \in Nat
  BY BoundAssumption DEF DDMInv, DDMTypes, ThreeDeviations
<1>2. /\ n \in Nat \ {0} /\ w \in 0 .. n /\ k \in Nat /\ n = w + k /\ n <= 512 /\ w \in Nat
      /\ ddm.wrong <= w /\ ddm.n - ddm.wrong <= k
  <2>1. ddm.n \in Nat /\ ddm.wrong \in 0 .. ddm.n /\ ddm.n < 512
    <3> HIDE DEF d, n, w, k, p, s, lower, min, fires
    <3> QED BY <1>1
  <2> HIDE DEF d, p, s, lower, min, fires
  <2> QED BY <2>1, OneMoreResult
<1>3. p \in Nat
  <2>1. IsRate(p, w, n)
    <3> HIDE DEF n, w
    <3> QED BY <1>2, RateIs
  <2> QED BY <2>1 DEF IsRate
<1>4. s \in Nat /\ IsDeviation(s, w, k, n)
  <2>1. IsDeviation(s, w, k, n)
    <3> HIDE DEF n, w
    <3> QED BY <1>2, DeviationBounds
  <2> HIDE DEF s, n, w, k
  <2> QED BY <2>1 DEF IsDeviation
<1>5. d = [n |-> n, wrong |-> w, p |-> p, s |-> s, min |-> min]
  BY DEF Counted
<1>6. DDMUpdated(e).drift = fires /\ ddm' = IF fires THEN NewDDM ELSE d
  <2>1. d.n = n /\ d.p = p /\ d.s = s /\ d.min = min
    BY <1>5
  <2> HIDE DEF d, n, p, s, min
  <2>2. Above(d, DriftLevel) = fires
    BY <2>1 DEF Above
  <2>3. DDMUpdated(e) = [state |-> IF fires THEN NewDDM ELSE d, drift |-> fires,
                         warning |-> ~fires /\ Above(d, WarningLevel)]
    BY <2>2 DEF DDMUpdated, d
  <2> QED BY <2>3 DEF Update
<1>7. /\ errors' = Append(errors, e) /\ errors' \in Seq({0, 1})
      /\ Len(errors') = Len(errors) + 1 /\ Len(errors') <= MaxLength
  BY <1>1 DEF Update
<1> DEFINE right == ddm.n - ddm.wrong
<1>8. /\ ddm.n < MinN => ddm.min = None
      /\ ~(ddm.n < MinN) => HasMinimum(ddm.min, ddm.wrong, right)
  BY DEF DDMInv, MinimumIs
<1> HIDE DEF d, n, w, k, p, s
<1>9. right \in Nat /\ right <= k
  BY <1>1, <1>2
<1> HIDE DEF right
<1>10. s = 0 <=> w = 0 \/ k = 0
  BY <1>2, <1>4, NoDeviation
<1>11. ASSUME lower, fires PROVE s = 0
  <2>1. min = [p |-> p, s |-> s]
    BY <1>11
  <2>2. p + s >= p + DriftLevel * s
    BY <1>11, <2>1
  <2>3. 3 * s <= DriftLevel * s /\ DriftLevel * s \in Nat
    BY <1>1, <1>4, TimesMonotone
  <2> QED BY <1>3, <1>4, <2>2, <2>3
<1>12. ASSUME ddm.n < MinN PROVE DriftOnWorse(e) /\ (~fires => MinimumIs(min, n, w))
  <2>1. ddm.min = None
    BY <1>8, <1>12
  <2>2. n <= MinN
    BY <1>1, <1>12 DEF n
  <2>3. ASSUME fires PROVE w \in {0, MinN}
    <3>1. lower /\ n = MinN
      BY <1>1, <1>2, <2>1, <2>2, <2>3
    <3> QED BY <1>2, <1>10, <1>11, <2>3, <3>1
  <2>4. DriftOnWorse(e)
    <3>1. d.wrong = w
      BY <1>5
    <3> HIDE DEF fires
    <3> QED BY <1>6, <2>1, <2>3, <3>1 DEF DriftOnWorse, d
  <2>5. ASSUME ~fires PROVE MinimumIs(min, n, w)
    <3>1. CASE n < MinN
      <4>1. min = None
        BY <1>1, <1>2, <2>1, <3>1
      <4> QED BY <3>1, <4>1 DEF MinimumIs
    <3>2. CASE ~(n < MinN)
      <4>1. lower
        BY <1>1, <1>2, <2>1, <3>2
      <4>2. min = [p |-> p, s |-> s]
        BY <4>1
      <4>3. s # 0
        <5> SUFFICES ASSUME s = 0 PROVE FALSE
          OBVIOUS
        <5>1. DriftLevel * s = 0 /\ min.p = p /\ min.s = s
          BY <1>1, <4>2
        <5> QED BY <1>1, <1>2, <1>3, <2>5, <3>2, <5>1
      <4>4. w \in Nat \ {0} /\ k \in Nat \ {0}
        BY <1>2, <1>10, <4>3
      <4>5. MinimumOf(min, w, k)
        <5> HIDE DEF min
        <5> QED BY <1>2, <1>3, <1>4, <4>2 DEF MinimumOf, p
      <4>6. HasMinimum(min, w, k)
        <5> HIDE DEF min
        <5> QED BY <4>4, <4>5 DEF HasMinimum
      <4>7. n - w = k
        BY DEF k
      <4> HIDE DEF min, lower, fires
      <4>8. HasMinimum(min, w, n - w)
        BY <4>6, <4>7
      <4> QED BY <3>2, <4>8 DEF MinimumIs
    <3> QED BY <3>1, <3>2
  <2> QED BY <2>4, <2>5
<1>13. ASSUME ~(ddm.n < MinN) PROVE DriftOnWorse(e) /\ (~fires => MinimumIs(min, n, w))
  <2>1. PICK w0, k0 \in Nat \ {0} : w0 <= ddm.wrong /\ k0 <= right /\ MinimumOf(ddm.min, w0, k0)
    BY <1>8, <1>13 DEF HasMinimum
  <2>2. w0 <= w /\ k0 <= k /\ n >= MinN /\ w # 0 /\ k # 0
    <3>1. w0 \in Nat \ {0} /\ k0 \in Nat \ {0} /\ w0 <= ddm.wrong /\ k0 <= right
      BY <2>1
    <3>2. n >= MinN
      BY <1>1, <1>13 DEF n
    <3> HIDE DEF n, min, lower, fires
    <3>3. w0 <= w /\ w # 0
      BY <1>1, <1>2, <3>1
    <3>4. k0 <= k /\ k # 0
      BY <1>1, <1>2, <1>9, <3>1
    <3> QED BY <3>2, <3>3, <3>4
  <2>3. ddm.min # None
    BY <2>1, NoneAssumption DEF MinimumOf
  <2>4. s # 0
    BY <1>10, <2>2
  <2>5. /\ ddm.min.p = Rate(w0, w0 + k0) /\ IsDeviation(ddm.min.s, w0, k0, w0 + k0)
        /\ ddm.min.p \in Nat /\ ddm.min.s \in Nat
    BY <2>1 DEF MinimumOf
  <2>6. ASSUME fires PROVE p > ddm.min.p
    <3>1. ~lower /\ min = ddm.min
      BY <1>11, <2>4, <2>6
    <3>2. p + s >= ddm.min.p + DriftLevel * ddm.min.s
      BY <2>6, <3>1
    <3> DEFINE m == ddm.min.s
    <3>3. Rate(w, w + k) + s >= Rate(w0, w0 + k0) + DriftLevel * m
      BY <1>2, <2>5, <3>2 DEF p
    <3>4. m \in Nat /\ IsDeviation(m, w0, k0, w0 + k0) /\ IsDeviation(s, w, k, w + k)
      BY <1>2, <1>4, <2>5
    <3> HIDE DEF m
    <3>5. Rate(w, w + k) > Rate(w0, w0 + k0)
      <4>1. w + k <= 512 /\ DriftLevel \in Nat /\ DriftLevel >= 3
        BY <1>1, <1>2
      <4> QED BY <1>2, <1>4, <2>1, <2>2, <3>3, <3>4, <4>1, NoFalseDrift
    <3> QED BY <1>2, <2>5, <3>5 DEF p
  <2>7. DriftOnWorse(e)
    <3>1. d.p = p
      BY <1>5
    <3> HIDE DEF fires
    <3> QED BY <1>6, <2>3, <2>6, <3>1 DEF DriftOnWorse, d
  <2>8. HasMinimum(min, w, k)
    <3>1. CASE lower
      <4>1. min = [p |-> p, s |-> s] /\ w \in Nat \ {0} /\ k \in Nat \ {0}
        BY <1>2, <2>2, <3>1
      <4>2. MinimumOf(min, w, k)
        <5> HIDE DEF min
        <5> QED BY <1>2, <1>3, <1>4, <4>1 DEF MinimumOf, p
      <4> HIDE DEF min
      <4> QED BY <4>1, <4>2 DEF HasMinimum
    <3>2. CASE ~lower
      <4>1. min = ddm.min
        BY <3>2
      <4> HIDE DEF min
      <4> QED BY <2>1, <2>2, <4>1 DEF HasMinimum
    <3> QED BY <3>1, <3>2
  <2>9. MinimumIs(min, n, w)
    <3>1. ~(n < MinN)
      BY <1>1, <1>2, <2>2
    <3>2. n - w = k
      BY DEF k
    <3> HIDE DEF min
    <3> QED BY <2>8, <3>1, <3>2 DEF MinimumIs
  <2> QED BY <2>7, <2>9
<1>14. DriftOnWorse(e) /\ (~fires => MinimumIs(min, n, w))
  BY <1>12, <1>13
<1> HIDE DEF fires, min
<1>15. CASE fires
  <2>1. ddm' = NewDDM
    BY <1>6, <1>15
  <2>2. ddm'.n = 0 /\ ddm'.wrong = 0 /\ ddm'.min = None
    BY <2>1 DEF NewDDM
  <2>3. DDMTypes'
    BY <1>1, <1>7, <2>2 DEF DDMTypes
  <2>4. 0 < MinN
    BY <1>1
  <2> QED BY <1>14, <2>2, <2>3, <2>4 DEF DDMInv, MinimumIs
<1>16. CASE ~fires
  <2>1. ddm'.n = n /\ ddm'.wrong = w /\ ddm'.min = min
    BY <1>5, <1>6, <1>16
  <2>2. n <= Len(errors')
    BY <1>1, <1>7 DEF n
  <2>3. DDMTypes'
    BY <1>2, <1>7, <2>1, <2>2 DEF DDMTypes
  <2>4. MinimumIs(ddm'.min, ddm'.n, ddm'.wrong)
    BY <1>14, <1>16, <2>1
  <2> QED BY <1>14, <2>3, <2>4 DEF DDMInv, MinimumIs, HasMinimum
<1> QED BY <1>15, <1>16

\* DDM (concept_drift.py:166-197) fires only when the rate of errors is above the
\* one of the minimum it keeps, or at the first element it judges when all
\* predictions so far were right or all wrong; for every window of up to 512
\* elements, every MinN above 0 and every drift level of 3 or more.
THEOREM DDMFiresOnMoreErrors ==
  ASSUME ThreeDeviations
  PROVE  Spec => DDMFiresOnWorse
<1> DEFINE Worse == LET e == errors'[Len(errors')]
                        d == Counted(e)
                    IN  DDMUpdated(e).drift => IF ddm.min = None THEN d.wrong \in {0, MinN}
                                               ELSE d.p > ddm.min.p
<1>1. Init => DDMInv
  <2> SUFFICES ASSUME Init PROVE DDMInv
    OBVIOUS
  <2>1. errors = <<>> /\ ddm.n = 0 /\ ddm.wrong = 0 /\ ddm.min = None
    BY DEF Init, NewDDM
  <2>2. DDMTypes
    BY <2>1, BoundAssumption DEF DDMTypes
  <2>3. 0 < MinN
    BY DEF ThreeDeviations
  <2> QED BY <2>1, <2>2, <2>3 DEF DDMInv, MinimumIs
<1>2. DDMInv /\ [Next]_vars => DDMInv' /\ [Worse]_vars
  <2> SUFFICES ASSUME DDMInv, [Next]_vars PROVE DDMInv' /\ [Worse]_vars
    OBVIOUS
  <2>1. CASE Follow \/ Switch
    <3>1. PICK e \in {0, 1} : Update(e)
      BY <2>1 DEF Follow, Switch, Value
    <3>2. Len(errors) < MaxLength
      BY <2>1 DEF Follow, Switch
    <3>3. DDMInv' /\ DriftOnWorse(e)
      BY <3>1, <3>2, DDMStep
    <3>4. errors'[Len(errors')] = e
      BY <3>1 DEF Update, DDMInv, DDMTypes
    <3>5. Worse
      BY <3>3, <3>4 DEF DriftOnWorse
    <3> QED BY <3>3, <3>5
  <2>2. CASE UNCHANGED vars
    BY <2>2 DEF vars, DDMInv, DDMTypes, MinimumIs, HasMinimum, MinimumOf
  <2> QED BY <2>1, <2>2 DEF Next
<1> QED BY <1>1, <1>2, PTL DEF Spec, DDMFiresOnWorse

-----------------------------------------------------------------------------
(* The recursive functions that the histogram is built with                *)

\* g starts with base at a and takes one step after another up to n.
Iterates(g, S, a, n, base, step) ==
  /\ g \in [a .. n -> S] /\ g[a] = base
  /\ \A r \in a + 1 .. n : g[r] = step[<<g[r - 1], r>>]

\* A recursive function on an interval exists, so that CHOOSE finds it.
LEMMA RecursionExists ==
  ASSUME NEW S, NEW a \in Nat, NEW n \in Nat, a <= n, NEW base \in S,
         NEW step \in [S \X (a + 1 .. n) -> S]
  PROVE  \E g : Iterates(g, S, a, n, base, step)
<1> DEFINE T == {m \in Nat : a <= m /\ m <= n /\ ~\E g : Iterates(g, S, a, m, base, step)}
<1>1. T = {}
  <2> SUFFICES ASSUME T # {} PROVE FALSE
    OBVIOUS
  <2>1. PICK m \in T : \A k \in T : m <= k
    BY LeastNatural
  <2>2. m \in Nat /\ a <= m /\ m <= n /\ ~\E g : Iterates(g, S, a, m, base, step)
    BY <2>1
  <2>3. CASE m = a
    <3> DEFINE g == [k \in a .. a |-> base]
    <3>1. g \in [a .. a -> S] /\ g[a] = base /\ a + 1 .. a = {}
      OBVIOUS
    <3>2. Iterates(g, S, a, a, base, step)
      BY <3>1 DEF Iterates
    <3> QED BY <2>2, <2>3, <3>2
  <2>4. CASE m # a
    <3>1. m - 1 \in Nat /\ a <= m - 1 /\ m - 1 <= n /\ m - 1 \notin T /\ m \in a + 1 .. n
      BY <2>1, <2>2, <2>4
    <3>2. PICK f : Iterates(f, S, a, m - 1, base, step)
      BY <3>1
    <3> DEFINE g == [k \in a .. m |-> IF k = m THEN step[<<f[m - 1], m>>] ELSE f[k]]
    <3>3. f \in [a .. m - 1 -> S] /\ f[a] = base /\ m - 1 \in a .. m - 1
      BY <2>2, <3>1, <3>2 DEF Iterates
    <3>4. step[<<f[m - 1], m>>] \in S
      BY <3>1, <3>3
    <3>5. g \in [a .. m -> S]
      BY <2>2, <3>3, <3>4
    <3>6. g[a] = base
      BY <2>2, <2>4, <3>3
    <3>7. ASSUME NEW r \in a + 1 .. m PROVE g[r] = step[<<g[r - 1], r>>]
      <4>1. r \in a .. m /\ r - 1 \in a .. m /\ r - 1 # m /\ g[r - 1] = f[r - 1]
        BY <2>2
      <4>2. CASE r = m
        BY <4>1, <4>2
      <4>3. CASE r # m
        <5>1. r \in a + 1 .. m - 1
          BY <2>2, <4>3
        <5>2. f[r] = step[<<f[r - 1], r>>]
          BY <3>2, <5>1 DEF Iterates
        <5> QED BY <4>1, <4>3, <5>2
      <4> QED BY <4>2, <4>3
    <3> HIDE DEF g
    <3>8. Iterates(g, S, a, m, base, step)
      BY <3>5, <3>6, <3>7 DEF Iterates
    <3> QED BY <2>2, <3>8
  <2> QED BY <2>3, <2>4
<1> QED BY <1>1

\* The capacity doubles from row to row.
LEMMA RowSizes ==
  /\ RowSize[1] = 1
  /\ \A r \in Nat \ {0} : RowSize[r] \in Nat /\ RowSize[r + 1] = 2 * RowSize[r]
<1> DEFINE step(n) == [p \in Nat \X (2 .. n) |-> 2 * p[1]]
           Sizes(g, n) == Iterates(g, Nat, 1, n, 1, step(n))
           sizes(n) == CHOOSE g : Sizes(g, n)
           h == [r \in Nat \ {0} |-> sizes(r)[r]]
           Doubles(f) == f = [r \in Nat \ {0} |-> IF r = 1 THEN 1 ELSE 2 * f[r - 1]]
<1>1. ASSUME NEW n \in Nat \ {0} PROVE Sizes(sizes(n), n)
  <2>1. step(n) \in [Nat \X (1 + 1 .. n) -> Nat]
    OBVIOUS
  <2> DEFINE s == step(n)
  <2> HIDE DEF s
  <2>2. \E g : Iterates(g, Nat, 1, n, 1, s)
    <3>1. s \in [Nat \X (1 + 1 .. n) -> Nat] /\ 1 \in Nat /\ n \in Nat /\ 1 <= n
      BY <2>1 DEF s
    <3> QED BY <3>1, RecursionExists
  <2> QED BY <2>2 DEF s
<1>2. ASSUME NEW n \in Nat \ {0}
      PROVE  /\ sizes(n) \in [1 .. n -> Nat] /\ sizes(n)[1] = 1
             /\ \A r \in 2 .. n : sizes(n)[r] = 2 * sizes(n)[r - 1]
  <2> DEFINE g == sizes(n)
  <2>1. Sizes(g, n)
    BY <1>1
  <2> HIDE DEF g, sizes
  <2>2. g \in [1 .. n -> Nat] /\ g[1] = 1 /\ \A r \in 1 + 1 .. n : g[r] = step(n)[<<g[r - 1], r>>]
    BY <2>1 DEF Iterates
  <2>3. ASSUME NEW r \in 2 .. n PROVE g[r] = 2 * g[r - 1]
    <3>1. r - 1 \in 1 .. n /\ r \in 1 + 1 .. n
      OBVIOUS
    <3>2. g[r - 1] \in Nat
      BY <2>2, <3>1
    <3>3. step(n)[<<g[r - 1], r>>] = 2 * g[r - 1]
      BY <3>1, <3>2
    <3> QED BY <2>2, <3>1, <3>3
  <2> QED BY <2>2, <2>3 DEF g
<1> HIDE DEF Sizes, sizes
<1>3. ASSUME NEW n \in Nat \ {0} PROVE \A k \in 1 .. n : sizes(n)[k] = sizes(n + 1)[k]
  <2> DEFINE f == sizes(n)
             g == sizes(n + 1)
             T == {k \in 1 .. n : f[k] # g[k]}
  <2>1. n + 1 \in Nat \ {0} /\ 1 \in 1 .. n
    OBVIOUS
  <2>2. /\ f[1] = 1 /\ \A r \in 2 .. n : f[r] = 2 * f[r - 1]
        /\ g[1] = 1 /\ \A r \in 2 .. n + 1 : g[r] = 2 * g[r - 1]
    BY <1>2, <2>1
  <2> HIDE DEF f, g
  <2>3. T = {}
    <3> SUFFICES ASSUME T # {} PROVE FALSE
      OBVIOUS
    <3>1. PICK k \in T : \A y \in T : k <= y
      <4>1. T \subseteq Nat
        OBVIOUS
      <4> HIDE DEF T
      <4> QED BY <4>1, LeastNatural
    <3>2. k \in 1 .. n /\ f[k] # g[k]
      BY <3>1
    <3>3. k # 1
      BY <2>2, <3>2
    <3>4. k - 1 \in 1 .. n /\ k - 1 \notin T /\ k \in 2 .. n /\ k \in 2 .. n + 1
      BY <3>1, <3>2, <3>3
    <3>5. f[k - 1] = g[k - 1]
      BY <3>4
    <3> QED BY <2>2, <3>2, <3>4, <3>5
  <2> QED BY <2>3 DEF f, g
<1>4. Doubles(h)
  <2>1. ASSUME NEW r \in Nat \ {0} PROVE h[r] = IF r = 1 THEN 1 ELSE 2 * h[r - 1]
    <3>1. CASE r = 1
      BY <1>2, <3>1
    <3>2. CASE r # 1
      <4>1. r - 1 \in Nat \ {0} /\ (r - 1) + 1 = r /\ r - 1 \in 1 .. r - 1 /\ r \in 2 .. r
        BY <3>2
      <4>2. sizes(r)[r] = 2 * sizes(r)[r - 1]
        BY <1>2, <4>1
      <4>3. sizes(r - 1)[r - 1] = sizes(r)[r - 1]
        BY <1>3, <4>1
      <4> QED BY <3>2, <4>1, <4>2, <4>3
    <3> QED BY <3>1, <3>2
  <2>2. h = [r \in Nat \ {0} |-> h[r]]
    OBVIOUS
  <2> DEFINE k == [r \in Nat \ {0} |-> IF r = 1 THEN 1 ELSE 2 * h[r - 1]]
  <2>3. h = k
    <3>1. \A r \in Nat \ {0} : h[r] = k[r]
      BY <2>1
    <3> HIDE DEF h
    <3> QED BY <2>2, <3>1 DEF h
  <2> QED BY <2>3
<1>5. Doubles(RowSize)
  <2>1. RowSize = CHOOSE f : Doubles(f)
    BY DEF RowSize
  <2> HIDE DEF Doubles, h
  <2> QED BY <1>4, <2>1
<1>6. \A r \in Nat \ {0} : RowSize[r] = IF r = 1 THEN 1 ELSE 2 * RowSize[r - 1]
  <2> DEFINE f == RowSize
  <2>1. Doubles(f)
    BY <1>5
  <2> HIDE DEF f
  <2>2. \A r \in Nat \ {0} : f[r] = IF r = 1 THEN 1 ELSE 2 * f[r - 1]
    BY <2>1
  <2> QED BY <2>2 DEF f
<1>7. ASSUME NEW r \in Nat \ {0} PROVE RowSize[r] \in Nat
  <2> DEFINE T == {k \in Nat : k # 0 /\ RowSize[k] \notin Nat}
  <2>1. T = {}
    <3> SUFFICES ASSUME T # {} PROVE FALSE
      OBVIOUS
    <3>1. PICK k \in T : \A y \in T : k <= y
      <4>1. T \subseteq Nat
        OBVIOUS
      <4> HIDE DEF T
      <4> QED BY <4>1, LeastNatural
    <3>2. k \in Nat /\ k # 0 /\ RowSize[k] \notin Nat
      BY <3>1
    <3>3. k # 1
      BY <1>6, <3>2
    <3>4. k - 1 \in Nat /\ k - 1 # 0 /\ k - 1 \notin T
      BY <3>1, <3>2, <3>3
    <3>5. RowSize[k - 1] \in Nat /\ RowSize[k] = 2 * RowSize[k - 1]
      BY <1>6, <3>2, <3>3, <3>4
    <3> QED BY <3>2, <3>5
  <2> QED BY <2>1
<1>8. ASSUME NEW r \in Nat \ {0} PROVE RowSize[r + 1] = 2 * RowSize[r]
  <2>1. r + 1 \in Nat \ {0} /\ r + 1 # 1 /\ (r + 1) - 1 = r
    OBVIOUS
  <2> QED BY <1>6, <2>1
<1> QED BY <1>6, <1>7, <1>8

\* f flattens the first rows, one after the other.
Flattens(f, rows, X) ==
  /\ f \in [1 .. Len(rows) -> Seq(X)] /\ f[1] = rows[1]
  /\ \A r \in 2 .. Len(rows) : f[r] = f[r - 1] \o rows[r]

\* FlattenSeq of the community modules appends one row after the other.
LEMMA FlattenIs ==
  ASSUME NEW X, NEW rows \in Seq(Seq(X)), rows # <<>>
  PROVE  \E f : Flattens(f, rows, X) /\ FlattenSeq(rows) = f[Len(rows)]
<1> DEFINE n == Len(rows)
           S == Seq(X)
           step == [p \in S \X (2 .. n) |-> p[1] \o rows[p[2]]]
           Fits(f) == f = [r \in 1 .. n |-> IF r = 1 THEN rows[r] ELSE f[r - 1] \o rows[r]]
           flatten == CHOOSE f : Fits(f)
<1>1. n \in Nat /\ 1 <= n /\ \A r \in 1 .. n : rows[r] \in S
  OBVIOUS
<1>2. FlattenSeq(rows) = flatten[n]
  BY <1>1 DEF FlattenSeq
<1>3. \A s \in S, r \in 2 .. n : s \o rows[r] \in S
  BY <1>1
<1> HIDE DEF n, S
<1>4. step \in [S \X (1 + 1 .. n) -> S]
  BY <1>1, <1>3
<1>5. \A s \in S, r \in 2 .. n : step[<<s, r>>] = s \o rows[r]
  OBVIOUS
<1> HIDE DEF step
<1>6. PICK g : Iterates(g, S, 1, n, rows[1], step)
  <2>1. rows[1] \in S /\ 1 \in Nat
    BY <1>1
  <2> QED BY <1>1, <1>4, <2>1, RecursionExists
<1>7. g \in [1 .. n -> S] /\ g[1] = rows[1] /\ \A r \in 1 + 1 .. n : g[r] = step[<<g[r - 1], r>>]
  BY <1>6 DEF Iterates
<1>8. Fits(g)
  <2>1. ASSUME NEW r \in 1 .. n PROVE g[r] = IF r = 1 THEN rows[r] ELSE g[r - 1] \o rows[r]
    <3>1. CASE r = 1
      BY <1>7, <3>1
    <3>2. CASE r # 1
      <4>1. r \in 1 + 1 .. n /\ r \in 2 .. n /\ r - 1 \in 1 .. n
        BY <1>1, <3>2
      <4> QED BY <1>5, <1>7, <3>2, <4>1
    <3> QED BY <3>1, <3>2
  <2> QED BY <1>7, <2>1
<1>9. Fits(flatten)
  <2> HIDE DEF Fits
  <2> QED BY <1>8
<1> HIDE DEF flatten
<1>10. flatten \in [1 .. n -> S] /\ flatten[1] = rows[1]
       /\ \A r \in 2 .. n : flatten[r] = flatten[r - 1] \o rows[r]
  <2> DEFINE f == flatten
             k == [r \in 1 .. n |-> IF r = 1 THEN rows[r] ELSE f[r - 1] \o rows[r]]
  <2>0. f = k
    BY <1>9
  <2>1. \A r \in 1 .. n : f[r] = IF r = 1 THEN rows[r] ELSE f[r - 1] \o rows[r]
    BY <2>0
  <2> HIDE DEF f
  <2>2. f[1] = rows[1]
    BY <1>1, <2>1
  <2>3. \A r \in 2 .. n : f[r] = f[r - 1] \o rows[r]
    <3> TAKE r \in 2 .. n
    <3>1. r \in 1 .. n /\ r # 1
      BY <1>1
    <3> QED BY <2>1, <3>1
  <2> DEFINE T == {r \in 1 .. n : f[r] \notin S}
  <2>4. T = {}
    <3> SUFFICES ASSUME T # {} PROVE FALSE
      OBVIOUS
    <3>1. PICK j \in T : \A y \in T : j <= y
      <4>1. T \subseteq Nat
        OBVIOUS
      <4> HIDE DEF T
      <4> QED BY <4>1, LeastNatural
    <3>2. j \in 1 .. n /\ f[j] \notin S /\ j # 1
      BY <1>1, <2>2, <3>1
    <3>3. j - 1 \in 1 .. n /\ j - 1 \notin T /\ j \in 2 .. n
      BY <1>1, <3>1, <3>2
    <3>4. f[j - 1] \in S
      BY <3>3
    <3> QED BY <1>3, <2>3, <3>2, <3>3, <3>4
  <2>5. f \in [1 .. n -> S]
    <3>1. DOMAIN f = 1 .. n /\ f = [r \in DOMAIN f |-> f[r]]
      <4>1. k = [r \in DOMAIN k |-> k[r]] /\ DOMAIN k = 1 .. n
        OBVIOUS
      <4> HIDE DEF k
      <4> QED BY <2>0, <4>1
    <3> QED BY <2>4, <3>1
  <2> QED BY <2>2, <2>3, <2>5 DEF f
<1> QED BY <1>2, <1>10 DEF Flattens, n, S

\* c compresses the rows up to each one.
Compresses(c, rows, bucket) ==
  /\ c[0] = AppendTo(rows, 1, bucket)
  /\ \A r \in 1 .. Len(rows) : c[r] = Compressed(c[r - 1], r)

\* What a bucket and the rows of a histogram are made of.
AnyBucket == [count : Nat, total : Nat, of : SUBSET Nat]
AnyRows == Seq(Seq(AnyBucket))

\* Appending a bucket to a row, or to a new one, leaves rows of buckets.
LEMMA AppendToType ==
  ASSUME NEW rows \in AnyRows, NEW r \in Nat \ {0}, NEW b \in AnyBucket
  PROVE  AppendTo(rows, r, b) \in AnyRows
<1>1. CASE r > Len(rows)
  <2>1. <<b>> \in Seq(AnyBucket)
    OBVIOUS
  <2> QED BY <1>1, <2>1 DEF AppendTo, AnyRows
<1>2. CASE ~(r > Len(rows))
  <2>1. r \in 1 .. Len(rows)
    BY <1>2 DEF AnyRows
  <2>2. Append(rows[r], b) \in Seq(AnyBucket)
    BY <2>1 DEF AnyRows
  <2> DEFINE S == Seq(AnyBucket)
             row == Append(rows[r], b)
  <2> HIDE DEF S, row
  <2>3. [rows EXCEPT ![r] = row] \in Seq(S)
    BY <2>1, <2>2 DEF AnyRows, S, row
  <2> QED BY <1>2, <2>3 DEF AppendTo, AnyRows, S, row
<1> QED BY <1>1, <1>2

\* So does a step of the compression.
LEMMA CompressedType ==
  ASSUME NEW rows \in AnyRows, NEW r \in Nat \ {0}
  PROVE  Compressed(rows, r) \in AnyRows
<1>1. CASE r > Len(rows) \/ Len(rows[r]) <= MaxBuckets
  BY <1>1 DEF Compressed
<1>2. CASE ~(r > Len(rows) \/ Len(rows[r]) <= MaxBuckets)
  <2> DEFINE row == rows[r]
             left == SubSeq(row, 3, Len(row))
             less == [rows EXCEPT ![r] = SubSeq(@, 3, Len(@))]
             b == Merged(row[1], row[2])
             S == Seq(AnyBucket)
  <2>1. r \in 1 .. Len(rows) /\ row \in S /\ Len(row) >= 2
    BY <1>2, BoundAssumption DEF AnyRows
  <2>2. left \in S
    BY <2>1
  <2>3. less = [rows EXCEPT ![r] = left]
    BY <2>1
  <2>4. b \in AnyBucket
    <3>1. row[1] \in AnyBucket /\ row[2] \in AnyBucket
      BY <2>1
    <3> HIDE DEF row
    <3> QED BY <3>1 DEF AnyBucket, Merged
  <2>5. less \in AnyRows
    <3> HIDE DEF left, S, less
    <3> QED BY <2>1, <2>2, <2>3 DEF AnyRows, S
  <2>6. Compressed(rows, r) = AppendTo(less, r + 1, b)
    BY <1>2 DEF Compressed
  <2> HIDE DEF less, b
  <2> QED BY <2>4, <2>5, <2>6, AppendToType
<1> QED BY <1>1, <1>2

\* Inserted compresses row after row, from the first to the last before it.
LEMMA InsertedIs ==
  ASSUME NEW rows \in AnyRows, NEW e \in Nat, NEW i \in Nat
  PROVE  \E c : Compresses(c, rows, [count |-> 1, total |-> e, of |-> {i}])
                /\ Inserted(rows, e, i) = c[Len(rows)]
<1> DEFINE n == Len(rows)
           bucket == [count |-> 1, total |-> e, of |-> {i}]
           base == AppendTo(rows, 1, bucket)
           step == [p \in AnyRows \X (1 .. n) |-> Compressed(p[1], p[2])]
           Fits(c) == c = [r \in 0 .. n |-> IF r = 0 THEN AppendTo(rows, 1, bucket)
                                            ELSE Compressed(c[r - 1], r)]
           compressed == CHOOSE c : Fits(c)
<1>1. n \in Nat /\ 0 <= n
  BY DEF AnyRows
<1>2. Inserted(rows, e, i) = compressed[n]
  BY DEF Inserted
<1>3. base \in AnyRows
  <2>1. bucket \in AnyBucket
    BY DEF AnyBucket
  <2> HIDE DEF bucket
  <2> QED BY <2>1, AppendToType
<1> HIDE DEF n, bucket
<1>4. step \in [AnyRows \X (0 + 1 .. n) -> AnyRows]
  BY <1>1, CompressedType
<1>5. \A s \in AnyRows, r \in 1 .. n : step[<<s, r>>] = Compressed(s, r)
  OBVIOUS
<1> HIDE DEF step, base
<1>6. PICK g : Iterates(g, AnyRows, 0, n, base, step)
  BY <1>1, <1>3, <1>4, RecursionExists
<1>7. g \in [0 .. n -> AnyRows] /\ g[0] = base /\ \A r \in 0 + 1 .. n : g[r] = step[<<g[r - 1], r>>]
  BY <1>6 DEF Iterates
<1>8. Fits(g)
  <2>1. ASSUME NEW r \in 0 .. n PROVE g[r] = IF r = 0 THEN base ELSE Compressed(g[r - 1], r)
    <3>1. CASE r = 0
      BY <1>7, <3>1
    <3>2. CASE r # 0
      <4>1. r \in 0 + 1 .. n /\ r \in 1 .. n /\ r - 1 \in 0 .. n
        BY <1>1, <3>2
      <4> QED BY <1>5, <1>7, <3>2, <4>1
    <3> QED BY <3>1, <3>2
  <2> QED BY <1>7, <2>1 DEF base
<1>9. Fits(compressed)
  <2> HIDE DEF Fits
  <2> QED BY <1>8
<1> HIDE DEF compressed
<1>10. compressed[0] = base /\ \A r \in 1 .. n : compressed[r] = Compressed(compressed[r - 1], r)
  <2> DEFINE f == compressed
  <2>1. \A r \in 0 .. n : f[r] = IF r = 0 THEN base ELSE Compressed(f[r - 1], r)
    BY <1>9 DEF base
  <2> HIDE DEF f
  <2>2. f[0] = base
    BY <1>1, <2>1
  <2>3. \A r \in 1 .. n : f[r] = Compressed(f[r - 1], r)
    <3> TAKE r \in 1 .. n
    <3>1. r \in 0 .. n /\ r # 0
      BY <1>1
    <3> QED BY <2>1, <3>1
  <2> QED BY <2>2, <2>3 DEF f
<1> QED BY <1>2, <1>10 DEF Compresses, n, base, bucket

-----------------------------------------------------------------------------
(* What buckets that share no element add up to                            *)

\* The errors among the positions; the elements of the first i buckets.
ErrorsIn(es, positions) == Cardinality({i \in positions : es[i] = 1})
Together(flat, i) == UNION {flat[j].of : j \in 1 .. i}

\* A bucket that counts its elements and the errors among them.
Counts(es, b) ==
  /\ IsFiniteSet(b.of) /\ b.of \subseteq Nat
  /\ b.count = Cardinality(b.of) /\ b.total = ErrorsIn(es, b.of)

\* Buckets that count their elements and share none.
IsFlat(es, flat) ==
  /\ flat \in Seq(AnyBucket)
  /\ \A i \in 1 .. Len(flat) : Counts(es, flat[i])
  /\ \A i, j \in 1 .. Len(flat) : i # j => flat[i].of \intersect flat[j].of = {}

\* Elements and errors of disjoint sets add up.
LEMMA DisjointCounts ==
  ASSUME NEW es, NEW P, NEW Q, IsFiniteSet(P), IsFiniteSet(Q), P \intersect Q = {}
  PROVE  /\ IsFiniteSet(P \union Q)
         /\ Cardinality(P \union Q) = Cardinality(P) + Cardinality(Q)
         /\ ErrorsIn(es, P \union Q) = ErrorsIn(es, P) + ErrorsIn(es, Q)
         /\ Cardinality(P) \in Nat /\ ErrorsIn(es, P) \in Nat
<1> DEFINE p == {i \in P : es[i] = 1}
           q == {i \in Q : es[i] = 1}
           u == {i \in P \union Q : es[i] = 1}
<1>1. IsFiniteSet(p) /\ IsFiniteSet(q)
  <2>1. p \in SUBSET P /\ q \in SUBSET Q
    OBVIOUS
  <2> HIDE DEF p, q
  <2> QED BY <2>1, FS_Subset
<1>2. u = p \union q /\ p \intersect q = {}
  OBVIOUS
<1>3. ErrorsIn(es, P) = Cardinality(p) /\ ErrorsIn(es, Q) = Cardinality(q)
      /\ ErrorsIn(es, P \union Q) = Cardinality(u)
  BY DEF ErrorsIn
<1>4. Cardinality({}) = 0
  BY FS_EmptySet
<1> HIDE DEF p, q, u
<1>5. IsFiniteSet(P \union Q)
      /\ Cardinality(P \union Q) = Cardinality(P) + Cardinality(Q) - Cardinality(P \intersect Q)
  BY FS_Union
<1>6. Cardinality(p \union q) = Cardinality(p) + Cardinality(q) - Cardinality(p \intersect q)
  BY <1>1, FS_Union
<1>7. /\ Cardinality(P) \in Nat /\ Cardinality(Q) \in Nat
      /\ Cardinality(p) \in Nat /\ Cardinality(q) \in Nat
  <2>1. \A S : IsFiniteSet(S) => Cardinality(S) \in Nat
    BY FS_CardinalityType
  <2> QED BY <1>1, <2>1
<1>8. Cardinality(u) = Cardinality(p) + Cardinality(q)
  <2>1. Cardinality(u) = Cardinality(p) + Cardinality(q) - Cardinality({})
    BY <1>2, <1>6
  <2> QED BY <1>4, <1>7, <2>1
<1>9. Cardinality(P \union Q) = Cardinality(P) + Cardinality(Q)
  <2>1. Cardinality(P \union Q) = Cardinality(P) + Cardinality(Q) - Cardinality({})
    BY <1>5
  <2> QED BY <1>4, <1>7, <2>1
<1> QED BY <1>3, <1>5, <1>7, <1>8, <1>9

\* One bucket more.
LEMMA TogetherStep ==
  ASSUME NEW es, NEW flat, IsFlat(es, flat), NEW i \in 1 .. Len(flat)
  PROVE  /\ Together(flat, i) = Together(flat, i - 1) \union flat[i].of
         /\ Together(flat, i - 1) \intersect flat[i].of = {}
<1>1. Len(flat) \in Nat
  BY DEF IsFlat
<1>2. 1 .. i = (1 .. i - 1) \union {i}
  BY <1>1
<1>3. Together(flat, i) = Together(flat, i - 1) \union flat[i].of
  BY <1>2 DEF Together
<1>4. ASSUME NEW j \in 1 .. i - 1 PROVE flat[j].of \intersect flat[i].of = {}
  <2>1. j \in 1 .. Len(flat) /\ j # i
    BY <1>1
  <2>2. \A x, y \in 1 .. Len(flat) : x # y => flat[x].of \intersect flat[y].of = {}
    BY DEF IsFlat
  <2> QED BY <2>1, <2>2
<1> QED BY <1>3, <1>4 DEF Together

\* The elements of the first buckets are finitely many.
LEMMA TogetherFinite ==
  ASSUME NEW es, NEW flat, IsFlat(es, flat), NEW n \in 0 .. Len(flat)
  PROVE  IsFiniteSet(Together(flat, n))
<1> DEFINE T == {i \in 0 .. Len(flat) : ~IsFiniteSet(Together(flat, i))}
<1>1. Len(flat) \in Nat
  BY DEF IsFlat
<1>2. T = {}
  <2> SUFFICES ASSUME T # {} PROVE FALSE
    OBVIOUS
  <2>1. PICK i \in T : \A y \in T : i <= y
    <3>1. T \subseteq Nat
      BY <1>1
    <3> HIDE DEF T
    <3> QED BY <3>1, LeastNatural
  <2>2. i \in 0 .. Len(flat) /\ ~IsFiniteSet(Together(flat, i))
    BY <2>1
  <2>3. i # 0
    <3>1. Together(flat, 0) = {}
      BY DEF Together
    <3> QED BY <2>2, <3>1, FS_EmptySet
  <2>4. i - 1 \in 0 .. Len(flat) /\ i - 1 \notin T /\ i \in 1 .. Len(flat)
    BY <1>1, <2>1, <2>2, <2>3
  <2>5. IsFiniteSet(Together(flat, i - 1)) /\ IsFiniteSet(flat[i].of)
    <3>1. IsFiniteSet(Together(flat, i - 1))
      BY <2>4
    <3>2. IsFiniteSet(flat[i].of)
      BY <2>4 DEF IsFlat, Counts
    <3> QED BY <3>1, <3>2
  <2>6. Together(flat, i) = Together(flat, i - 1) \union flat[i].of
    BY <2>4, TogetherStep
  <2>7. IsFiniteSet(Together(flat, i - 1) \union flat[i].of)
    BY <2>5, FS_Union
  <2> QED BY <2>2, <2>6, <2>7
<1> QED BY <1>2

\* The running sums are the elements and the errors of the buckets so far:
\* what makes width and total right after a drop.
LEMMA SumsAre ==
  ASSUME NEW es, NEW flat, IsFlat(es, flat)
  PROVE  \A i \in 0 .. Len(flat) :
           Sums(flat)[i] = [n |-> Cardinality(Together(flat, i)), sum |-> ErrorsIn(es, Together(flat, i))]
<1> DEFINE n == Len(flat)
           next(s, i) == IF i = 0 THEN [n |-> 0, sum |-> 0]
                         ELSE [n |-> s[i - 1].n + flat[i].count, sum |-> s[i - 1].sum + flat[i].total]
           Fits(s) == s = [i \in 0 .. n |-> next(s, i)]
           closed == [i \in 0 .. n |-> [n |-> Cardinality(Together(flat, i)),
                                        sum |-> ErrorsIn(es, Together(flat, i))]]
           sums == CHOOSE s : Fits(s)
<1>1. n \in Nat
  BY DEF IsFlat
<1>2. Sums(flat) = sums
  BY DEF Sums
<1>3. ASSUME NEW i \in 0 .. n PROVE closed[i] = next(closed, i)
  <2>1. CASE i = 0
    <3>1. Together(flat, 0) = {} /\ {x \in {} : es[x] = 1} = {}
      BY DEF Together
    <3>2. Cardinality(Together(flat, 0)) = 0 /\ ErrorsIn(es, Together(flat, 0)) = 0
      BY <3>1, FS_EmptySet DEF ErrorsIn
    <3> QED BY <2>1, <3>2
  <2>2. CASE i # 0
    <3> DEFINE P == Together(flat, i - 1)
               Q == flat[i].of
    <3>1. i \in 1 .. Len(flat) /\ i - 1 \in 0 .. n
      BY <1>1, <2>2
    <3>2. IsFiniteSet(P) /\ Counts(es, flat[i])
      BY <3>1, TogetherFinite DEF IsFlat
    <3>3. Together(flat, i) = P \union Q /\ P \intersect Q = {}
      BY <3>1, TogetherStep
    <3>4. IsFiniteSet(Q) /\ flat[i].count = Cardinality(Q) /\ flat[i].total = ErrorsIn(es, Q)
      BY <3>2 DEF Counts
    <3>5. closed[i - 1] = [n |-> Cardinality(P), sum |-> ErrorsIn(es, P)]
      BY <3>1
    <3> HIDE DEF P, Q
    <3>6. Cardinality(P \union Q) = Cardinality(P) + Cardinality(Q)
          /\ ErrorsIn(es, P \union Q) = ErrorsIn(es, P) + ErrorsIn(es, Q)
      BY <3>2, <3>3, <3>4, DisjointCounts
    <3>7. closed[i] = [n |-> Cardinality(P \union Q), sum |-> ErrorsIn(es, P \union Q)]
      BY <3>3
    <3> HIDE DEF closed
    <3> QED BY <2>2, <3>4, <3>5, <3>6, <3>7
  <2> QED BY <2>1, <2>2
<1>4. Fits(closed)
  <2>1. closed = [i \in 0 .. n |-> closed[i]]
    OBVIOUS
  <2> DEFINE k == [i \in 0 .. n |-> next(closed, i)]
  <2>2. \A i \in 0 .. n : closed[i] = k[i]
    BY <1>3
  <2>3. closed = k
    <3> HIDE DEF next
    <3> QED BY <2>2
  <2> QED BY <2>3
<1>5. Fits(sums)
  <2> HIDE DEF Fits
  <2> QED BY <1>4
<1> DEFINE f == sums
<1>6. \A i \in 0 .. n : f[i] = next(f, i)
  <2> HIDE DEF next
  <2> QED BY <1>5
<1> HIDE DEF f, closed
<1> DEFINE T == {i \in 0 .. n : f[i] # closed[i]}
<1>7. T = {}
  <2> SUFFICES ASSUME T # {} PROVE FALSE
    OBVIOUS
  <2>1. PICK i \in T : \A y \in T : i <= y
    <3>1. T \subseteq Nat
      BY <1>1
    <3> HIDE DEF T
    <3> QED BY <3>1, LeastNatural
  <2>2. i \in 0 .. n /\ f[i] # closed[i]
    BY <2>1
  <2>3. i # 0 => i - 1 \in 0 .. n /\ i - 1 \notin T
    BY <1>1, <2>1, <2>2
  <2>4. next(f, i) = next(closed, i)
    BY <2>3
  <2> QED BY <1>3, <1>6, <2>2, <2>4
<1> QED BY <1>2, <1>7 DEF f, closed

-----------------------------------------------------------------------------
(* Rows whose buckets are exact and share no element                       *)

\* A bucket of row r holds RowSize[r] of the elements so far and counts them.
IsExact(es, r, b) == Counts(es, b) /\ b.of \subseteq 1 .. Len(es) /\ b.count = RowSize[r]
Meet(a, b) == a.of \intersect b.of # {}

\* Rows that are exact, in which no element is in two buckets.
Exact(es, rows) ==
  \A r \in 1 .. Len(rows) : \A i \in 1 .. Len(rows[r]) : IsExact(es, r, rows[r][i])
Apart(rows) ==
  \A r, q \in 1 .. Len(rows) : \A i \in 1 .. Len(rows[r]), j \in 1 .. Len(rows[q]) :
    r # q \/ i # j => ~Meet(rows[r][i], rows[q][j])
Good(es, rows) == rows \in AnyRows /\ rows # <<>> /\ Exact(es, rows) /\ Apart(rows)

\* The types of such rows.
LEMMA GoodTypes ==
  ASSUME NEW es, NEW rows, Good(es, rows)
  PROVE  /\ Len(rows) \in Nat \ {0}
         /\ \A r \in 1 .. Len(rows) : rows[r] \in Seq(AnyBucket) /\ Len(rows[r]) \in Nat
         /\ \A r \in 1 .. Len(rows) : \A i \in 1 .. Len(rows[r]) : rows[r][i] \in AnyBucket
<1>1. rows \in Seq(Seq(AnyBucket)) /\ rows # <<>>
  BY DEF Good, AnyRows
<1> QED BY <1>1

\* Two lists of buckets with nothing in common make one.
LEMMA ConcatIsFlat ==
  ASSUME NEW es, NEW t, NEW s, IsFlat(es, t), IsFlat(es, s),
         \A i \in 1 .. Len(t), j \in 1 .. Len(s) : ~Meet(t[i], s[j])
  PROVE  IsFlat(es, t \o s)
<1>1. t \in Seq(AnyBucket) /\ s \in Seq(AnyBucket) /\ Len(t) \in Nat /\ Len(s) \in Nat
  BY DEF IsFlat
<1>2. /\ \A i \in 1 .. Len(t) : Counts(es, t[i])
      /\ \A i \in 1 .. Len(s) : Counts(es, s[i])
      /\ \A i, j \in 1 .. Len(t) : i # j => ~Meet(t[i], t[j])
      /\ \A i, j \in 1 .. Len(s) : i # j => ~Meet(s[i], s[j])
  BY DEF IsFlat, Meet
<1> DEFINE u == t \o s
<1>3. /\ u \in Seq(AnyBucket) /\ Len(u) = Len(t) + Len(s)
      /\ \A i \in 1 .. Len(u) : u[i] = IF i <= Len(t) THEN t[i] ELSE s[i - Len(t)]
  BY <1>1, ConcatProperties
<1>4. \A a, b : Meet(a, b) <=> Meet(b, a)
  BY DEF Meet
<1> HIDE DEF u
<1>5. ASSUME NEW i \in 1 .. Len(u) PROVE Counts(es, u[i])
  <2>1. CASE i <= Len(t)
    BY <1>1, <1>2, <1>3, <2>1
  <2>2. CASE ~(i <= Len(t))
    <3>1. i - Len(t) \in 1 .. Len(s)
      BY <1>1, <1>3, <2>2
    <3> QED BY <1>2, <1>3, <2>2, <3>1
  <2> QED BY <2>1, <2>2
<1>6. ASSUME NEW i \in 1 .. Len(u), NEW j \in 1 .. Len(u), i # j PROVE ~Meet(u[i], u[j])
  <2>1. CASE i <= Len(t) /\ j <= Len(t)
    <3>1. i \in 1 .. Len(t) /\ j \in 1 .. Len(t)
      BY <1>1, <2>1
    <3> QED BY <1>2, <1>3, <1>6, <2>1, <3>1
  <2>2. CASE i <= Len(t) /\ ~(j <= Len(t))
    <3>1. i \in 1 .. Len(t) /\ j - Len(t) \in 1 .. Len(s)
      BY <1>1, <1>3, <2>2
    <3> QED BY <1>3, <2>2, <3>1
  <2>3. CASE ~(i <= Len(t)) /\ j <= Len(t)
    <3>1. j \in 1 .. Len(t) /\ i - Len(t) \in 1 .. Len(s)
      BY <1>1, <1>3, <2>3
    <3> QED BY <1>3, <1>4, <2>3, <3>1
  <2>4. CASE ~(i <= Len(t)) /\ ~(j <= Len(t))
    <3>1. i - Len(t) \in 1 .. Len(s) /\ j - Len(t) \in 1 .. Len(s) /\ i - Len(t) # j - Len(t)
      BY <1>1, <1>3, <1>6, <2>4
    <3> QED BY <1>2, <1>3, <2>4, <3>1
  <2> QED BY <2>1, <2>2, <2>3, <2>4
<1> QED BY <1>3, <1>5, <1>6 DEF IsFlat, Meet, u

\* A row is such a list.
LEMMA RowIsFlat ==
  ASSUME NEW es, NEW rows, Good(es, rows), NEW r \in 1 .. Len(rows)
  PROVE  IsFlat(es, rows[r])
<1>1. rows[r] \in Seq(AnyBucket)
  BY GoodTypes
<1>2. \A i \in 1 .. Len(rows[r]) : Counts(es, rows[r][i])
  BY DEF Good, Exact, IsExact
<1>3. \A i, j \in 1 .. Len(rows[r]) : i # j => ~Meet(rows[r][i], rows[r][j])
  BY DEF Good, Apart
<1> QED BY <1>1, <1>2, <1>3 DEF IsFlat, Meet

\* Every bucket of t is one of the first k rows.
From(t, rows, k) ==
  \A i \in 1 .. Len(t) : \E q \in 1 .. k : \E j \in 1 .. Len(rows[q]) : t[i] = rows[q][j]

\* All the buckets of good rows, in one list, count their elements and share none.
LEMMA FlatIsFlat ==
  ASSUME NEW es, NEW rows, Good(es, rows)
  PROVE  IsFlat(es, FlattenSeq(rows)) /\ FlattenSeq(rows) \in Seq(AnyBucket)
<1> DEFINE n == Len(rows)
<1>1. n \in Nat \ {0} /\ rows \in Seq(Seq(AnyBucket)) /\ rows # <<>>
  BY GoodTypes DEF Good, AnyRows
<1>2. PICK f : Flattens(f, rows, AnyBucket) /\ FlattenSeq(rows) = f[n]
  BY <1>1, FlattenIs
<1>3. f[1] = rows[1] /\ \A r \in 2 .. n : f[r] = f[r - 1] \o rows[r]
  BY <1>2 DEF Flattens
<1> DEFINE Fine(k) == IsFlat(es, f[k]) /\ From(f[k], rows, k)
           T == {k \in 1 .. n : ~Fine(k)}
<1>4. T = {}
  <2> SUFFICES ASSUME T # {} PROVE FALSE
    OBVIOUS
  <2>1. PICK k \in T : \A y \in T : k <= y
    <3>1. T \subseteq Nat
      BY <1>1
    <3> HIDE DEF T
    <3> QED BY <3>1, LeastNatural
  <2>2. k \in 1 .. n /\ ~Fine(k)
    BY <2>1
  <2>3. CASE k = 1
    <3>1. IsFlat(es, rows[1])
      BY <1>1, RowIsFlat
    <3>2. From(rows[1], rows, 1)
      BY DEF From
    <3> QED BY <1>3, <2>2, <2>3, <3>1, <3>2
  <2>4. CASE k # 1
    <3> DEFINE t == f[k - 1]
               s == rows[k]
    <3>1. k - 1 \in 1 .. n /\ k - 1 \notin T /\ k \in 2 .. n /\ k \in 1 .. Len(rows)
      BY <1>1, <2>1, <2>2, <2>4
    <3>2. IsFlat(es, t) /\ From(t, rows, k - 1) /\ IsFlat(es, s)
      BY <3>1, RowIsFlat
    <3>3. f[k] = t \o s
      BY <1>3, <3>1
    <3>4. ASSUME NEW i \in 1 .. Len(t), NEW j \in 1 .. Len(s) PROVE ~Meet(t[i], s[j])
      <4>1. PICK q \in 1 .. k - 1 : \E x \in 1 .. Len(rows[q]) : t[i] = rows[q][x]
        BY <3>2 DEF From
      <4>2. PICK x \in 1 .. Len(rows[q]) : t[i] = rows[q][x]
        BY <4>1
      <4>3. q \in 1 .. Len(rows) /\ q # k
        <5>1. n \in Nat /\ k \in 2 .. n /\ n = Len(rows)
          BY <1>1, <3>1
        <5> HIDE DEF T, t, s, n
        <5> QED BY <5>1
      <4>4. ~Meet(rows[q][x], rows[k][j])
        <5>1. Apart(rows)
          BY DEF Good
        <5>2. x \in 1 .. Len(rows[q]) /\ j \in 1 .. Len(rows[k])
          BY DEF s
        <5> HIDE DEF T, t, s
        <5> QED BY <3>1, <4>3, <5>1, <5>2 DEF Apart
      <4> QED BY <4>2, <4>4
    <3> HIDE DEF t
    <3>5. IsFlat(es, t \o s)
      <4> HIDE DEF s
      <4> QED BY <3>2, <3>4, ConcatIsFlat
    <3>6. From(t \o s, rows, k)
      <4>1. t \in Seq(AnyBucket) /\ s \in Seq(AnyBucket) /\ Len(t) \in Nat /\ Len(s) \in Nat
        BY <3>2 DEF IsFlat
      <4>2. /\ Len(t \o s) = Len(t) + Len(s)
            /\ \A i \in 1 .. Len(t) + Len(s) : (t \o s)[i] = IF i <= Len(t) THEN t[i] ELSE s[i - Len(t)]
        BY <4>1, ConcatProperties
      <4>3. ASSUME NEW i \in 1 .. Len(t) + Len(s)
            PROVE  \E q \in 1 .. k : \E j \in 1 .. Len(rows[q]) : (t \o s)[i] = rows[q][j]
        <5>1. CASE i <= Len(t)
          <6>1. i \in 1 .. Len(t)
            BY <4>1, <5>1
          <6>2. PICK q \in 1 .. k - 1 : \E x \in 1 .. Len(rows[q]) : t[i] = rows[q][x]
            BY <3>2, <6>1 DEF From
          <6>3. q \in 1 .. k
            BY <3>1
          <6> QED BY <4>2, <5>1, <6>2, <6>3
        <5>2. CASE ~(i <= Len(t))
          <6>1. i - Len(t) \in 1 .. Len(s) /\ k \in 1 .. k
            BY <3>1, <4>1, <5>2
          <6>2. (t \o s)[i] = rows[k][i - Len(t)]
            BY <4>2, <5>2
          <6> QED BY <6>1, <6>2
        <5> QED BY <5>1, <5>2
      <4> QED BY <4>2, <4>3 DEF From
    <3> QED BY <2>2, <3>3, <3>5, <3>6
  <2> QED BY <2>3, <2>4
<1>5. n \in 1 .. n /\ n \notin T
  BY <1>1, <1>4
<1>6. IsFlat(es, f[n])
  BY <1>5
<1> QED BY <1>2, <1>6 DEF IsFlat

-----------------------------------------------------------------------------
(* What the detector does to its rows                                      *)

\* The bucket i of row r in the result is either the new one or an old one.
Slot(new, rows, r, b, q, i, last) ==
  \/ q = r /\ i = last /\ new[q][i] = b
  \/ /\ q \in 1 .. Len(rows) /\ i \in 1 .. Len(rows[q])
     /\ new[q][i] = rows[q][i] /\ ~(q = r /\ i = last)

\* Where the buckets are after one was appended.
LEMMA AppendToSlots ==
  ASSUME NEW rows \in AnyRows, NEW r \in 1 .. Len(rows) + 1, NEW b \in AnyBucket
  PROVE  LET new == AppendTo(rows, r, b)
         IN  /\ Len(new) = IF r > Len(rows) THEN r ELSE Len(rows)
             /\ \A q \in 1 .. Len(new) :
                  Len(new[q]) = IF q > Len(rows) THEN 1
                                ELSE IF q = r THEN Len(rows[q]) + 1 ELSE Len(rows[q])
             /\ \A q \in 1 .. Len(new) : \A i \in 1 .. Len(new[q]) :
                  Slot(new, rows, r, b, q, i, IF r > Len(rows) THEN 1 ELSE Len(rows[r]) + 1)
<1> DEFINE new == AppendTo(rows, r, b)
           n == Len(rows)
           S == Seq(AnyBucket)
<1>1. n \in Nat /\ rows \in Seq(S) /\ \A q \in 1 .. n : rows[q] \in S /\ Len(rows[q]) \in Nat
  BY DEF AnyRows
<1>2. CASE r > n
  <2>1. new = Append(rows, <<b>>) /\ r = n + 1
    BY <1>1, <1>2 DEF AppendTo
  <2>2. <<b>> \in S /\ Len(<<b>>) = 1 /\ <<b>>[1] = b
    OBVIOUS
  <2> DEFINE row == <<b>>
  <2> HIDE DEF S, new, row
  <2>3. Len(new) = r /\ new[r] = row /\ \A q \in 1 .. n : new[q] = rows[q]
    BY <1>1, <2>1, <2>2 DEF row
  <2>4. ASSUME NEW q \in 1 .. Len(new)
        PROVE  /\ Len(new[q]) = IF q > n THEN 1 ELSE Len(rows[q])
               /\ \A i \in 1 .. Len(new[q]) : Slot(new, rows, r, b, q, i, 1)
    <3>1. CASE q = r
      BY <1>1, <2>1, <2>2, <2>3, <3>1 DEF Slot, row
    <3>2. CASE q # r
      <4>1. q \in 1 .. n
        BY <1>1, <2>1, <2>3, <3>2
      <4> QED BY <1>1, <2>1, <2>3, <3>2, <4>1 DEF Slot
    <3> QED BY <3>1, <3>2
  <2>5. \A q \in 1 .. Len(new) : q = r => q > n
    BY <1>2
  <2> QED BY <1>2, <2>3, <2>4, <2>5 DEF new
<1>3. CASE ~(r > n)
  <2> DEFINE row == Append(rows[r], b)
  <2>1. new = [rows EXCEPT ![r] = row] /\ r \in 1 .. n
    BY <1>1, <1>3 DEF AppendTo
  <2>2. /\ Len(row) = Len(rows[r]) + 1 /\ row[Len(rows[r]) + 1] = b
        /\ \A i \in 1 .. Len(rows[r]) : row[i] = rows[r][i]
    BY <1>1, <2>1
  <2> HIDE DEF S, new, row
  <2>3. Len(new) = n /\ new[r] = row /\ \A q \in 1 .. n : q # r => new[q] = rows[q]
    BY <1>1, <2>1
  <2>4. ASSUME NEW q \in 1 .. Len(new)
        PROVE  /\ Len(new[q]) = IF q = r THEN Len(rows[q]) + 1 ELSE Len(rows[q])
               /\ \A i \in 1 .. Len(new[q]) : Slot(new, rows, r, b, q, i, Len(rows[r]) + 1)
    <3>1. CASE q = r
      <4>1. ASSUME NEW i \in 1 .. Len(rows[r]) + 1 PROVE Slot(new, rows, r, b, q, i, Len(rows[r]) + 1)
        <5>1. CASE i = Len(rows[r]) + 1
          BY <2>2, <2>3, <3>1, <5>1 DEF Slot
        <5>2. CASE i # Len(rows[r]) + 1
          <6>1. i \in 1 .. Len(rows[r])
            BY <1>1, <2>1, <5>2
          <6> QED BY <2>1, <2>2, <2>3, <3>1, <5>2, <6>1 DEF Slot
        <5> QED BY <5>1, <5>2
      <4> QED BY <2>2, <2>3, <3>1, <4>1
    <3>2. CASE q # r
      BY <2>3, <3>2 DEF Slot
    <3> QED BY <3>1, <3>2
  <2>5. \A q \in 1 .. Len(new) : ~(q > n)
    BY <1>1, <2>3
  <2> QED BY <1>3, <2>3, <2>4, <2>5 DEF new
<1> QED BY <1>2, <1>3

\* An exact bucket with new elements may be appended.
LEMMA AppendToIsGood ==
  ASSUME NEW es, NEW rows, Good(es, rows), NEW r \in 1 .. Len(rows) + 1, NEW b \in AnyBucket,
         IsExact(es, r, b),
         \A q \in 1 .. Len(rows) : \A i \in 1 .. Len(rows[q]) : ~Meet(rows[q][i], b)
  PROVE  Good(es, AppendTo(rows, r, b))
<1> DEFINE new == AppendTo(rows, r, b)
           last == IF r > Len(rows) THEN 1 ELSE Len(rows[r]) + 1
<1>1. rows \in AnyRows /\ Len(rows) \in Nat \ {0}
  BY GoodTypes DEF Good
<1>2. new \in AnyRows
  <2>1. r \in Nat \ {0}
    BY <1>1
  <2> QED BY <1>1, <2>1, AppendToType
<1>3. /\ Len(new) = IF r > Len(rows) THEN r ELSE Len(rows)
      /\ \A q \in 1 .. Len(new) : \A i \in 1 .. Len(new[q]) : Slot(new, rows, r, b, q, i, last)
  BY <1>1, AppendToSlots
<1>4. \A x, y : Meet(x, y) <=> Meet(y, x)
  BY DEF Meet
<1>5. Exact(es, rows) /\ Apart(rows)
  BY DEF Good
<1> HIDE DEF new, last
<1>6. new # <<>>
  BY <1>1, <1>2, <1>3
<1>7. Exact(es, new)
  <2> SUFFICES ASSUME NEW q \in 1 .. Len(new), NEW i \in 1 .. Len(new[q])
               PROVE  IsExact(es, q, new[q][i])
    BY DEF Exact
  <2>1. Slot(new, rows, r, b, q, i, last)
    BY <1>3
  <2> QED BY <1>5, <2>1 DEF Slot, Exact
<1>8. Apart(new)
  <2> SUFFICES ASSUME NEW q \in 1 .. Len(new), NEW p \in 1 .. Len(new),
                      NEW i \in 1 .. Len(new[q]), NEW j \in 1 .. Len(new[p]), q # p \/ i # j
               PROVE  ~Meet(new[q][i], new[p][j])
    BY DEF Apart
  <2>1. Slot(new, rows, r, b, q, i, last) /\ Slot(new, rows, r, b, p, j, last)
    BY <1>3
  <2> QED BY <1>4, <1>5, <2>1 DEF Slot, Apart
<1> QED BY <1>2, <1>6, <1>7, <1>8 DEF Good, new

\* Every row of less is what is left of that row without its first buckets.
Shortened(less, rows, skipped) ==
  /\ less \in AnyRows /\ Len(less) = Len(rows)
  /\ \A q \in 1 .. Len(less) : skipped[q] \in Nat
  /\ \A q \in 1 .. Len(less) : \A i \in 1 .. Len(less[q]) :
       i + skipped[q] \in 1 .. Len(rows[q]) /\ less[q][i] = rows[q][i + skipped[q]]

\* Rows stay good when each loses its oldest buckets.
LEMMA ShortenedIsGood ==
  ASSUME NEW es, NEW rows, Good(es, rows), NEW less, NEW skipped, Shortened(less, rows, skipped)
  PROVE  Good(es, less)
<1>1. less \in AnyRows /\ Len(less) = Len(rows) /\ Len(rows) \in Nat \ {0}
  BY GoodTypes DEF Shortened
<1>2. /\ \A q \in 1 .. Len(less) : skipped[q] \in Nat
      /\ \A q \in 1 .. Len(less) : \A i \in 1 .. Len(less[q]) :
           i + skipped[q] \in 1 .. Len(rows[q]) /\ less[q][i] = rows[q][i + skipped[q]]
  BY DEF Shortened
<1>3. Exact(es, rows) /\ Apart(rows)
  BY DEF Good
<1>4. Exact(es, less)
  BY <1>1, <1>2, <1>3 DEF Exact
<1>5. Apart(less)
  <2> SUFFICES ASSUME NEW q \in 1 .. Len(less), NEW p \in 1 .. Len(less),
                      NEW i \in 1 .. Len(less[q]), NEW j \in 1 .. Len(less[p]), q # p \/ i # j
               PROVE  ~Meet(less[q][i], less[p][j])
    BY DEF Apart
  <2>1. q # p \/ i + skipped[q] # j + skipped[p]
    <3>1. CASE q # p
      BY <3>1
    <3>2. CASE q = p
      <4>1. skipped[q] \in Nat /\ i # j /\ i \in Int /\ j \in Int
        BY <1>2, <3>2
      <4> QED BY <3>2, <4>1
    <3> QED BY <3>1, <3>2
  <2> DEFINE x == i + skipped[q]
             y == j + skipped[p]
  <2>2. /\ q \in 1 .. Len(rows) /\ p \in 1 .. Len(rows)
        /\ x \in 1 .. Len(rows[q]) /\ y \in 1 .. Len(rows[p]) /\ (q # p \/ x # y)
        /\ less[q][i] = rows[q][x] /\ less[p][j] = rows[p][y]
    BY <1>1, <1>2, <2>1
  <2> HIDE DEF x, y
  <2>3. ~Meet(rows[q][x], rows[p][y])
    BY <1>3, <2>2 DEF Apart
  <2> QED BY <2>2, <2>3
<1>6. less # <<>>
  BY <1>1
<1> QED BY <1>1, <1>4, <1>5, <1>6 DEF Good

\* Only row r may be one bucket too long.
Bounded(rows, r) ==
  \A q \in 1 .. Len(rows) : Len(rows[q]) <= IF q = r THEN MaxBuckets + 1 ELSE MaxBuckets
\* No row is too long.
AllBounded(rows) == \A q \in 1 .. Len(rows) : Len(rows[q]) <= MaxBuckets

\* Two exact buckets of a row make one of the next.
LEMMA MergedIsExact ==
  ASSUME NEW es, NEW r \in Nat \ {0}, NEW x \in AnyBucket, NEW y \in AnyBucket,
         IsExact(es, r, x), IsExact(es, r, y), ~Meet(x, y)
  PROVE  IsExact(es, r + 1, Merged(x, y)) /\ Merged(x, y) \in AnyBucket
<1> DEFINE P == x.of
           Q == y.of
<1>1. /\ IsFiniteSet(P) /\ IsFiniteSet(Q) /\ P \intersect Q = {}
      /\ x.count = Cardinality(P) /\ y.count = Cardinality(Q)
      /\ x.total = ErrorsIn(es, P) /\ y.total = ErrorsIn(es, Q)
      /\ P \subseteq Nat /\ Q \subseteq Nat /\ P \subseteq 1 .. Len(es) /\ Q \subseteq 1 .. Len(es)
      /\ x.count = RowSize[r] /\ y.count = RowSize[r]
  BY DEF IsExact, Counts, Meet
<1>2. Merged(x, y) = [count |-> x.count + y.count, total |-> x.total + y.total, of |-> P \union Q]
  BY DEF Merged
<1>3. x.count \in Nat /\ y.count \in Nat /\ x.total \in Nat /\ y.total \in Nat
  BY DEF AnyBucket
<1> HIDE DEF P, Q
<1>4. /\ IsFiniteSet(P \union Q)
      /\ Cardinality(P \union Q) = x.count + y.count
      /\ ErrorsIn(es, P \union Q) = x.total + y.total
  <2>1. /\ IsFiniteSet(P \union Q)
        /\ Cardinality(P \union Q) = Cardinality(P) + Cardinality(Q)
        /\ ErrorsIn(es, P \union Q) = ErrorsIn(es, P) + ErrorsIn(es, Q)
    <3>1. IsFiniteSet(P) /\ IsFiniteSet(Q) /\ P \intersect Q = {}
      BY <1>1
    <3> QED BY ONLY <3>1, DisjointCounts
  <2> QED BY <1>1, <2>1
<1>5. x.count + y.count = RowSize[r + 1]
  <2> DEFINE c == RowSize[r]
  <2>1. c \in Nat /\ RowSize[r + 1] = 2 * c
    BY RowSizes
  <2>2. x.count = c /\ y.count = c
    BY <1>1
  <2> HIDE DEF c
  <2> QED BY <2>1, <2>2
<1> DEFINE z == Merged(x, y)
<1>6. /\ z.count = x.count + y.count /\ z.total = x.total + y.total /\ z.of = P \union Q
      /\ P \union Q \subseteq Nat /\ P \union Q \subseteq 1 .. Len(es)
  BY <1>1, <1>2
<1>7. z \in AnyBucket
  BY <1>2, <1>3, <1>6 DEF AnyBucket
<1> HIDE DEF z
<1>8. IsExact(es, r + 1, z)
  BY <1>4, <1>5, <1>6 DEF IsExact, Counts
<1> QED BY <1>7, <1>8 DEF z

\* A step of the compression mends row r; only the next one may now be too long.
\* The last row, once mended, leaves its merged bucket in a row of its own.
LEMMA CompressedStep ==
  ASSUME NEW es, NEW rows, Good(es, rows), NEW r \in 1 .. Len(rows), Bounded(rows, r)
  PROVE  LET new == Compressed(rows, r)
         IN  /\ Good(es, new) /\ Bounded(new, r + 1)
             /\ r < Len(rows) => Len(new) = Len(rows)
             /\ r = Len(rows) => AllBounded(new)
<1>1. /\ Len(rows) \in Nat \ {0} /\ MaxBuckets \in Nat \ {0} /\ rows \in AnyRows
      /\ \A q \in 1 .. Len(rows) : rows[q] \in Seq(AnyBucket) /\ Len(rows[q]) \in Nat
      /\ \A q \in 1 .. Len(rows) : \A i \in 1 .. Len(rows[q]) : rows[q][i] \in AnyBucket
  BY GoodTypes, BoundAssumption DEF Good
<1>2. CASE Len(rows[r]) <= MaxBuckets
  <2>1. Compressed(rows, r) = rows
    BY <1>2 DEF Compressed
  <2>2. AllBounded(rows)
    BY <1>1, <1>2 DEF Bounded, AllBounded
  <2>3. Bounded(rows, r + 1)
    BY <1>1, <2>2 DEF Bounded, AllBounded
  <2> QED BY <2>1, <2>2, <2>3
<1>3. CASE ~(Len(rows[r]) <= MaxBuckets)
  <2> DEFINE row == rows[r]
             left == SubSeq(row, 3, Len(row))
             less == [rows EXCEPT ![r] = SubSeq(@, 3, Len(@))]
             x == row[1]
             y == row[2]
             b == Merged(x, y)
             skipped == [q \in 1 .. Len(rows) |-> IF q = r THEN 2 ELSE 0]
             new == AppendTo(less, r + 1, b)
  <2>1. row \in Seq(AnyBucket) /\ Len(row) = MaxBuckets + 1 /\ Len(row) >= 2
        /\ 1 \in 1 .. Len(row) /\ 2 \in 1 .. Len(row)
    BY <1>1, <1>3 DEF Bounded
  <2>2. /\ left \in Seq(AnyBucket) /\ Len(left) = Len(row) - 2
        /\ \A i \in 1 .. Len(left) : left[i] = row[i + 2] /\ i + 2 \in 1 .. Len(row)
    BY <2>1
  <2>3. Compressed(rows, r) = new
    BY <1>1, <1>3 DEF Compressed
  <2>4. less = [rows EXCEPT ![r] = left]
    OBVIOUS
  <2> HIDE DEF left, less
  <2>5. /\ less \in AnyRows /\ Len(less) = Len(rows) /\ less[r] = left
        /\ \A q \in 1 .. Len(rows) : q # r => less[q] = rows[q]
    <3> DEFINE S == Seq(AnyBucket)
    <3> HIDE DEF S
    <3>1. rows \in Seq(S) /\ left \in S
      BY <1>1, <2>2 DEF AnyRows, S
    <3>2. less \in Seq(S) /\ Len(less) = Len(rows) /\ less[r] = left
          /\ \A q \in 1 .. Len(rows) : q # r => less[q] = rows[q]
      BY <2>4, <3>1
    <3> QED BY <3>2 DEF AnyRows, S
  <2>6. Shortened(less, rows, skipped)
    <3>1. \A q \in 1 .. Len(less) : skipped[q] \in Nat
      BY <2>5
    <3>2. ASSUME NEW q \in 1 .. Len(less), NEW i \in 1 .. Len(less[q])
          PROVE  i + skipped[q] \in 1 .. Len(rows[q]) /\ less[q][i] = rows[q][i + skipped[q]]
      <4>1. CASE q = r
        <5>1. skipped[q] = 2 /\ less[q] = left
          BY <2>5, <4>1
        <5> QED BY <2>2, <4>1, <5>1
      <4>2. CASE q # r
        <5>1. skipped[q] = 0 /\ less[q] = rows[q] /\ i + 0 = i /\ q \in 1 .. Len(rows)
          BY <1>1, <2>5, <4>2
        <5> QED BY <5>1
      <4> QED BY <4>1, <4>2
    <3> HIDE DEF skipped
    <3> QED BY <2>5, <3>1, <3>2 DEF Shortened
  <2>7. Good(es, less)
    <3> HIDE DEF skipped
    <3> QED BY <2>6, ShortenedIsGood
  <2>8. ~Meet(x, y) /\ IsExact(es, r, x) /\ IsExact(es, r, y) /\ x \in AnyBucket /\ y \in AnyBucket
    BY <1>1, <2>1 DEF Good, Apart, Exact
  <2>9. IsExact(es, r + 1, b) /\ b \in AnyBucket
    <3>1. r \in Nat \ {0}
      BY <1>1
    <3> HIDE DEF x, y
    <3> QED BY <2>8, <3>1, MergedIsExact
  <2>10. ASSUME NEW q \in 1 .. Len(less), NEW i \in 1 .. Len(less[q]) PROVE ~Meet(less[q][i], b)
    <3>1. PICK j \in 1 .. Len(rows[q]) :
            /\ less[q][i] = rows[q][j] /\ (q # r \/ (j # 1 /\ j # 2)) /\ q \in 1 .. Len(rows)
      <4>1. CASE q = r
        <5>1. less[q] = left
          BY <2>5, <4>1
        <5>2. i + 2 \in 1 .. Len(rows[q]) /\ less[q][i] = rows[q][i + 2] /\ i + 2 # 1 /\ i + 2 # 2
          BY <2>2, <4>1, <5>1
        <5> QED BY <2>5, <5>2
      <4>2. CASE q # r
        BY <2>5, <4>2
      <4> QED BY <4>1, <4>2
    <3>2. ~Meet(rows[q][j], x) /\ ~Meet(rows[q][j], y)
      BY <2>1, <3>1 DEF Good, Apart
    <3>3. b.of = x.of \union y.of
      BY DEF Merged
    <3> QED BY <3>1, <3>2, <3>3 DEF Meet
  <2> HIDE DEF b
  <2>11. Good(es, new)
    <3>1. r + 1 \in 1 .. Len(less) + 1
      BY <1>1, <2>5
    <3> QED BY <2>7, <2>9, <2>10, <3>1, AppendToIsGood
  <2>12. /\ Len(new) = IF r + 1 > Len(less) THEN r + 1 ELSE Len(less)
         /\ \A q \in 1 .. Len(new) :
              Len(new[q]) = IF q > Len(less) THEN 1
                            ELSE IF q = r + 1 THEN Len(less[q]) + 1 ELSE Len(less[q])
    <3>1. r + 1 \in 1 .. Len(less) + 1
      BY <1>1, <2>5
    <3> QED BY <2>5, <2>9, <3>1, AppendToSlots
  <2>13. \A q \in 1 .. Len(rows) : Len(less[q]) \in Nat /\ Len(less[q]) <= MaxBuckets
    <3> TAKE q \in 1 .. Len(rows)
    <3>1. CASE q = r
      BY <1>1, <2>1, <2>2, <2>5, <3>1
    <3>2. CASE q # r
      BY <1>1, <2>5, <3>2 DEF Bounded
    <3> QED BY <3>1, <3>2
  <2> HIDE DEF new
  <2>14. Bounded(new, r + 1)
    <3> SUFFICES ASSUME NEW q \in 1 .. Len(new)
                 PROVE  Len(new[q]) <= IF q = r + 1 THEN MaxBuckets + 1 ELSE MaxBuckets
      BY DEF Bounded
    <3>1. CASE q > Len(less)
      <4>1. Len(new[q]) = 1
        BY <2>12, <3>1
      <4> QED BY <1>1, <4>1
    <3>2. CASE ~(q > Len(less))
      <4>1. q \in 1 .. Len(rows) /\ Len(less[q]) \in Nat /\ Len(less[q]) <= MaxBuckets
        BY <1>1, <2>5, <2>13, <3>2
      <4>2. Len(new[q]) = IF q = r + 1 THEN Len(less[q]) + 1 ELSE Len(less[q])
        BY <2>12, <3>2
      <4> QED BY <1>1, <4>1, <4>2
    <3> QED BY <3>1, <3>2
  <2>15. r < Len(rows) => Len(new) = Len(rows)
    BY <1>1, <2>5, <2>12
  <2>16. ASSUME r = Len(rows) PROVE AllBounded(new)
    <3> SUFFICES ASSUME NEW q \in 1 .. Len(new) PROVE Len(new[q]) <= MaxBuckets
      BY DEF AllBounded
    <3>1. CASE q > Len(less)
      <4>1. Len(new[q]) = 1
        BY <2>12, <3>1
      <4> QED BY <1>1, <4>1
    <3>2. CASE ~(q > Len(less))
      <4>1. q \in 1 .. Len(rows) /\ q # r + 1 /\ Len(less[q]) <= MaxBuckets
        BY <1>1, <2>5, <2>13, <2>16, <3>2
      <4>2. Len(new[q]) = Len(less[q])
        BY <2>12, <3>2, <4>1
      <4> QED BY <4>1, <4>2
    <3> QED BY <3>1, <3>2
  <2> QED BY <2>3, <2>11, <2>14, <2>15, <2>16
<1> QED BY <1>2, <1>3

\* One more element of the stream leaves the buckets as exact as they were.
LEMMA GoodGrows ==
  ASSUME NEW es \in Seq({0, 1}), NEW e \in {0, 1}, NEW rows, Good(es, rows)
  PROVE  Good(Append(es, e), rows)
<1> DEFINE more == Append(es, e)
<1>1. Len(es) \in Nat /\ Len(more) = Len(es) + 1 /\ \A i \in 1 .. Len(es) : more[i] = es[i]
  OBVIOUS
<1> HIDE DEF more
<1>2. ASSUME NEW r, NEW b, IsExact(es, r, b) PROVE IsExact(more, r, b)
  <2>1. b.of \subseteq 1 .. Len(es)
    BY <1>2 DEF IsExact
  <2>2. {i \in b.of : more[i] = 1} = {i \in b.of : es[i] = 1}
    BY <1>1, <2>1
  <2>3. ErrorsIn(more, b.of) = ErrorsIn(es, b.of)
    BY <2>2 DEF ErrorsIn
  <2>4. b.of \subseteq 1 .. Len(more)
    BY <1>1, <2>1
  <2> QED BY <1>2, <2>3, <2>4 DEF IsExact, Counts
<1>3. Exact(es, rows)
  BY DEF Good
<1>4. Exact(more, rows)
  BY <1>2, <1>3 DEF Exact
<1> QED BY <1>4 DEF Good, more

\* Inserting an element keeps the rows good and, after the whole pass, bounded.
LEMMA InsertedIsGood ==
  ASSUME NEW es \in Seq({0, 1}), NEW e \in {0, 1}, NEW rows, Good(es, rows), AllBounded(rows)
  PROVE  LET new == Inserted(rows, e, Len(es) + 1)
         IN  Good(Append(es, e), new) /\ AllBounded(new)
<1> DEFINE more == Append(es, e)
           i == Len(es) + 1
           bucket == [count |-> 1, total |-> e, of |-> {i}]
           n == Len(rows)
<1>1. /\ rows \in AnyRows /\ n \in Nat \ {0} /\ MaxBuckets \in Nat \ {0}
      /\ \A q \in 1 .. n : Len(rows[q]) \in Nat
      /\ e \in Nat /\ i \in Nat
  BY GoodTypes, BoundAssumption DEF Good
<1>2. Len(es) \in Nat /\ Len(more) = i /\ more[i] = e
  OBVIOUS
<1>3. Good(more, rows)
  BY GoodGrows
<1>4. bucket \in AnyBucket
  BY <1>1 DEF AnyBucket
<1> HIDE DEF more
<1>5. IsExact(more, 1, bucket)
  <2>1. Cardinality({i}) = 1 /\ IsFiniteSet({i}) /\ Cardinality({}) = 0
    BY FS_Singleton, FS_EmptySet
  <2>2. ErrorsIn(more, {i}) = e
    <3>1. CASE e = 1
      <4>1. {x \in {i} : more[x] = 1} = {i}
        BY <1>2, <3>1
      <4> QED BY <2>1, <3>1, <4>1 DEF ErrorsIn
    <3>2. CASE e = 0
      <4>1. {x \in {i} : more[x] = 1} = {}
        BY <1>2, <3>2
      <4> QED BY <2>1, <3>2, <4>1 DEF ErrorsIn
    <3> QED BY <3>1, <3>2
  <2>3. {i} \subseteq Nat /\ {i} \subseteq 1 .. Len(more)
    BY <1>1, <1>2
  <2>4. RowSize[1] = 1
    BY RowSizes
  <2>5. bucket.of = {i} /\ bucket.count = 1 /\ bucket.total = e
    OBVIOUS
  <2> HIDE DEF bucket
  <2> QED BY <2>1, <2>2, <2>3, <2>4, <2>5 DEF IsExact, Counts
<1>6. ASSUME NEW q \in 1 .. n, NEW j \in 1 .. Len(rows[q]) PROVE ~Meet(rows[q][j], bucket)
  <2>1. rows[q][j].of \subseteq 1 .. Len(es)
    BY DEF Good, Exact, IsExact
  <2>2. i \notin 1 .. Len(es)
    BY <1>2
  <2>3. bucket.of = {i}
    OBVIOUS
  <2> QED BY <2>1, <2>2, <2>3 DEF Meet
<1>7. PICK c : Compresses(c, rows, bucket) /\ Inserted(rows, e, i) = c[n]
  BY <1>1, InsertedIs
<1>8. c[0] = AppendTo(rows, 1, bucket) /\ \A r \in 1 .. n : c[r] = Compressed(c[r - 1], r)
  BY <1>7 DEF Compresses
<1> HIDE DEF bucket, n, i
<1> DEFINE Fine(r) == /\ Good(more, c[r]) /\ Bounded(c[r], r + 1)
                      /\ r < n => Len(c[r]) = n
                      /\ r = n => AllBounded(c[r])
           T == {r \in 0 .. n : ~Fine(r)}
<1>9. T = {}
  <2> SUFFICES ASSUME T # {} PROVE FALSE
    OBVIOUS
  <2>1. PICK r \in T : \A y \in T : r <= y
    <3>1. T \subseteq Nat
      BY <1>1
    <3> HIDE DEF T
    <3> QED BY <3>1, LeastNatural
  <2>2. r \in 0 .. n /\ ~Fine(r)
    BY <2>1
  <2>3. CASE r = 0
    <3> DEFINE new == AppendTo(rows, 1, bucket)
    <3>1. 1 \in 1 .. Len(rows) + 1 /\ ~(1 > Len(rows))
      BY <1>1 DEF n
    <3>2. Good(more, new)
      BY <1>3, <1>4, <1>5, <1>6, <3>1, AppendToIsGood DEF n
    <3>3. /\ Len(new) = IF 1 > Len(rows) THEN 1 ELSE Len(rows)
          /\ \A q \in 1 .. Len(new) :
               Len(new[q]) = IF q > Len(rows) THEN 1
                             ELSE IF q = 1 THEN Len(rows[q]) + 1 ELSE Len(rows[q])
      BY <1>1, <1>4, <3>1, AppendToSlots
    <3> HIDE DEF new
    <3>4. Len(new) = n
      BY <3>1, <3>3 DEF n
    <3>5. Bounded(new, 1)
      <4> SUFFICES ASSUME NEW q \in 1 .. Len(new)
                   PROVE  Len(new[q]) <= IF q = 1 THEN MaxBuckets + 1 ELSE MaxBuckets
        BY DEF Bounded
      <4>1. q \in 1 .. n /\ ~(q > Len(rows))
        BY <1>1, <3>4 DEF n
      <4>2. Len(rows[q]) \in Nat /\ Len(rows[q]) <= MaxBuckets
        BY <1>1, <4>1 DEF AllBounded, n
      <4>3. Len(new[q]) = IF q = 1 THEN Len(rows[q]) + 1 ELSE Len(rows[q])
        BY <3>3, <4>1
      <4> QED BY <1>1, <4>2, <4>3
    <3>6. c[0] = new /\ 0 # n /\ 0 + 1 = 1
      BY <1>1, <1>8 DEF new
    <3> QED BY <2>2, <2>3, <3>2, <3>4, <3>5, <3>6
  <2>4. CASE r # 0
    <3>1. r - 1 \in 0 .. n /\ r - 1 \notin T /\ r \in 1 .. n /\ r - 1 < n /\ (r - 1) + 1 = r
      BY <1>1, <2>1, <2>2, <2>4
    <3> DEFINE old == c[r - 1]
    <3>2. Good(more, old) /\ Bounded(old, r) /\ Len(old) = n
      BY <3>1
    <3>3. c[r] = Compressed(old, r)
      BY <1>8, <3>1
    <3> HIDE DEF old
    <3> DEFINE new == Compressed(old, r)
    <3>4. /\ Good(more, new) /\ Bounded(new, r + 1)
          /\ r < Len(old) => Len(new) = Len(old)
          /\ r = Len(old) => AllBounded(new)
      BY <3>1, <3>2, CompressedStep
    <3> HIDE DEF new
    <3>5. c[r] = new
      BY <3>3 DEF new
    <3> QED BY <2>2, <3>2, <3>4, <3>5
  <2> QED BY <2>3, <2>4
<1>10. n \in 0 .. n /\ n \notin T
  BY <1>1, <1>9
<1>11. Good(more, c[n]) /\ AllBounded(c[n])
  BY <1>10
<1> QED BY <1>7, <1>11 DEF more, i

\* A prefix of no rows is flat as it is.
LEMMA FlattenNone == FlattenSeq(<<>>) = <<>>
BY DEF FlattenSeq

\* The rows before r hold a number of buckets.
LEMMA FlatPrefix ==
  ASSUME NEW rows \in AnyRows, NEW r \in 1 .. Len(rows)
  PROVE  Len(FlattenSeq(SubSeq(rows, 1, r - 1))) \in Nat
<1> DEFINE S == Seq(AnyBucket)
           part == SubSeq(rows, 1, r - 1)
<1>1. rows \in Seq(S) /\ Len(rows) \in Nat
  BY DEF AnyRows
<1> HIDE DEF S
<1>2. part \in Seq(S) /\ Len(part) = r - 1
  BY <1>1
<1> HIDE DEF part
<1>3. CASE r = 1
  <2>1. part = <<>>
    BY <1>1, <1>2, <1>3
  <2>2. FlattenSeq(part) = <<>>
    BY <2>1, FlattenNone
  <2>3. Len(FlattenSeq(part)) = 0
    BY <2>2
  <2> QED BY <2>3 DEF part
<1>4. CASE r # 1
  <2>1. part # <<>> /\ Len(part) \in Nat \ {0}
    BY <1>1, <1>2, <1>4
  <2>2. PICK f : Flattens(f, part, AnyBucket) /\ FlattenSeq(part) = f[Len(part)]
    BY <1>2, <2>1, FlattenIs DEF S
  <2>3. f \in [1 .. Len(part) -> Seq(AnyBucket)]
    BY <2>2 DEF Flattens
  <2>4. FlattenSeq(part) \in Seq(AnyBucket)
    BY <2>1, <2>2, <2>3
  <2> QED BY <2>4 DEF part
<1> QED BY <1>3, <1>4

\* Dropping the oldest buckets keeps the rows good and bounded.
LEMMA DroppedIsGood ==
  ASSUME NEW es, NEW rows, Good(es, rows), AllBounded(rows), NEW n \in Nat
  PROVE  Good(es, Dropped(rows, n)) /\ AllBounded(Dropped(rows, n))
<1> DEFINE before(r) == Len(FlattenSeq(SubSeq(rows, 1, r - 1)))
           start(r) == IF n > before(r) THEN n - before(r) + 1 ELSE 1
           skipped == [r \in 1 .. Len(rows) |-> start(r) - 1]
           less == Dropped(rows, n)
<1>1. /\ rows \in AnyRows /\ Len(rows) \in Nat \ {0} /\ DOMAIN rows = 1 .. Len(rows)
      /\ MaxBuckets \in Nat \ {0}
      /\ \A r \in 1 .. Len(rows) : rows[r] \in Seq(AnyBucket) /\ Len(rows[r]) \in Nat
  BY GoodTypes, BoundAssumption DEF Good, AnyRows
<1>2. less = [r \in 1 .. Len(rows) |-> SubSeq(rows[r], start(r), Len(rows[r]))]
  BY <1>1 DEF Dropped
<1>3. ASSUME NEW r \in 1 .. Len(rows) PROVE start(r) \in Nat \ {0} /\ start(r) - 1 \in Nat
  <2>1. before(r) \in Nat
    BY <1>1, FlatPrefix
  <2> HIDE DEF before
  <2> QED BY <2>1
<1> HIDE DEF less, start
<1>4. ASSUME NEW r \in 1 .. Len(rows)
      PROVE  /\ less[r] \in Seq(AnyBucket) /\ Len(less[r]) \in Nat /\ Len(less[r]) <= Len(rows[r])
             /\ \A i \in 1 .. Len(less[r]) :
                  i + skipped[r] \in 1 .. Len(rows[r]) /\ less[r][i] = rows[r][i + skipped[r]]
  <2> DEFINE row == rows[r]
             s == start(r)
             t == SubSeq(row, s, Len(row))
  <2>1. row \in Seq(AnyBucket) /\ Len(row) \in Nat /\ s \in Nat \ {0}
    BY <1>1, <1>3
  <2>2. less[r] = t /\ skipped[r] = s - 1
    BY <1>2
  <2> HIDE DEF row, s
  <2>3. /\ t \in Seq(AnyBucket) /\ Len(t) = IF s <= Len(row) THEN Len(row) - s + 1 ELSE 0
        /\ \A i \in 1 .. Len(row) - s + 1 : t[i] = row[s + i - 1]
    BY <2>1, SubSeqProperties
  <2> HIDE DEF t
  <2>4. Len(t) \in Nat /\ Len(t) <= Len(row)
    BY <2>1, <2>3
  <2>5. \A i \in 1 .. Len(t) : i + (s - 1) \in 1 .. Len(row) /\ t[i] = row[i + (s - 1)]
    <3> TAKE i \in 1 .. Len(t)
    <3>1. s <= Len(row) /\ i \in 1 .. Len(row) - s + 1 /\ s + i - 1 = i + (s - 1)
      BY <2>1, <2>3
    <3> QED BY <2>1, <2>3, <3>1
  <2> QED BY <2>2, <2>3, <2>4, <2>5 DEF row
<1> HIDE DEF skipped
<1>5. less \in AnyRows /\ Len(less) = Len(rows)
  <2> DEFINE S == Seq(AnyBucket)
             k == Len(rows)
  <2>1. k \in Nat /\ \A r \in 1 .. k : less[r] \in S
    BY <1>1, <1>4
  <2>2. less = [r \in 1 .. k |-> less[r]]
    BY <1>2
  <2> HIDE DEF S, k
  <2>3. less \in Seq(S) /\ Len(less) = k
    BY <2>1, <2>2
  <2> QED BY <2>3 DEF AnyRows, S, k
<1>6. \A r \in 1 .. Len(less) : skipped[r] \in Nat
  BY <1>3, <1>5 DEF skipped
<1>7. Shortened(less, rows, skipped)
  BY <1>4, <1>5, <1>6 DEF Shortened
<1>8. Good(es, less)
  BY <1>7, ShortenedIsGood
<1>9. AllBounded(less)
  <2> SUFFICES ASSUME NEW r \in 1 .. Len(less) PROVE Len(less[r]) <= MaxBuckets
    BY DEF AllBounded
  <2>1. r \in 1 .. Len(rows)
    BY <1>5
  <2>2. Len(rows[r]) <= MaxBuckets /\ Len(rows[r]) \in Nat
    BY <1>1, <2>1 DEF AllBounded
  <2>3. Len(less[r]) \in Nat /\ Len(less[r]) <= Len(rows[r])
    BY <1>4, <2>1
  <2> QED BY <1>1, <2>2, <2>3
<1> QED BY <1>8, <1>9 DEF less

-----------------------------------------------------------------------------
(* ADWIN's histogram is exact                                              *)

\* Width and total are those of the elements kept.
Totals(es, a) ==
  LET flat == FlattenSeq(a.rows)
      kept == Together(flat, Len(flat))
  IN  a.width = Cardinality(kept) /\ a.total = ErrorsIn(es, kept)

\* The inductive invariant of ADWIN.
AdwinInv ==
  /\ errors \in Seq({0, 1})
  /\ Good(errors, adwin.rows) /\ AllBounded(adwin.rows)
  /\ Totals(errors, adwin) /\ adwin.drift \in BOOLEAN

\* An element keeps it, whether buckets are dropped or not.
LEMMA AdwinStep ==
  ASSUME AdwinInv, NEW e \in {0, 1}, Update(e)
  PROVE  AdwinInv'
<1> DEFINE es == Append(errors, e)
           old == adwin.rows
           rows == Inserted(old, e, Len(errors) + 1)
           cuts == Cuts(FlattenSeq(rows))
           first == CHOOSE c \in cuts : \A d \in cuts : c <= d
           kept == IF cuts = {} THEN rows ELSE Dropped(rows, first)
           flat == FlattenSeq(kept)
           sums == Sums(flat)[Len(flat)]
<1>1. /\ errors' = es
      /\ adwin' = [rows |-> kept, drift |-> cuts # {}, width |-> sums.n, total |-> sums.sum]
  BY DEF Update, AdwinUpdated
<1>2. errors \in Seq({0, 1}) /\ Good(errors, old) /\ AllBounded(old) /\ es \in Seq({0, 1})
  BY DEF AdwinInv
<1> HIDE DEF es, old
<1>3. Good(es, rows) /\ AllBounded(rows)
  BY <1>2, InsertedIsGood DEF es
<1> HIDE DEF rows
<1>4. ASSUME cuts # {} PROVE first \in Nat
  <2> DEFINE all == FlattenSeq(rows)
  <2>1. cuts \subseteq 1 .. Len(all) - 1
    BY DEF Cuts
  <2>2. Len(all) \in Nat
    BY <1>3, FlatIsFlat
  <2>3. cuts \subseteq Nat
    BY <2>1, <2>2
  <2> HIDE DEF cuts
  <2>4. \E c \in cuts : \A d \in cuts : c <= d
    BY <1>4, <2>3, LeastNatural
  <2>5. first \in cuts
    BY <2>4
  <2> QED BY <2>3, <2>5
<1> HIDE DEF cuts, first
<1>5. Good(es, kept) /\ AllBounded(kept)
  <2>1. CASE cuts = {}
    BY <1>3, <2>1
  <2>2. CASE cuts # {}
    <3>1. Good(es, Dropped(rows, first)) /\ AllBounded(Dropped(rows, first))
      BY <1>3, <1>4, <2>2, DroppedIsGood
    <3> QED BY <2>2, <3>1
  <2> QED BY <2>1, <2>2
<1> HIDE DEF kept
<1>6. IsFlat(es, flat) /\ flat \in Seq(AnyBucket)
  BY <1>5, FlatIsFlat
<1> HIDE DEF flat
<1>7. Len(flat) \in 0 .. Len(flat)
  BY <1>6
<1>8. sums = [n |-> Cardinality(Together(flat, Len(flat))), sum |-> ErrorsIn(es, Together(flat, Len(flat)))]
  BY <1>6, <1>7, SumsAre
<1> HIDE DEF sums
<1>9. /\ adwin'.rows = kept /\ adwin'.drift = (cuts # {})
      /\ adwin'.width = sums.n /\ adwin'.total = sums.sum
  BY <1>1
<1>10. Totals(es, adwin')
  BY <1>8, <1>9 DEF Totals, flat
<1>11. adwin'.drift \in BOOLEAN
  BY <1>9
<1>12. Good(errors', adwin'.rows) /\ AllBounded(adwin'.rows) /\ errors' \in Seq({0, 1})
  BY <1>1, <1>2, <1>5, <1>9
<1>13. Totals(errors', adwin')
  BY <1>1, <1>10
<1> QED BY <1>11, <1>12, <1>13 DEF AdwinInv, Good, Exact, Apart, AllBounded, Totals

\* It says nothing of the other variables.
LEMMA AdwinStutter ==
  ASSUME AdwinInv, UNCHANGED <<errors, adwin>>
  PROVE  AdwinInv'
<1>1. errors' = errors /\ adwin' = adwin
  OBVIOUS
<1> QED BY <1>1 DEF AdwinInv, Good, Exact, Apart, AllBounded, Totals

\* It holds at the start.
LEMMA AdwinStart == Init => AdwinInv
<1> SUFFICES ASSUME Init PROVE AdwinInv
  OBVIOUS
<1> DEFINE rows == <<<<>>>>
<1>1. errors = <<>> /\ adwin.rows = rows /\ adwin.drift = FALSE /\ adwin.width = 0 /\ adwin.total = 0
  BY DEF Init
<1>2. rows \in Seq(Seq(AnyBucket)) /\ rows # <<>> /\ Len(rows) = 1 /\ rows[1] = <<>> /\ Len(rows[1]) = 0
  <2>1. <<>> \in Seq(AnyBucket)
    OBVIOUS
  <2> QED BY <2>1
<1> HIDE DEF rows
<1>3. \A r \in 1 .. Len(rows) : Len(rows[r]) = 0 /\ 1 .. Len(rows[r]) = {}
  BY <1>2
<1>4. Good(errors, rows)
  BY <1>2, <1>3 DEF Good, Exact, Apart, AnyRows
<1>5. AllBounded(rows)
  BY <1>3, BoundAssumption DEF AllBounded
<1>6. FlattenSeq(rows) = <<>>
  <2>1. PICK f : Flattens(f, rows, AnyBucket) /\ FlattenSeq(rows) = f[Len(rows)]
    BY <1>2, FlattenIs
  <2> QED BY <1>2, <2>1 DEF Flattens
<1>7. Totals(errors, adwin)
  <2>1. Together(<<>>, 0) = {} /\ Len(<<>>) = 0
    BY DEF Together
  <2>2. {i \in {} : errors[i] = 1} = {}
    OBVIOUS
  <2>3. Cardinality({}) = 0 /\ ErrorsIn(errors, {}) = 0
    BY <2>2, FS_EmptySet DEF ErrorsIn
  <2>4. FlattenSeq(adwin.rows) = <<>>
    BY <1>1, <1>6
  <2>5. Together(<<>>, Len(<<>>)) = {}
    BY <2>1
  <2>6. Cardinality(Together(<<>>, Len(<<>>))) = 0 /\ ErrorsIn(errors, Together(<<>>, Len(<<>>))) = 0
    BY <2>3, <2>5
  <2> QED BY <1>1, <2>4, <2>6 DEF Totals
<1>8. errors \in Seq({0, 1}) /\ adwin.drift \in BOOLEAN
  <2>1. errors \in Seq({0, 1})
    BY <1>1
  <2>2. adwin.drift \in BOOLEAN
    BY <1>1
  <2> QED BY <2>1, <2>2
<1>9. Good(errors, adwin.rows) /\ AllBounded(adwin.rows)
  BY <1>1, <1>4, <1>5
<1> QED BY <1>7, <1>8, <1>9 DEF AdwinInv

\* It implies what the run checks.
LEMMA AdwinExact == AdwinInv => HistogramIsExact
<1> SUFFICES ASSUME AdwinInv PROVE HistogramIsExact
  OBVIOUS
<1> DEFINE rows == adwin.rows
           flat == FlattenSeq(rows)
<1>1. Good(errors, rows) /\ Totals(errors, adwin)
  BY DEF AdwinInv
<1>2. \A P : Wrong(P) = ErrorsIn(errors, P)
  BY DEF Wrong, ErrorsIn
<1>3. Buckets = flat
  BY DEF Buckets
<1> HIDE DEF rows
<1>4. IsFlat(errors, flat) /\ flat \in Seq(AnyBucket)
  BY <1>1, FlatIsFlat
<1>5. Totals(errors, adwin) => adwin.width = Cardinality(Together(flat, Len(flat)))
                               /\ adwin.total = ErrorsIn(errors, Together(flat, Len(flat)))
  BY DEF Totals, rows
<1> HIDE DEF flat
<1>6. ASSUME NEW r \in DOMAIN rows, NEW b \in ToSet(rows[r])
      PROVE  b.count = RowSize[r] /\ Cardinality(b.of) = b.count /\ b.total = Wrong(b.of)
  <2>1. r \in 1 .. Len(rows) /\ rows[r] \in Seq(AnyBucket)
    BY <1>1, GoodTypes DEF Good, AnyRows
  <2>2. PICK i \in 1 .. Len(rows[r]) : b = rows[r][i]
    BY <2>1 DEF ToSet
  <2>3. IsExact(errors, r, b)
    BY <1>1, <2>1, <2>2 DEF Good, Exact
  <2> QED BY <1>2, <2>3 DEF IsExact, Counts
<1>7. ASSUME NEW i \in DOMAIN flat, NEW j \in DOMAIN flat, i # j
      PROVE  flat[i].of \intersect flat[j].of = {}
  <2>1. i \in 1 .. Len(flat) /\ j \in 1 .. Len(flat)
    BY <1>4
  <2>2. \A x, y \in 1 .. Len(flat) : x # y => flat[x].of \intersect flat[y].of = {}
    BY <1>4 DEF IsFlat
  <2> QED BY <1>7, <2>1, <2>2
<1>8. UNION {b.of : b \in ToSet(flat)} = Together(flat, Len(flat))
  <2>1. ToSet(flat) = {flat[i] : i \in 1 .. Len(flat)}
    BY <1>4 DEF ToSet
  <2> QED BY <2>1 DEF Together
<1> QED BY <1>1, <1>2, <1>3, <1>5, <1>6, <1>7, <1>8 DEF HistogramIsExact, rows

\* For every stream, of any length, and every MaxBuckets and confidence, ADWIN's
\* rows hold after each element buckets of 1, 2, 4, ... elements with the number
\* of errors among them, no element is counted twice, and width and total are
\* those of what is kept: the compression (concept_drift.py:51-65) and the drop
\* (concept_drift.py:99-108) lose and count nothing twice.
THEOREM HistogramStaysExact == Spec => []HistogramIsExact
<1>1. AdwinInv /\ [Next]_vars => AdwinInv'
  <2> SUFFICES ASSUME AdwinInv, [Next]_vars PROVE AdwinInv'
    OBVIOUS
  <2>1. CASE Follow \/ Switch
    <3>1. PICK e \in {0, 1} : Update(e)
      BY <2>1 DEF Follow, Switch, Value
    <3> QED BY <3>1, AdwinStep
  <2>2. CASE UNCHANGED vars
    BY <2>2, AdwinStutter DEF vars
  <2> QED BY <2>1, <2>2 DEF Next
<1> QED BY <1>1, AdwinStart, AdwinExact, PTL DEF Spec

-----------------------------------------------------------------------------
(* Type correctness of the detectors                                       *)

\* The parts of the type invariant, and with AdwinInv what is inductive of them.
DDMType == ddm.n \in Nat /\ ddm.wrong \in 0 .. ddm.n /\ ddm.p \in 0 .. 1000 /\ ddm.s \in 0 .. 1000
PHType ==
  /\ ph.n \in Nat /\ ph.wrong \in Nat /\ ph.drift \in BOOLEAN
  /\ ph.sum \in Int /\ ph.min \in Int /\ ph.min <= ph.sum
PatternType == pattern \in Patterns /\ switches \in 0 .. MaxSwitches
PointType == point \in [Methods -> 0 .. Len(errors) - 1 \union {None}]

TypeInv == AdwinInv /\ DDMType /\ PHType /\ PatternType /\ PointType

\* Shares of a thousand.
PerMille == 0 .. 1000

\* The rate of a count among n is a share of a thousand.
LEMMA RateType ==
  ASSUME NEW n \in Nat \ {0}, NEW w \in 0 .. n
  PROVE  Rate(w, n) \in PerMille
<1> DEFINE r == Rate(w, n)
<1>1. r \in Nat /\ n * r <= 1000 * w
  <2>1. w \in Nat
    OBVIOUS
  <2>2. IsRate(r, w, n)
    BY <2>1, RateIs
  <2> HIDE DEF r
  <2> QED BY <2>2 DEF IsRate
<1> HIDE DEF r
<1>2. n * r <= n * 1000
  BY <1>1
<1>3. r <= 1000
  BY <1>1, <1>2, FromProduct
<1> QED BY <1>1, <1>3 DEF r, PerMille

\* An element keeps DDM's types.
LEMMA DDMTypeStep ==
  ASSUME DDMType, NEW e \in {0, 1}, Update(e)
  PROVE  DDMType'
<1> DEFINE d == Counted(e)
           n == ddm.n + 1
           w == ddm.wrong + e
<1>1. n \in Nat \ {0} /\ w \in 0 .. n
  BY DEF DDMType
<1>2. d.n = n /\ d.wrong = w /\ d.p = Rate(w, n) /\ d.s = Deviation(w, n)
  BY DEF Counted
<1> HIDE DEF n, w, d
<1>3. d.p \in 0 .. 1000
  <2>1. Rate(w, n) \in PerMille
    BY <1>1, RateType
  <2> QED BY <1>2, <2>1 DEF PerMille
<1>4. d.s \in 0 .. 1000
  <2>1. IsDeviation(d.s, w, n - w, n)
    BY <1>1, <1>2, DeviationBounds
  <2> QED BY <2>1 DEF IsDeviation
<1>5. ddm' = NewDDM \/ ddm' = d
  <2>1. DDMUpdated(e).state = IF Above(d, DriftLevel) THEN NewDDM ELSE d
    BY DEF DDMUpdated, d
  <2> QED BY <2>1 DEF Update
<1>6. NewDDM.n = 0 /\ NewDDM.wrong = 0 /\ NewDDM.p = 1000 /\ NewDDM.s = 0
  BY DEF NewDDM
<1>7. CASE ddm' = NewDDM
  BY <1>6, <1>7 DEF DDMType
<1>8. CASE ddm' = d
  BY <1>1, <1>2, <1>3, <1>4, <1>8 DEF DDMType
<1> QED BY <1>5, <1>7, <1>8

\* An element keeps Page-Hinkley's types, and the minimum at or below the sum.
LEMMA PHTypeStep ==
  ASSUME PHType, NEW e \in {0, 1}, Update(e)
  PROVE  PHType'
<1> DEFINE n == ph.n + 1
           v == ph.wrong + e
           a == PHAlpha * ph.sum
           r == Rate(v, n)
           sum == a \div 10000 + 1000 * e - r - PHDelta
           min == IF sum < ph.min THEN sum ELSE ph.min
           fires == sum - min > PHThreshold
           since == IF ph.drift THEN e ELSE ph.since + e
<1>1. ph' = [n |-> n, wrong |-> v, sum |-> IF fires THEN 0 ELSE sum,
             min |-> IF fires THEN 0 ELSE min, drift |-> fires, since |-> since]
  BY DEF Update, PHUpdated, PHSums
<1>2. n \in Nat \ {0} /\ v \in Nat /\ a \in Int /\ ph.min \in Int /\ PHDelta \in Nat
  BY PHAssumption DEF PHType
<1> HIDE DEF n, v, a
<1>3. r \in Nat
  <2>1. IsRate(r, v, n)
    BY <1>2, RateIs
  <2> QED BY <2>1 DEF IsRate
<1> HIDE DEF r, since
<1>4. sum \in Int
  BY <1>2, <1>3
<1> HIDE DEF sum
<1>5. min \in Int /\ min <= sum
  BY <1>2, <1>4
<1>6. fires \in BOOLEAN
  OBVIOUS
<1> HIDE DEF min, fires
<1>7. /\ ph'.n = n /\ ph'.wrong = v /\ ph'.drift = fires
      /\ ph'.sum = (IF fires THEN 0 ELSE sum) /\ ph'.min = (IF fires THEN 0 ELSE min)
  BY <1>1
<1>8. ph'.sum \in Int /\ ph'.min \in Int /\ ph'.min <= ph'.sum
  <2>1. CASE fires
    BY <1>7, <2>1
  <2>2. CASE ~fires
    BY <1>4, <1>5, <1>7, <2>2
  <2> QED BY <2>1, <2>2
<1>9. ph'.drift \in BOOLEAN
  BY <1>6, <1>7
<1> QED BY <1>2, <1>7, <1>8, <1>9 DEF PHType

\* An element keeps the types of every detector and of the drift points.
LEMMA TypeStep ==
  ASSUME TypeInv, NEW e \in {0, 1}, Update(e), PatternType'
  PROVE  TypeInv'
<1>1. AdwinInv' /\ DDMType' /\ PHType'
  BY AdwinStep, DDMTypeStep, PHTypeStep DEF TypeInv
<1>2. PointType'
  <2>1. errors \in Seq({0, 1}) /\ errors' = Append(errors, e)
    BY DEF TypeInv, AdwinInv, Update
  <2> DEFINE n == Len(errors)
             P == 0 .. n \union {None}
  <2>2. n \in Nat /\ Len(errors') - 1 = n
    BY <2>1
  <2> HIDE DEF n
  <2>3. \A m \in Methods : point[m] \in P
    BY <2>2 DEF TypeInv, PointType, n
  <2>4. point' = [m \in Methods |-> IF point[m] = None /\ Fires(m) THEN n ELSE point[m]]
    BY DEF Update, n
  <2>5. n \in P
    BY <2>2
  <2> HIDE DEF P
  <2>6. point' \in [Methods -> P]
    BY <2>3, <2>4, <2>5
  <2> QED BY <2>2, <2>6 DEF PointType, P
<1> QED BY <1>1, <1>2 DEF TypeInv

\* For every stream the state keeps its types: no row is longer than MaxBuckets
\* after an insertion, DDM's rate and deviation are shares of a thousand, and
\* Page-Hinkley's minimum is not above its sum.
THEOREM TypeCorrect == Spec => []TypeOK
<1>1. Init => TypeInv
  <2> SUFFICES ASSUME Init PROVE TypeInv
    OBVIOUS
  <2>1. DDMType
    BY DEF Init, DDMType, NewDDM
  <2>2. PHType
    <3>1. ph = [n |-> 0, wrong |-> 0, sum |-> 0, min |-> 0, drift |-> FALSE, since |-> 0]
      BY DEF Init, NewPH
    <3>2. ph.drift \in BOOLEAN
      BY <3>1
    <3> QED BY <3>1, <3>2 DEF PHType
  <2>3. PatternType /\ PointType
    BY BoundAssumption DEF Init, PatternType, PointType
  <2> QED BY <2>1, <2>2, <2>3, AdwinStart DEF TypeInv
<1>2. TypeInv /\ [Next]_vars => TypeInv'
  <2> SUFFICES ASSUME TypeInv, [Next]_vars PROVE TypeInv'
    OBVIOUS
  <2>1. ASSUME Follow PROVE TypeInv'
    <3>1. PICK e \in {0, 1} : Update(e)
      BY <2>1 DEF Follow, Value
    <3>2. PatternType'
      BY <2>1 DEF Follow, TypeInv, PatternType
    <3> QED BY <3>1, <3>2, TypeStep
  <2>2. ASSUME Switch PROVE TypeInv'
    <3>1. PICK e \in {0, 1} : Update(e)
      BY <2>2 DEF Switch, Value
    <3>2. PatternType'
      BY <2>2, BoundAssumption DEF Switch, TypeInv, PatternType
    <3> QED BY <3>1, <3>2, TypeStep
  <2>3. CASE UNCHANGED vars
    <3>1. AdwinInv'
      BY <2>3, AdwinStutter DEF vars, TypeInv
    <3> QED BY <2>3, <3>1 DEF vars, TypeInv, DDMType, PHType, PatternType, PointType
  <2> QED BY <2>1, <2>2, <2>3 DEF Next
<1>3. TypeInv => TypeOK
  <2> SUFFICES ASSUME TypeInv PROVE TypeOK
    OBVIOUS
  <2>1. Good(errors, adwin.rows) /\ AllBounded(adwin.rows) /\ Totals(errors, adwin)
    BY DEF TypeInv, AdwinInv
  <2>2. \A r \in DOMAIN adwin.rows : Len(adwin.rows[r]) <= MaxBuckets
    BY <2>1 DEF AllBounded, Good, AnyRows
  <2>3. adwin.width \in Nat /\ adwin.total \in Nat
    <3> DEFINE flat == FlattenSeq(adwin.rows)
               kept == Together(flat, Len(flat))
    <3>1. IsFlat(errors, flat) /\ flat \in Seq(AnyBucket)
      BY <2>1, FlatIsFlat
    <3>2. adwin.width = Cardinality(kept) /\ adwin.total = ErrorsIn(errors, kept)
      BY <2>1 DEF Totals
    <3> HIDE DEF flat
    <3>3. IsFiniteSet(kept)
      <4>1. Len(flat) \in 0 .. Len(flat)
        BY <3>1
      <4> QED BY <3>1, <4>1, TogetherFinite
    <3> HIDE DEF kept
    <3>4. Cardinality(kept) \in Nat /\ ErrorsIn(errors, kept) \in Nat
      <4>1. IsFiniteSet({}) /\ kept \intersect {} = {}
        BY FS_EmptySet
      <4> QED BY <3>3, <4>1, DisjointCounts
    <3> QED BY <3>2, <3>4
  <2> QED BY <2>2, <2>3 DEF TypeInv, AdwinInv, DDMType, PHType, PatternType, PointType, TypeOK
<1> QED BY <1>1, <1>2, <1>3, PTL DEF Spec
=============================================================================
