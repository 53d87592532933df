----------------------------- MODULE ConceptDrift -----------------------------
(***************************************************************************)
(* The detectors of monitoring/detectors/concept_drift.py, each fed the    *)
(* same stream of errors (1: the prediction was wrong).  The streams are   *)
(* built from patterns, one after the other.                               *)
(*                                                                         *)
(* Reals are integers: DDM's rates and Page-Hinkley's sums in thousandths, *)
(* ADWIN's cut as an inequality of integers.  A bucket also has the        *)
(* positions `of` the stream it stands for, which the code does not keep.  *)
(***************************************************************************)
EXTENDS Integers, FiniteSets, SequencesExt

CONSTANTS Patterns,     \* [period, wrong]: of each period the first are wrong
          MaxLength, MaxSwitches,
          MaxBuckets,   \* ADWIN(max_buckets)
          Confidence,   \* ADWIN: 4 / delta
          MinN, WarningLevel, DriftLevel,     \* DDM
          PHDelta, PHThreshold, PHAlpha,      \* PageHinkley: thousandths,
                                              \* thousandths, ten-thousandths
          None

ASSUME BoundAssumption == MaxLength \in Nat /\ MaxSwitches \in Nat /\ MaxBuckets \in Nat \ {0}
ASSUME PHAssumption == PHDelta \in Nat /\ PHThreshold \in Nat /\ PHAlpha \in Nat
ASSUME NoneAssumption == None \notin [p : Nat, s : Nat]

VARIABLES
  errors,             \* the stream so far
  pattern, switches,  \* the pattern it follows, the changes of pattern so far
  adwin, ddm, ph,     \* the detectors
  point               \* detect_concept_drift: where each fired first
vars == <<errors, pattern, switches, adwin, ddm, ph, point>>

Methods == {"adwin", "page_hinkley", "ddm"}
Value(p, i) == IF i % p.period < p.wrong THEN 1 ELSE 0
Wrong(positions) == Cardinality({i \in positions : errors[i] = 1})
\* The elements and the errors in the first i buckets.
Sums(buckets) ==
  LET sums[i \in 0..Len(buckets)] ==
        IF i = 0 THEN [n |-> 0, sum |-> 0]
        ELSE LET before == sums[i - 1]
             IN  [n |-> before.n + buckets[i].count, sum |-> before.sum + buckets[i].total]
  IN  sums

-----------------------------------------------------------------------------
(* ADWIN: rows of buckets, row 1 the newest *)

Merged(a, b) == [count |-> a.count + b.count, total |-> a.total + b.total, of |-> a.of \union b.of]
AppendTo(rows, r, bucket) ==
  IF r > Len(rows) THEN Append(rows, <<bucket>>)
  ELSE [rows EXCEPT ![r] = Append(@, bucket)]

\* Mutants: a row may grow one too long; only one of the merged buckets leaves.
CompressedLate(rows, r) ==
  IF r > Len(rows) \/ Len(rows[r]) <= MaxBuckets + 1 THEN rows
  ELSE AppendTo([rows EXCEPT ![r] = SubSeq(@, 3, Len(@))], r + 1, Merged(rows[r][1], rows[r][2]))
CompressedLeavesOne(rows, r) ==
  IF r > Len(rows) \/ Len(rows[r]) <= MaxBuckets THEN rows
  ELSE AppendTo([rows EXCEPT ![r] = Tail(@)], r + 1, Merged(rows[r][1], rows[r][2]))
\* The two oldest buckets of a row that is too long make one of the next.
Compressed(rows, r) ==
  IF r > Len(rows) \/ Len(rows[r]) <= MaxBuckets THEN rows
  ELSE AppendTo([rows EXCEPT ![r] = SubSeq(@, 3, Len(@))], r + 1, Merged(rows[r][1], rows[r][2]))

Inserted(rows, e, i) ==
  LET bucket == [count |-> 1, total |-> e, of |-> {i}]
      compressed[r \in 0..Len(rows)] ==
        IF r = 0 THEN AppendTo(rows, 1, bucket) ELSE Compressed(compressed[r - 1], r)
  IN  compressed[Len(rows)]

\* Ten times the logarithm of x, linear between the powers of two.
LnTenths(x) ==
  LET k == CHOOSE k \in 0..30 : 2^k <= x /\ x < 2^(k + 1)
  IN  (693 * k + (693 * (x - 2^k)) \div 2^k) \div 100

\* abs(mean0 - mean1) > eps_cut for a prefix of the buckets against the rest.
Differ(part, all) ==
  LET n1 == all.n - part.n
      gap == part.sum * n1 - (all.sum - part.sum) * part.n
  IN  gap * gap > (2 * all.n * part.n * n1 * LnTenths(Confidence * all.n)) \div 10

Cuts(flat) ==
  LET all == Sums(flat)[Len(flat)]
  IN  {i \in 1..Len(flat) - 1 : Differ(Sums(flat)[i], all)}

\* _drop_oldest: the first n buckets go, from the newest row on.
Dropped(rows, n) ==
  [r \in DOMAIN rows |->
     LET before == Len(FlattenSeq(SubSeq(rows, 1, r - 1)))
     IN  SubSeq(rows[r], IF n > before THEN n - before + 1 ELSE 1, Len(rows[r]))]

AdwinUpdated(e, i) ==
  LET rows == Inserted(adwin.rows, e, i)
      cuts == Cuts(FlattenSeq(rows))
      first == CHOOSE c \in cuts : \A d \in cuts : c <= d
      kept == IF cuts = {} THEN rows ELSE Dropped(rows, first)
      flat == FlattenSeq(kept)
  IN  [rows |-> kept, drift |-> cuts # {},
       width |-> Sums(flat)[Len(flat)].n, total |-> Sums(flat)[Len(flat)].sum]

-----------------------------------------------------------------------------
(* DDM *)

NewDDM == [n |-> 0, wrong |-> 0, p |-> 1000, s |-> 0, min |-> None]

Sqrt(x) == CHOOSE r \in 0..1000 : r * r <= x /\ x < (r + 1) * (r + 1)
Rate(wrong, n) == (1000 * wrong) \div n
Deviation(wrong, n) == Sqrt((((1000000 * wrong) \div n) * (n - wrong)) \div (n * n))

\* The detector after one more error, before it decides; min is the p and s
\* with the least sum, from MinN elements on.
Counted(e) ==
  LET n == ddm.n + 1
      wrong == ddm.wrong + e
      p == Rate(wrong, n)
      s == Deviation(wrong, n)
      lower == n >= MinN /\ (ddm.min = None \/ p + s < ddm.min.p + ddm.min.s)
  IN  [n |-> n, wrong |-> wrong, p |-> p, s |-> s,
       min |-> IF lower THEN [p |-> p, s |-> s] ELSE ddm.min]

\* Mutant: the level is not applied.
AboveMinimum(d, level) == d.n >= MinN /\ d.p + d.s >= d.min.p
Above(d, level) == d.n >= MinN /\ d.p + d.s >= d.min.p + level * d.min.s

DDMUpdated(e) ==
  LET d == Counted(e)
      drift == Above(d, DriftLevel)
  IN  [state |-> IF drift THEN NewDDM ELSE d,
       drift |-> drift, warning |-> ~drift /\ Above(d, WarningLevel)]

-----------------------------------------------------------------------------
(* Page-Hinkley; since: the errors since it last fired, or since the start *)

NewPH == [n |-> 0, wrong |-> 0, sum |-> 0, min |-> 0, drift |-> FALSE, since |-> 0]

\* Mutant: the sums are kept when it fires.
PHSumsKept(sum, min, fires) == [sum |-> sum, min |-> min]
PHSums(sum, min, fires) ==
  IF fires THEN [sum |-> 0, min |-> 0] ELSE [sum |-> sum, min |-> min]

PHUpdated(e) ==
  LET n == ph.n + 1
      wrong == ph.wrong + e
      sum == (PHAlpha * ph.sum) \div 10000 + 1000 * e - Rate(wrong, n) - PHDelta
      min == IF sum < ph.min THEN sum ELSE ph.min
      fires == sum - min > PHThreshold
      sums == PHSums(sum, min, fires)
  IN  [n |-> n, wrong |-> wrong, sum |-> sums.sum, min |-> sums.min, drift |-> fires,
       since |-> IF ph.drift THEN e ELSE ph.since + e]

-----------------------------------------------------------------------------
Init ==
  /\ errors = <<>>
  /\ pattern \in Patterns
  /\ switches = 0
  /\ adwin = [rows |-> <<<<>>>>, drift |-> FALSE, width |-> 0, total |-> 0]
  /\ ddm = NewDDM
  /\ ph = NewPH
  /\ point = [m \in Methods |-> None]

Fires(m) ==
  CASE m = "adwin" -> adwin'.drift
    [] m = "page_hinkley" -> ph'.drift
    [] m = "ddm" -> DDMUpdated(errors'[Len(errors')]).drift

\* One turn of detect_concept_drift's loop, for each method.
Update(e) ==
  /\ errors' = Append(errors, e)
  /\ adwin' = AdwinUpdated(e, Len(errors) + 1)
  /\ ddm' = DDMUpdated(e).state
  /\ ph' = PHUpdated(e)
  /\ point' = [m \in Methods |-> IF point[m] = None /\ Fires(m) THEN Len(errors) ELSE point[m]]

Follow ==
  /\ Len(errors) < MaxLength
  /\ Update(Value(pattern, Len(errors) + 1))
  /\ UNCHANGED <<pattern, switches>>

Switch ==
  /\ Len(errors) < MaxLength
  /\ switches < MaxSwitches
  /\ \E p \in Patterns \ {pattern} :
       /\ pattern' = p
       /\ Update(Value(p, Len(errors) + 1))
  /\ switches' = switches + 1

Next == Follow \/ Switch

Spec == Init /\ [][Next]_vars

-----------------------------------------------------------------------------
(* Properties *)

Buckets == FlattenSeq(adwin.rows)
\* The elements that a bucket of row r stands for: 1, 2, 4, ...
RowSize[r \in Nat \ {0}] == IF r = 1 THEN 1 ELSE 2 * RowSize[r - 1]

\* The variables' types: a row has at most MaxBuckets buckets once an update
\* is over, and a point is a position of the stream.
TypeOK ==
  /\ errors \in Seq({0, 1})
  /\ pattern \in Patterns /\ switches \in 0..MaxSwitches
  /\ adwin.drift \in BOOLEAN /\ adwin.width \in Nat /\ adwin.total \in Nat
  /\ \A r \in DOMAIN adwin.rows : Len(adwin.rows[r]) <= MaxBuckets
  /\ ddm.n \in Nat /\ ddm.wrong \in 0..ddm.n /\ ddm.p \in 0..1000 /\ ddm.s \in 0..1000
  /\ ph.drift \in BOOLEAN /\ ph.sum \in Int /\ ph.min \in Int /\ ph.min <= ph.sum
  /\ point \in [Methods -> 0..Len(errors) - 1 \union {None}]

\* ADWIN's buckets are the exponential histogram they are meant to be, also
\* after some were dropped: row r has buckets of RowSize[r] elements, each with
\* the number of errors among them, no element is in two, and width and total
\* are those of what is kept.
HistogramIsExact ==
  /\ \A r \in DOMAIN adwin.rows : \A b \in ToSet(adwin.rows[r]) :
       b.count = RowSize[r] /\ Cardinality(b.of) = b.count /\ b.total = Wrong(b.of)
  /\ \A i, j \in DOMAIN Buckets : i # j => Buckets[i].of \intersect Buckets[j].of = {}
  /\ LET kept == UNION {b.of : b \in ToSet(Buckets)}
     IN  adwin.width = Cardinality(kept) /\ adwin.total = Wrong(kept)

\* A drift of DDM means more errors than at the minimum it keeps, or a stretch
\* of MinN predictions that were all right or all wrong: the deviation is 0
\* then and the minimum is its own bound.
DDMFiresOnWorse ==
  [][LET e == errors'[Len(errors')]
         d == Counted(e)
     IN  DDMUpdated(e).drift => IF ddm.min = None THEN d.wrong \in {0, MinN}
                                ELSE d.p > ddm.min.p]_vars

\* Page-Hinkley fires on an error, and only after as many errors as its
\* threshold since it last fired: with the defaults, after more than 50 in a
\* window of 500.
PageHinkleyCounts ==
  ph.drift => errors[Len(errors)] = 1 /\ 1000 * ph.since > PHThreshold

\* What the docstring of ADWIN says of a drift: the older window is dropped,
\* so the newest element stays.
OlderIsDropped ==
  adwin.drift => \E b \in ToSet(Buckets) : Len(errors) \in b.of
=============================================================================
