------------------------- MODULE MonitorCore_proof -------------------------
(***************************************************************************)
(* Proofs about MonitorCore, for every set of loggers and pollers, every   *)
(* list of columns, every detector, window size and cooldown.              *)
(***************************************************************************)
EXTENDS MonitorCore, TLAPS, FiniteSetTheorems

-----------------------------------------------------------------------------
(* Types                                                                   *)

LEMMA NewestType ==
  ASSUME NEW S, NEW s \in Seq(S), NEW n \in Nat
  PROVE  Newest(s, n) \in Seq(S) /\ Len(Newest(s, n)) <= n
<1>1. CASE Len(s) <= n
  BY <1>1 DEF Newest
<1>2. CASE Len(s) > n
  <2>1. Newest(s, n) = SubSeq(s, Len(s) - n + 1, Len(s))
    BY <1>2 DEF Newest
  <2>2. Len(s) \in Nat /\ \A i \in 1..Len(s) : s[i] \in S
    OBVIOUS
  <2>3. SubSeq(s, Len(s) - n + 1, Len(s)) \in Seq(S)
    BY <1>2, <2>2
  <2>4. Len(SubSeq(s, Len(s) - n + 1, Len(s))) = n
    BY <1>2, <2>2
  <2> QED BY <2>1, <2>3, <2>4
<1> QED BY <1>1, <1>2

LEMMA PairType == \A S : \A a, b \in S : <<a, b>> \in Seq(S)
OBVIOUS

LEMMA OrderType ==
  /\ Len(Order) \in Nat
  /\ \A i \in 1..Len(Order) : Order[i] \in Keys
<1> DEFINE S == STRING \union {"prediction", "concept"}
<1>1. <<"prediction", "concept">> \in Seq(S)
  BY PairType
<1>2. Columns \in Seq(S)
  <2>1. \A i \in 1..Len(Columns) : Columns[i] \in S
    BY ColumnAssumption
  <2>2. Len(Columns) \in Nat /\ DOMAIN Columns = 1..Len(Columns) /\ Columns \in [1..Len(Columns) -> STRING]
    BY ColumnAssumption
  <2> QED BY <2>1, <2>2
<1> HIDE DEF S
<1>3. Order \in Seq(S)
  BY <1>1, <1>2 DEF Order
<1> QED BY <1>3 DEF Keys

LEMMA AtLeastType ==
  ASSUME NEW s \in Severities
  PROVE  AtLeast(s) \in Severities \union {None}
BY DEF AtLeast

LEMMA SeverityType ==
  ASSUME NEW score
  PROVE  SeverityForScore(score) \in Severities \union {None}
BY DEF SeverityForScore, Severities

LEMMA VerdictTypes ==
  ASSUME NEW rows
  PROVE  /\ \A column, ref : DataAlert(column, ref, rows) \in Severities \union {None}
         /\ PredictionVerdict(rows) \in Severities \union {None}
         /\ ConceptVerdict(rows) \in Severities \union {None}
<1>1. ASSUME NEW column, NEW ref PROVE DataAlert(column, ref, rows) \in Severities \union {None}
  BY SeverityType, AtLeastType DEF DataAlert
<1>2. PredictionAlert(rows) \in Severities \union {None}
  BY SeverityType, AtLeastType DEF PredictionAlert, Severities
<1>3. PredictionVerdict(rows) \in Severities \union {None}
  BY <1>2 DEF PredictionVerdict
<1>4. ConceptVerdict(rows) \in Severities \union {None}
  BY DEF ConceptVerdict, Severities
<1> QED BY <1>1, <1>3, <1>4

LEMMA IdleType == Idle \in Jobs /\ Idle.at = "idle" /\ Idle.due = {}
BY BoundAssumption, OrderType DEF Idle, Jobs

LEMMA TypeInit == Init => TypeOK
<1> SUFFICES ASSUME Init PROVE TypeOK
  OBVIOUS
<1>1. job \in [Pollers -> Jobs] /\ \A p \in Pollers : job[p].at = "idle"
  BY IdleType DEF Init
<1>2. /\ lastFired \in [Keys -> 0..MaxTime \union {None}]
      /\ logging \in [Loggers -> Records \union {None}]
      /\ window \in Seq(Records) /\ Len(window) <= WindowSize /\ predictions \in Seq(Records)
  BY SizeAssumption DEF Init
<1>3. /\ now \in 0..MaxTime /\ life \in 1..MaxCrashes + 1
      /\ count \in 0..MaxLogs /\ copies \in 0..MaxReports
  BY BoundAssumption DEF Init
<1> QED BY <1>1, <1>2, <1>3 DEF Init, TypeOK

(* A poller that is deciding has its key and its severity.                 *)
KeyKnown(j) == j.at \in {"set", "store"} => j.key <= Len(Order) /\ j.found[Order[j.key]] # None

(* A step that gives one poller new locals.                                *)
LEMMA JobType ==
  ASSUME TypeOK, NEW p \in Pollers, NEW j \in Jobs, KeyKnown(j), job' = [job EXCEPT ![p] = j]
  PROVE  /\ job' \in [Pollers -> Jobs]
         /\ \A q \in Pollers : job'[q].at \in {"set", "store"} =>
              job'[q].key <= Len(Order) /\ (job'[q].found[KeyOf(q)'] # None)
BY DEF TypeOK, KeyKnown, KeyOf

(* What the job of a poller that is alerting consists of.                  *)
LEMMA AlertingJob ==
  ASSUME TypeOK, NEW p \in Pollers, job[p].at \in {"alert", "set", "store"}, job[p].key <= Len(Order)
  PROVE  /\ KeyOf(p) \in Keys
         /\ NextKey(p) \in Jobs /\ NextKey(p).at = "alert" /\ NextKey(p).due = job[p].due
         /\ job[p].found[KeyOf(p)] # None => RowOf(p) \in AlertRows
<1>1. /\ job[p] \in Jobs /\ job[p].key \in 1..Len(Order) /\ life \in 0..MaxCrashes + 1
  BY OrderType, BoundAssumption DEF TypeOK, Jobs
<1>2. KeyOf(p) \in Keys
  BY <1>1, OrderType DEF KeyOf
<1>3. job[p].found \in [Keys -> Severities \union {None}] /\ job[p].due \in SUBSET AlertRows
      /\ job[p].when \in 0..MaxTime
  BY <1>1 DEF Jobs
<1>4. [job[p].found EXCEPT ![KeyOf(p)] = None] \in [Keys -> Severities \union {None}]
  BY <1>2, <1>3
<1>5. job[p].key + 1 \in 1..Len(Order) + 1 /\ 0 \in 0..MaxTime
  BY <1>1, OrderType, BoundAssumption
<1>6. NextKey(p) \in Jobs /\ NextKey(p).at = "alert" /\ NextKey(p).due = job[p].due
  BY <1>3, <1>4, <1>5 DEF NextKey, Jobs
<1>7. job[p].found[KeyOf(p)] # None => RowOf(p) \in AlertRows
  BY <1>1, <1>2, <1>3 DEF RowOf, AlertRows
<1> QED BY <1>2, <1>6, <1>7

LEMMA TypeStep == TypeOK /\ [Next]_vars => TypeOK'
<1> SUFFICES ASSUME TypeOK, [Next]_vars PROVE TypeOK'
  OBVIOUS
<1> USE DEF logged, dedup, alerting, clock
<1>t. /\ job \in [Pollers -> Jobs] /\ now \in 0..MaxTime /\ count \in 0..MaxLogs
      /\ logging \in [Loggers -> Records \union {None}] /\ window \in Seq(Records)
      /\ predictions \in Seq(Records)
  BY DEF TypeOK
<1>1. ASSUME NEW t \in Loggers, LogToWindow(t) PROVE TypeOK'
  <2>1. PICK hit \in SUBSET {p \in Pollers : job[p].at \in Reading} :
          job' = [p \in Pollers |-> IF p \in hit THEN Idle ELSE job[p]]
    BY <1>1 DEF LogToWindow
  <2>2. PICK kind \in Kinds :
          /\ logging' = [logging EXCEPT ![t] = [id |-> count + 1, kind |-> kind]]
          /\ window' = Added([id |-> count + 1, kind |-> kind])
    BY <1>1 DEF LogToWindow
  <2>3. count < MaxLogs /\ count' = count + 1
    BY <1>1 DEF LogToWindow
  <2>4. [id |-> count + 1, kind |-> kind] \in Records /\ count' \in 0..MaxLogs
    BY <2>3, <1>t, BoundAssumption DEF Records
  <2>5. window' \in Seq(Records) /\ Len(window') <= WindowSize
    <3>1. Append(window, [id |-> count + 1, kind |-> kind]) \in Seq(Records)
      BY <2>4, <1>t
    <3> QED BY <3>1, <2>2, NewestType, SizeAssumption DEF Added
  <2>6. logging' \in [Loggers -> Records \union {None}]
    BY <2>2, <2>4, <1>t
  <2>7. job' \in [Pollers -> Jobs]
    BY <2>1, <1>t, IdleType
  <2>8. \A q \in Pollers : job'[q].at \in {"set", "store"} =>
          job'[q].key <= Len(Order) /\ job'[q].found[Order[job'[q].key]] # None
    <3> SUFFICES ASSUME NEW q \in Pollers, job'[q].at \in {"set", "store"}
                 PROVE  job'[q].key <= Len(Order) /\ job'[q].found[Order[job'[q].key]] # None
      OBVIOUS
    <3>1. job'[q] = job[q]
      BY <2>1, IdleType
    <3> QED BY <3>1 DEF TypeOK, KeyOf
  <2> QED BY <1>1, <2>4, <2>5, <2>6, <2>7, <2>8 DEF TypeOK, LogToWindow, KeyOf
<1>2. ASSUME NEW t \in Loggers, LogToStore(t) \/ LogToStoreFails(t) PROVE TypeOK'
  <2>1. logging[t] \in Records
    BY <1>2, <1>t DEF LogToStore, LogToStoreFails
  <2>2. logging' \in [Loggers -> Records \union {None}]
    BY <1>2, <1>t DEF LogToStore, LogToStoreFails
  <2>3. predictions' \in Seq(Records)
    <3>1. Append(predictions, logging[t]) \in Seq(Records)
      BY <2>1, <1>t
    <3> QED BY <1>2, <3>1, <1>t DEF LogToStore, LogToStoreFails
  <2>4. unlogged' \in SUBSET Records
    BY <1>2, <2>1 DEF TypeOK, LogToStore, LogToStoreFails
  <2> QED BY <1>2, <2>2, <2>3, <2>4 DEF TypeOK, LogToStore, LogToStoreFails, KeyOf
<1>3. ASSUME NEW p \in Pollers, Poll(p) PROVE TypeOK'
  <2>t. job[p] \in Jobs
    BY <1>t
  <2>1. ASSUME NEW j \in Jobs, KeyKnown(j), job' = [job EXCEPT ![p] = j],
               UNCHANGED <<window, logging, count, unlogged, reference, predictions, now, life, copies>>,
               lastFired' \in [Keys -> 0..MaxTime \union {None}], raced' \in SUBSET Keys,
               alerts' \in SUBSET AlertRows, sent' \in SUBSET AlertRows, lost' \in SUBSET AlertRows
        PROVE  TypeOK'
    BY <2>1, JobType DEF TypeOK
  <2>2. CASE ReportBegin(p)
    <3>1. [job[p] EXCEPT !.at = "features"] \in Jobs
      BY <2>t DEF Jobs
    <3>2. KeyKnown([job[p] EXCEPT !.at = "features"])
      BY <2>t DEF Jobs, KeyKnown
    <3> QED BY <2>1, <2>2, <3>1, <3>2, <1>t DEF ReportBegin, TypeOK
  <2>3. ASSUME NEW from, NEW to \in {"predictions", "labels", "alert"}, NEW found, Pass(p, from, to, found),
               found \in [Keys -> Severities \union {None}]
        PROVE  TypeOK'
    <3> DEFINE j == [job[p] EXCEPT !.at = to, !.found = found]
    <3>1. j \in Jobs /\ KeyKnown(j)
      BY <2>t, <2>3 DEF Jobs, KeyKnown
    <3>2. job' = [job EXCEPT ![p] = j]
      BY <2>3, <1>t DEF Pass
    <3> HIDE DEF j
    <3> QED BY <2>1, <2>3, <3>1, <3>2 DEF Pass, TypeOK
  <2>4. job[p].found \in [Keys -> Severities \union {None}]
    BY <2>t DEF Jobs
  <2>5. CASE ReadFeatures(p)
    <3> DEFINE found == [k \in Keys |-> IF k \in ToSet(Columns) THEN DataAlert(k, reference, KindsOf(window)) ELSE None]
    <3>1. found \in [Keys -> Severities \union {None}]
      BY VerdictTypes
    <3>2. Pass(p, "features", "predictions", found)
      BY <2>5 DEF ReadFeatures
    <3> HIDE DEF found
    <3> QED BY <3>1, <3>2, <2>3
  <2>6. CASE ReadPredictions(p)
    <3> DEFINE found == [job[p].found EXCEPT !["prediction"] = PredictionVerdict(KindsOf(window))]
    <3>1. found \in [Keys -> Severities \union {None}]
      BY VerdictTypes, <2>4
    <3>2. Pass(p, "predictions", "labels", found)
      BY <2>6 DEF ReadPredictions
    <3> HIDE DEF found
    <3> QED BY <3>1, <3>2, <2>3
  <2>7. CASE ReadLabels(p)
    <3> DEFINE found == [job[p].found EXCEPT !["concept"] = ConceptVerdict(Labelled(KindsOf(window)))]
    <3>1. found \in [Keys -> Severities \union {None}]
      BY VerdictTypes, <2>4
    <3>2. Pass(p, "labels", "alert", found)
      BY <2>7 DEF ReadLabels
    <3> HIDE DEF found
    <3> QED BY <3>1, <3>2, <2>3
  <2>8. CASE ReadFeaturesFails(p) \/ ReadLabelsFails(p) \/ StoreAlertFails(p) \/ Finish(p)
    <3>1. job' = [job EXCEPT ![p] = Idle] /\ Idle \in Jobs /\ KeyKnown(Idle)
      BY <2>8, IdleType DEF ReadFeaturesFails, ReadLabelsFails, Raises, StoreAlertFails, Finish, KeyKnown
    <3>2. StoreAlertFails(p) => RowOf(p) \in AlertRows
      BY AlertingJob DEF StoreAlertFails, TypeOK
    <3>3. sent' \in SUBSET AlertRows /\ lost' \in SUBSET AlertRows
      BY <2>8, <3>2, <2>t DEF TypeOK, Jobs, ReadFeaturesFails, ReadLabelsFails, Raises, StoreAlertFails, Finish
    <3>4. UNCHANGED <<window, logging, count, unlogged, reference, predictions, now, life, copies,
                      lastFired, raced, alerts>>
      BY <2>8 DEF ReadFeaturesFails, ReadLabelsFails, Raises, StoreAlertFails, Finish
    <3> QED BY <2>1, <3>1, <3>3, <3>4 DEF TypeOK
  <2>9. CASE Skip(p)
    <3>1. NextKey(p) \in Jobs /\ KeyKnown(NextKey(p))
      BY <2>9, AlertingJob DEF Skip, KeyKnown
    <3> QED BY <2>1, <2>9, <3>1 DEF Skip, TypeOK
  <2>10. CASE MayAlert(p)
    <3> DEFINE j == [job[p] EXCEPT !.at = "set", !.when = now]
    <3>1. j \in Jobs
      BY <2>t, <1>t DEF Jobs
    <3>2. KeyKnown(j)
      BY <2>10, <2>t DEF MayAlert, KeyKnown, KeyOf, Jobs
    <3>3. job' = [job EXCEPT ![p] = j]
      BY <2>10, <1>t DEF MayAlert
    <3>4. raced' \in SUBSET Keys
      BY <2>10, AlertingJob DEF MayAlert, TypeOK
    <3> HIDE DEF j
    <3> QED BY <2>1, <2>10, <3>1, <3>2, <3>3, <3>4 DEF MayAlert, TypeOK
  <2>11. CASE SetFired(p)
    <3> DEFINE j == [job[p] EXCEPT !.at = "store"]
    <3>1. j \in Jobs
      BY <2>t DEF Jobs
    <3>2. KeyKnown(j)
      BY <2>11, <2>t DEF SetFired, Deciding, KeyKnown, KeyOf, Jobs, TypeOK
    <3>3. job' = [job EXCEPT ![p] = j]
      BY <2>11, <1>t DEF SetFired
    <3>4. lastFired' \in [Keys -> 0..MaxTime \union {None}]
      <4>1. lastFired' = [lastFired EXCEPT ![KeyOf(p)] = job[p].when] /\ job[p].when \in 0..MaxTime
        BY <2>11, <2>t DEF SetFired, Fired, Jobs
      <4> QED BY <4>1 DEF TypeOK
    <3> HIDE DEF j
    <3> QED BY <2>1, <2>11, <3>1, <3>2, <3>3, <3>4 DEF SetFired, TypeOK
  <2>12. CASE StoreAlert(p)
    <3> DEFINE j == [NextKey(p) EXCEPT !.due = @ \union {RowOf(p)}]
    <3>1. RowOf(p) \in AlertRows /\ NextKey(p) \in Jobs /\ NextKey(p).at = "alert"
      BY <2>12, AlertingJob DEF StoreAlert, TypeOK
    <3>2. j \in Jobs /\ KeyKnown(j)
      BY <3>1 DEF Jobs, KeyKnown
    <3>3. job' = [job EXCEPT ![p] = j]
      BY <2>12 DEF StoreAlert
    <3>4. alerts' \in SUBSET AlertRows
      BY <2>12, <3>1 DEF StoreAlert, TypeOK
    <3> HIDE DEF j
    <3> QED BY <2>1, <2>12, <3>2, <3>3, <3>4 DEF StoreAlert, TypeOK
  <2> QED BY <1>3, <2>2, <2>5, <2>6, <2>7, <2>8, <2>9, <2>10, <2>11, <2>12 DEF Poll, Advance
<1>4. CASE UpdateReference \/ Tick
  <2>1. now' \in 0..MaxTime
    BY <1>4, <1>t, BoundAssumption DEF UpdateReference, Tick
  <2> QED BY <1>4, <2>1 DEF TypeOK, UpdateReference, Tick, KeyOf
<1>5. CASE Restart
  <2>1. job' \in [Pollers -> Jobs] /\ \A p \in Pollers : job'[p].at = "idle"
    BY <1>5, IdleType DEF Restart
  <2>2. life' \in 1..MaxCrashes + 1
    BY <1>5, BoundAssumption DEF TypeOK, Restart
  <2>3. lastFired' \in [Keys -> 0..MaxTime \union {None}] /\ logging' \in [Loggers -> Records \union {None}]
        /\ window' \in Seq(Records) /\ Len(window') <= WindowSize
    BY <1>5, SizeAssumption DEF Restart
  <2> QED BY <1>5, <2>1, <2>2, <2>3 DEF TypeOK, Restart
<1>6. CASE ReportCommand
  <2>1. copies' \in 0..MaxReports
    BY <1>6, BoundAssumption DEF TypeOK, ReportCommand
  <2>2. predictions' \in Seq(Records)
    BY <1>6, <1>t, NewestType, SizeAssumption DEF ReportCommand
  <2>3. alerts' \in SUBSET AlertRows
    <3>1. ASSUME NEW ref, NEW rows, NEW k \in Keys, CommandFound(ref, rows)[k] # None
          PROVE  CommandFound(ref, rows)[k] \in Severities
      BY <3>1, VerdictTypes DEF CommandFound
    <3>2. PICK ref \in References :
            LET rows == KindsOf(Newest(predictions, WindowSize))
                found == CommandFound(ref, rows)
            IN  alerts' = IF Untestable(ref, rows) \/ NotNumeric(Labelled(rows)) THEN alerts
                          ELSE alerts \union {[key |-> k, severity |-> found[k], due |-> now, life |-> 0] :
                                                k \in {k \in Keys : found[k] # None}}
      BY <1>6 DEF ReportCommand
    <3> DEFINE found == CommandFound(ref, KindsOf(Newest(predictions, WindowSize)))
    <3>3. ASSUME NEW k \in Keys, found[k] # None
          PROVE  [key |-> k, severity |-> found[k], due |-> now, life |-> 0] \in AlertRows
      BY <3>1, <3>3, <1>t, BoundAssumption DEF AlertRows
    <3> HIDE DEF found
    <3>4. alerts' \subseteq alerts \union {[key |-> k, severity |-> found[k], due |-> now, life |-> 0] :
                                             k \in {k \in Keys : found[k] # None}}
      BY <3>2 DEF found
    <3> QED BY <3>3, <3>4 DEF TypeOK
  <2> QED BY <1>6, <2>1, <2>2, <2>3 DEF TypeOK, ReportCommand, KeyOf
<1>7. CASE UNCHANGED vars
  BY <1>7 DEF TypeOK, vars, KeyOf
<1> QED BY <1>1, <1>2, <1>3, <1>4, <1>5, <1>6, <1>7 DEF Next

(* Every variable keeps its type, the window its size, and a report that   *)
(* is about to alert has a key and a severity (monitor.py:151-196).        *)
THEOREM TypeCorrect == Spec => []TypeOK
BY TypeInit, TypeStep, PTL DEF Spec

-----------------------------------------------------------------------------
(* Alerting: from the look at the deduplicator to the table                *)

Storing(p) == job[p].at = "store"
Apart(a, b) == a - b >= Cooldown \/ b - a >= Cooldown
Current(a, k) == a.key = k /\ a.life = life

\* Two pollers that decide on one key at once are noticed.
OneDecider ==
  \A p, q \in Pollers :
    Deciding(p) /\ Deciding(q) /\ p # q /\ KeyOf(p) = KeyOf(q) => KeyOf(p) \in raced
\* No alert of this process is later than the entry of its key.
FiredIsLast ==
  \A k \in Keys \ raced :
    /\ \A a \in alerts : Current(a, k) => lastFired[k] # None /\ a.due <= lastFired[k]
    /\ \A p \in Pollers : Storing(p) /\ KeyOf(p) = k =>
         lastFired[k] # None /\ job[p].when <= lastFired[k]
\* A poller that decides came after the cooldown of the entry it has seen.
DeciderIsLate ==
  \A p \in Pollers :
    Deciding(p) /\ KeyOf(p) \notin raced =>
      lastFired[KeyOf(p)] = None \/ job[p].when - lastFired[KeyOf(p)] >= Cooldown
\* What is about to be stored is a cooldown away from what is stored.
PendingApart ==
  \A p \in Pollers :
    Storing(p) /\ KeyOf(p) \notin raced =>
      /\ \A a \in alerts : Current(a, KeyOf(p)) => Apart(a.due, job[p].when)
      /\ \A q \in Pollers : Storing(q) /\ q # p /\ KeyOf(q) = KeyOf(p) =>
           Apart(job[q].when, job[p].when)
LivesPast == \A a \in alerts : a.life <= life
DueIsStored == sent \subseteq alerts /\ \A p \in Pollers : job[p].due \subseteq alerts

AlertInv == /\ OneDecider /\ FiredIsLast /\ DeciderIsLate /\ PendingApart /\ LivesPast
            /\ DueIsStored /\ CooldownHolds /\ SilenceIsExplained
AlertParts == /\ OneDecider' /\ FiredIsLast' /\ DeciderIsLate' /\ PendingApart'
              /\ LivesPast' /\ DueIsStored' /\ CooldownHolds' /\ SilenceIsExplained'

(* The types these facts need.                                             *)
LEMMA AlertTypes ==
  ASSUME TypeOK
  PROVE  /\ \A a \in alerts : a.key \in Keys /\ a.due \in Nat /\ a.life \in Nat
         /\ \A p \in Pollers : job[p] \in Jobs /\ job[p].when \in Nat
         /\ \A p \in Pollers : Deciding(p) \/ Storing(p) => KeyOf(p) \in Keys
         /\ \A k \in Keys : lastFired[k] # None => lastFired[k] \in Nat
         /\ now \in Nat /\ life \in Nat /\ Cooldown \in Nat
<1>1. \A a \in alerts : a.key \in Keys /\ a.due \in Nat /\ a.life \in Nat
  BY BoundAssumption DEF TypeOK, AlertRows
<1>2. \A p \in Pollers : job[p] \in Jobs /\ job[p].when \in Nat
  BY BoundAssumption DEF TypeOK, Jobs
<1>3. \A p \in Pollers : Deciding(p) \/ Storing(p) => KeyOf(p) \in Keys
  BY AlertingJob DEF TypeOK, Deciding, Storing
<1>4. \A k \in Keys : lastFired[k] # None => lastFired[k] \in Nat
  BY BoundAssumption DEF TypeOK
<1> QED BY <1>1, <1>2, <1>3, <1>4, BoundAssumption, SizeAssumption DEF TypeOK

(* A step that leaves the table and the deduplicator alone, and every      *)
(* poller that is deciding or storing, and makes nobody decide or store.   *)
Quiet == /\ UNCHANGED <<lastFired, raced, alerts, life>>
         /\ lost \subseteq lost'
         /\ \A p \in Pollers : job'[p] = job[p] \/ (~Deciding(p) /\ ~Storing(p)
                                                    /\ job'[p].at \notin {"set", "store"})
LEMMA QuietStep ==
  ASSUME TypeOK, AlertInv, Quiet, DueIsStored'
  PROVE  AlertParts
<1>1. ASSUME NEW p \in Pollers, Deciding(p)' \/ Storing(p)' PROVE job'[p] = job[p]
  BY <1>1 DEF Quiet, Deciding, Storing
<1>2. ASSUME NEW p \in Pollers, Storing(p) PROVE job'[p] = job[p]
  BY <1>2 DEF Quiet, Storing
<1>3. OneDecider' /\ DeciderIsLate'
  BY <1>1 DEF AlertInv, Quiet, OneDecider, DeciderIsLate, Deciding, KeyOf
<1>4. FiredIsLast' /\ PendingApart'
  BY <1>1 DEF AlertInv, Quiet, FiredIsLast, PendingApart, Storing, KeyOf, Current, Apart
<1>5. LivesPast' /\ CooldownHolds'
  BY DEF AlertInv, Quiet, LivesPast, CooldownHolds
<1>6. SilenceIsExplained'
  BY <1>2 DEF AlertInv, Quiet, SilenceIsExplained, Storing, KeyOf
<1> QED BY <1>3, <1>4, <1>5, <1>6 DEF AlertParts

LEMMA MayAlertStep ==
  ASSUME TypeOK, AlertInv, NEW p \in Pollers, MayAlert(p)
  PROVE  AlertParts
<1> DEFINE k == KeyOf(p)
<1>1. /\ job[p].at = "alert" /\ ~Cooling(k) /\ job[p].key <= Len(Order)
      /\ job' = [job EXCEPT ![p].at = "set", ![p].when = now]
      /\ UNCHANGED <<lastFired, alerts, sent, lost, life>>
      /\ raced' = IF \E q \in Pollers \ {p} : Deciding(q) /\ KeyOf(q) = k
                  THEN raced \union {k} ELSE raced
  BY DEF MayAlert, alerting, clock
<1>2. job \in [Pollers -> Jobs] /\ job[p] \in Jobs /\ k \in Keys
  BY <1>1, AlertingJob DEF TypeOK
<1>3. /\ \A q \in Pollers \ {p} : job'[q] = job[q]
      /\ job'[p].at = "set" /\ job'[p].when = now /\ job'[p].key = job[p].key
      /\ job'[p].due = job[p].due /\ job'[p].found = job[p].found
  BY <1>1, <1>2 DEF Jobs
<1>4. /\ \A q \in Pollers : KeyOf(q)' = KeyOf(q)
      /\ \A q \in Pollers : Storing(q)' <=> Storing(q)
      /\ \A q \in Pollers : Storing(q) => job'[q].when = job[q].when
      /\ \A q \in Pollers : Deciding(q)' <=> Deciding(q) \/ q = p
  BY <1>1, <1>3 DEF KeyOf, Storing, Deciding
<1>5. raced \subseteq raced'
  BY <1>1
<1> HIDE DEF k
<1>6. OneDecider'
  <2> SUFFICES ASSUME NEW q \in Pollers, NEW r \in Pollers,
                      Deciding(q)', Deciding(r)', q # r, KeyOf(q) = KeyOf(r)
               PROVE  KeyOf(q) \in raced'
    BY <1>4 DEF OneDecider
  <2>1. CASE q = p \/ r = p
    BY <1>1, <1>4, <2>1 DEF k
  <2>2. CASE q # p /\ r # p
    BY <1>4, <1>5, <2>2 DEF AlertInv, OneDecider
  <2> QED BY <2>1, <2>2
<1>7. FiredIsLast' /\ PendingApart'
  <2>1. \A q \in Pollers : Storing(q)' => Storing(q) /\ job'[q].when = job[q].when
    BY <1>4
  <2>2. FiredIsLast'
    <3> SUFFICES ASSUME NEW h \in Keys, h \notin raced'
                 PROVE  /\ \A a \in alerts : Current(a, h) => lastFired[h] # None /\ a.due <= lastFired[h]
                        /\ \A q \in Pollers : Storing(q) /\ KeyOf(q) = h =>
                             lastFired[h] # None /\ job[q].when <= lastFired[h]
      BY <1>1, <1>4, <2>1 DEF FiredIsLast, Current
    <3> QED BY <1>5 DEF AlertInv, FiredIsLast
  <2>3. PendingApart'
    <3> SUFFICES ASSUME NEW q \in Pollers, Storing(q)', KeyOf(q)' \notin raced'
                 PROVE  /\ \A a \in alerts' : Current(a, KeyOf(q))' => Apart(a.due, job'[q].when)
                        /\ \A r \in Pollers : Storing(r)' /\ r # q /\ KeyOf(r)' = KeyOf(q)' =>
                             Apart(job'[r].when, job'[q].when)
      BY DEF PendingApart, Apart
    <3>1. Storing(q) /\ KeyOf(q)' = KeyOf(q) /\ job'[q].when = job[q].when /\ KeyOf(q) \notin raced
      BY <1>4, <1>5
    <3>2. \A a \in alerts' : Current(a, KeyOf(q))' => Apart(a.due, job'[q].when)
      BY <1>1, <3>1 DEF AlertInv, PendingApart, Current
    <3>3. \A r \in Pollers : Storing(r)' /\ r # q /\ KeyOf(r)' = KeyOf(q)' =>
            Apart(job'[r].when, job'[q].when)
      BY <1>4, <3>1 DEF AlertInv, PendingApart
    <3> QED BY <3>2, <3>3
  <2> QED BY <2>2, <2>3
<1>8. DeciderIsLate'
  <2> SUFFICES ASSUME NEW q \in Pollers, Deciding(q)', KeyOf(q) \notin raced'
               PROVE  lastFired[KeyOf(q)] = None \/ job'[q].when - lastFired[KeyOf(q)] >= Cooldown
    BY <1>1, <1>4 DEF DeciderIsLate
  <2>1. CASE q = p
    <3>1. lastFired[k] = None \/ lastFired[k] \in Nat
      BY <1>2, AlertTypes
    <3> QED BY <1>1, <1>3, <2>1, <3>1, AlertTypes DEF Cooling, k
  <2>2. CASE q # p
    BY <1>3, <1>4, <1>5, <2>2 DEF AlertInv, DeciderIsLate
  <2> QED BY <2>1, <2>2
<1>9. LivesPast' /\ CooldownHolds'
  BY <1>1, <1>5 DEF AlertInv, LivesPast, CooldownHolds
<1>10. DueIsStored'
  BY <1>1, <1>3 DEF AlertInv, DueIsStored
<1>11. SilenceIsExplained'
  <2> SUFFICES ASSUME NEW h \in Keys, lastFired'[h] # None
               PROVE  \/ \E a \in alerts' \union lost' : a.key = h /\ a.due = lastFired'[h] /\ a.life = life'
                      \/ \E q \in Pollers : Storing(q)' /\ KeyOf(q)' = h /\ job'[q].when = lastFired'[h]
    BY DEF SilenceIsExplained, Storing
  <2>1. CASE \E a \in alerts \union lost : a.key = h /\ a.due = lastFired[h] /\ a.life = life
    BY <1>1, <2>1
  <2>2. CASE \E q \in Pollers : Storing(q) /\ KeyOf(q) = h /\ job[q].when = lastFired[h]
    BY <1>1, <1>4, <2>2
  <2> QED BY <1>1, <2>1, <2>2 DEF AlertInv, SilenceIsExplained, Storing
<1> QED BY <1>6, <1>7, <1>8, <1>9, <1>10, <1>11 DEF AlertParts

LEMMA SetFiredStep ==
  ASSUME TypeOK, AlertInv, NEW p \in Pollers, SetFired(p)
  PROVE  AlertParts
<1> DEFINE k == KeyOf(p)
           t == job[p].when
<1>1. /\ Deciding(p) /\ job' = [job EXCEPT ![p].at = "store"]
      /\ lastFired' = [lastFired EXCEPT ![k] = t]
      /\ UNCHANGED <<alerts, sent, lost, life, raced>>
  BY DEF SetFired, Fired, alerting, clock
<1>2. /\ job \in [Pollers -> Jobs] /\ job[p] \in Jobs /\ k \in Keys /\ t \in Nat
      /\ lastFired \in [Keys -> 0..MaxTime \union {None}]
  BY <1>1, AlertTypes DEF TypeOK
<1>3. /\ \A q \in Pollers \ {p} : job'[q] = job[q]
      /\ job'[p].at = "store" /\ job'[p].when = t /\ job'[p].key = job[p].key
      /\ job'[p].due = job[p].due
  BY <1>1, <1>2 DEF Jobs
<1>4. /\ \A q \in Pollers : KeyOf(q)' = KeyOf(q)
      /\ \A q \in Pollers : job'[q].when = job[q].when
      /\ \A q \in Pollers : Storing(q)' <=> Storing(q) \/ q = p
      /\ \A q \in Pollers : Deciding(q)' <=> Deciding(q) /\ q # p
      /\ ~Storing(p)
  BY <1>1, <1>3 DEF KeyOf, Storing, Deciding
<1>5. /\ lastFired'[k] = t /\ t # None
      /\ \A h \in Keys : h # k => lastFired'[h] = lastFired[h]
  BY <1>1, <1>2, NoneAssumption
<1> HIDE DEF k, t
<1>6. ASSUME k \notin raced
      PROVE  /\ \A a \in alerts : Current(a, k) => a.due <= t /\ Apart(a.due, t)
             /\ \A q \in Pollers : Storing(q) /\ KeyOf(q) = k =>
                  job[q].when <= t /\ Apart(job[q].when, t)
  <2>1. lastFired[k] = None \/ t - lastFired[k] >= Cooldown
    BY <1>1, <1>6 DEF AlertInv, DeciderIsLate, k, t
  <2>2. lastFired[k] = None \/ lastFired[k] \in Nat
    BY <1>2, AlertTypes
  <2>3. ASSUME NEW x \in Nat, lastFired[k] # None, x <= lastFired[k] PROVE x <= t /\ Apart(x, t)
    BY <2>1, <2>2, <2>3, <1>2, AlertTypes DEF Apart
  <2>4. \A a \in alerts : Current(a, k) => lastFired[k] # None /\ a.due <= lastFired[k]
    BY <1>2, <1>6 DEF AlertInv, FiredIsLast
  <2>5. \A q \in Pollers : Storing(q) /\ KeyOf(q) = k => lastFired[k] # None /\ job[q].when <= lastFired[k]
    BY <1>2, <1>6 DEF AlertInv, FiredIsLast
  <2> QED BY <2>3, <2>4, <2>5, AlertTypes
<1>7. OneDecider'
  BY <1>1, <1>4 DEF AlertInv, OneDecider
<1>8. FiredIsLast'
  <2> SUFFICES ASSUME NEW h \in Keys, h \notin raced
               PROVE  /\ \A a \in alerts : Current(a, h) => lastFired'[h] # None /\ a.due <= lastFired'[h]
                      /\ \A q \in Pollers : Storing(q)' /\ KeyOf(q) = h =>
                           lastFired'[h] # None /\ job[q].when <= lastFired'[h]
    BY <1>1, <1>4 DEF FiredIsLast, Current
  <2>1. CASE h = k
    BY <1>2, <1>4, <1>5, <1>6, <2>1 DEF t
  <2>2. CASE h # k
    BY <1>4, <1>5, <2>2 DEF AlertInv, FiredIsLast, k
  <2> QED BY <2>1, <2>2
<1>9. DeciderIsLate'
  <2> SUFFICES ASSUME NEW q \in Pollers, Deciding(q), q # p, KeyOf(q) \notin raced
               PROVE  lastFired'[KeyOf(q)] = None \/ job[q].when - lastFired'[KeyOf(q)] >= Cooldown
    BY <1>1, <1>4 DEF DeciderIsLate
  <2>1. KeyOf(q) # k /\ KeyOf(q) \in Keys
    BY <1>1, AlertTypes DEF AlertInv, OneDecider, k
  <2> QED BY <1>5, <2>1 DEF AlertInv, DeciderIsLate
<1>10. PendingApart'
  <2> SUFFICES ASSUME NEW q \in Pollers, Storing(q)', KeyOf(q) \notin raced
               PROVE  /\ \A a \in alerts : Current(a, KeyOf(q)) => Apart(a.due, job[q].when)
                      /\ \A r \in Pollers : Storing(r)' /\ r # q /\ KeyOf(r) = KeyOf(q) =>
                           Apart(job[r].when, job[q].when)
    BY <1>1, <1>4 DEF PendingApart, Current, Apart
  <2>1. CASE q = p
    BY <1>4, <1>6, <2>1 DEF k, t
  <2>2. CASE q # p
    <3>1. Storing(q)
      BY <1>4, <2>2
    <3>2. ASSUME NEW r \in Pollers, r = p, KeyOf(r) = KeyOf(q) PROVE Apart(job[r].when, job[q].when)
      BY <1>6, <3>1, <3>2 DEF k, t, Apart
    <3> QED BY <1>4, <3>1, <3>2 DEF AlertInv, PendingApart
  <2> QED BY <2>1, <2>2
<1>11. LivesPast' /\ CooldownHolds'
  BY <1>1 DEF AlertInv, LivesPast, CooldownHolds
<1>12. DueIsStored'
  BY <1>1, <1>3 DEF AlertInv, DueIsStored
<1>13. SilenceIsExplained'
  <2> SUFFICES ASSUME NEW h \in Keys, lastFired'[h] # None
               PROVE  \/ \E a \in alerts \union lost : a.key = h /\ a.due = lastFired'[h] /\ a.life = life
                      \/ \E q \in Pollers : Storing(q)' /\ KeyOf(q) = h /\ job[q].when = lastFired'[h]
    BY <1>1, <1>4 DEF SilenceIsExplained, Storing
  <2>1. CASE h = k
    BY <1>4, <1>5, <2>1 DEF k, t
  <2>2. CASE h # k
    BY <1>4, <1>5, <2>2 DEF AlertInv, SilenceIsExplained, Storing
  <2> QED BY <2>1, <2>2
<1> QED BY <1>7, <1>8, <1>9, <1>10, <1>11, <1>12, <1>13 DEF AlertParts

LEMMA StoreAlertStep ==
  ASSUME TypeOK, AlertInv, NEW p \in Pollers, StoreAlert(p)
  PROVE  AlertParts
<1> DEFINE k == KeyOf(p)
           new == RowOf(p)
<1>1. /\ Storing(p) /\ job' = [job EXCEPT ![p] = [NextKey(p) EXCEPT !.due = @ \union {new}]]
      /\ alerts' = alerts \union {new}
      /\ UNCHANGED <<lastFired, sent, lost, life, raced>>
  BY DEF StoreAlert, Storing, dedup, clock
<1>2. k \in Keys /\ job \in [Pollers -> Jobs]
  BY <1>1, AlertTypes DEF TypeOK
<1>3. /\ \A q \in Pollers \ {p} : job'[q] = job[q]
      /\ job'[p].at = "alert" /\ job'[p].due = job[p].due \union {new}
  BY <1>1, <1>2 DEF NextKey
<1>4. \A q \in Pollers : Storing(q)' \/ Deciding(q)' =>
        q # p /\ job'[q] = job[q] /\ KeyOf(q)' = KeyOf(q)
              /\ (Storing(q)' <=> Storing(q)) /\ (Deciding(q)' <=> Deciding(q))
  BY <1>3 DEF KeyOf, Storing, Deciding
<1>5. new.key = k /\ new.due = job[p].when /\ new.life = life
  BY DEF RowOf
<1> HIDE DEF k, new
<1>6. OneDecider' /\ DeciderIsLate'
  BY <1>1, <1>4 DEF AlertInv, OneDecider, DeciderIsLate
<1>7. FiredIsLast'
  <2> SUFFICES ASSUME NEW h \in Keys, h \notin raced
               PROVE  /\ \A a \in alerts' : Current(a, h) => lastFired[h] # None /\ a.due <= lastFired[h]
                      /\ \A q \in Pollers : Storing(q)' /\ KeyOf(q)' = h =>
                           lastFired[h] # None /\ job'[q].when <= lastFired[h]
    BY <1>1 DEF FiredIsLast, Current
  <2>1. Current(new, h) => lastFired[h] # None /\ new.due <= lastFired[h]
    BY <1>1, <1>5 DEF AlertInv, FiredIsLast, Current, k
  <2> QED BY <1>1, <1>4, <2>1 DEF AlertInv, FiredIsLast
<1>8. PendingApart'
  <2> SUFFICES ASSUME NEW q \in Pollers, Storing(q)', KeyOf(q)' \notin raced
               PROVE  /\ \A a \in alerts' : Current(a, KeyOf(q)') => Apart(a.due, job'[q].when)
                      /\ \A r \in Pollers : Storing(r)' /\ r # q /\ KeyOf(r)' = KeyOf(q)' =>
                           Apart(job'[r].when, job'[q].when)
    BY <1>1 DEF PendingApart, Current, Apart
  <2>1. q # p /\ Storing(q) /\ KeyOf(q)' = KeyOf(q) /\ job'[q].when = job[q].when
    BY <1>4
  <2>2. Current(new, KeyOf(q)) => Apart(new.due, job[q].when)
    BY <1>1, <1>5, <2>1 DEF AlertInv, PendingApart, Current, k
  <2>3. \A a \in alerts' : Current(a, KeyOf(q)') => Apart(a.due, job'[q].when)
    BY <1>1, <2>1, <2>2 DEF AlertInv, PendingApart
  <2>4. \A r \in Pollers : Storing(r)' /\ r # q /\ KeyOf(r)' = KeyOf(q)' =>
          Apart(job'[r].when, job'[q].when)
    BY <1>4, <2>1 DEF AlertInv, PendingApart
  <2> QED BY <2>3, <2>4
<1>9. LivesPast'
  BY <1>1, <1>5, AlertTypes DEF AlertInv, LivesPast
<1>10. DueIsStored'
  BY <1>1, <1>3 DEF AlertInv, DueIsStored
<1>11. CooldownHolds'
  <2> SUFFICES ASSUME NEW h \in Keys \ raced, NEW a \in alerts', NEW b \in alerts',
                      Current(a, h), Current(b, h), a # b
               PROVE  Apart(a.due, b.due)
    BY <1>1 DEF CooldownHolds, Current, Apart
  <2>1. \A c \in alerts : Current(c, k) /\ k \notin raced => Apart(c.due, new.due)
    BY <1>1, <1>5 DEF AlertInv, PendingApart, k
  <2>2. CASE a \in alerts /\ b \in alerts
    BY <2>2 DEF AlertInv, CooldownHolds, Current, Apart
  <2>3. CASE a = new \/ b = new
    BY <1>1, <1>5, <2>1, <2>3 DEF Current, Apart
  <2> QED BY <1>1, <2>2, <2>3
<1>12. SilenceIsExplained'
  <2> SUFFICES ASSUME NEW h \in Keys, lastFired[h] # None
               PROVE  \/ \E a \in alerts' \union lost : a.key = h /\ a.due = lastFired[h] /\ a.life = life
                      \/ \E q \in Pollers : Storing(q)' /\ KeyOf(q)' = h /\ job'[q].when = lastFired[h]
    BY <1>1 DEF SilenceIsExplained, Storing
  <2>1. CASE \E a \in alerts \union lost : a.key = h /\ a.due = lastFired[h] /\ a.life = life
    BY <1>1, <2>1
  <2>2. ASSUME NEW q \in Pollers, Storing(q), KeyOf(q) = h, job[q].when = lastFired[h]
        PROVE  \/ \E a \in alerts' \union lost : a.key = h /\ a.due = lastFired[h] /\ a.life = life
               \/ Storing(q)' /\ KeyOf(q)' = h /\ job'[q].when = lastFired[h]
    <3>1. CASE q = p
      BY <1>1, <1>5, <2>2, <3>1 DEF k
    <3>2. CASE q # p
      BY <1>3, <2>2, <3>2 DEF Storing, KeyOf
    <3> QED BY <3>1, <3>2
  <2> QED BY <2>1, <2>2 DEF AlertInv, SilenceIsExplained, Storing
<1> QED BY <1>6, <1>7, <1>8, <1>9, <1>10, <1>11, <1>12 DEF AlertParts

(* The INSERT fails: the row counts as lost, and the poller is idle.       *)
LEMMA StoreAlertFailsStep ==
  ASSUME TypeOK, AlertInv, NEW p \in Pollers, StoreAlertFails(p)
  PROVE  AlertParts
<1> DEFINE new == RowOf(p)
<1>1. /\ Storing(p) /\ job' = [job EXCEPT ![p] = Idle] /\ lost' = lost \union {new}
      /\ UNCHANGED <<lastFired, alerts, sent, life, raced>>
  BY DEF StoreAlertFails, Storing, dedup, clock
<1>2. job \in [Pollers -> Jobs]
  BY DEF TypeOK
<1>3. (\A q \in Pollers \ {p} : job'[q] = job[q]) /\ job'[p] = Idle
  BY <1>1, <1>2
<1>4. \A q \in Pollers : Storing(q)' \/ Deciding(q)' =>
        q # p /\ job'[q] = job[q] /\ KeyOf(q)' = KeyOf(q)
              /\ (Storing(q)' <=> Storing(q)) /\ (Deciding(q)' <=> Deciding(q))
  BY <1>3, IdleType DEF KeyOf, Storing, Deciding
<1>5. new.key = KeyOf(p) /\ new.due = job[p].when /\ new.life = life
  BY DEF RowOf
<1> HIDE DEF new
<1>6. OneDecider' /\ DeciderIsLate'
  BY <1>1, <1>4 DEF AlertInv, OneDecider, DeciderIsLate
<1>7. FiredIsLast'
  BY <1>1, <1>4 DEF AlertInv, FiredIsLast, Current
<1>8. PendingApart'
  BY <1>1, <1>4 DEF AlertInv, PendingApart, Current, Apart
<1>9. LivesPast' /\ CooldownHolds'
  BY <1>1 DEF AlertInv, LivesPast, CooldownHolds
<1>10. DueIsStored'
  BY <1>1, <1>3, IdleType DEF AlertInv, DueIsStored
<1>11. SilenceIsExplained'
  <2> SUFFICES ASSUME NEW h \in Keys, lastFired[h] # None
               PROVE  \/ \E a \in alerts \union lost' : a.key = h /\ a.due = lastFired[h] /\ a.life = life
                      \/ \E q \in Pollers : Storing(q)' /\ KeyOf(q)' = h /\ job'[q].when = lastFired[h]
    BY <1>1 DEF SilenceIsExplained, Storing
  <2>1. CASE \E a \in alerts \union lost : a.key = h /\ a.due = lastFired[h] /\ a.life = life
    BY <1>1, <2>1
  <2>2. ASSUME NEW q \in Pollers, Storing(q), KeyOf(q) = h, job[q].when = lastFired[h]
        PROVE  \/ \E a \in alerts \union lost' : a.key = h /\ a.due = lastFired[h] /\ a.life = life
               \/ Storing(q)' /\ KeyOf(q)' = h /\ job'[q].when = lastFired[h]
    <3>1. CASE q = p
      BY <1>1, <1>5, <2>2, <3>1
    <3>2. CASE q # p
      BY <1>3, <2>2, <3>2 DEF Storing, KeyOf
    <3> QED BY <3>1, <3>2
  <2> QED BY <2>1, <2>2 DEF AlertInv, SilenceIsExplained, Storing
<1> QED BY <1>6, <1>7, <1>8, <1>9, <1>10, <1>11 DEF AlertParts

(* A new process has a deduplicator that knows nothing.                    *)
LEMMA RestartStep ==
  ASSUME TypeOK, AlertInv, Restart
  PROVE  AlertParts
<1>1. /\ life' = life + 1 /\ lastFired' = [k \in Keys |-> None] /\ raced' = {}
      /\ job' = [p \in Pollers |-> Idle]
      /\ UNCHANGED <<alerts, sent, lost>>
  BY DEF Restart, alerting
<1>2. \A q \in Pollers : ~Storing(q)' /\ ~Deciding(q)' /\ job'[q].due = {}
  BY <1>1, IdleType DEF Storing, Deciding
<1>3. \A a \in alerts : a.life < life'
  BY <1>1, AlertTypes DEF AlertInv, LivesPast
<1>4. \A a \in alerts : \A k : ~(a.key = k /\ a.life = life')
  BY <1>1, <1>3, AlertTypes
<1>5. OneDecider' /\ DeciderIsLate' /\ PendingApart'
  BY <1>2 DEF OneDecider, DeciderIsLate, PendingApart
<1>6. FiredIsLast' /\ CooldownHolds'
  BY <1>1, <1>2, <1>4 DEF FiredIsLast, CooldownHolds, Current
<1>7. LivesPast'
  BY <1>1, <1>3, AlertTypes DEF LivesPast
<1>8. DueIsStored'
  BY <1>1, <1>2 DEF AlertInv, DueIsStored
<1>9. SilenceIsExplained'
  BY <1>1 DEF SilenceIsExplained
<1> QED BY <1>5, <1>6, <1>7, <1>8, <1>9 DEF AlertParts

(* The report command's alerts are of no process (life 0).                 *)
LEMMA ReportCommandStep ==
  ASSUME TypeOK, AlertInv, ReportCommand
  PROVE  AlertParts
<1>1. UNCHANGED <<lastFired, raced, job, life, sent, lost>>
  BY DEF ReportCommand, dedup, clock
<1>2. /\ alerts \subseteq alerts'
      /\ \A a \in alerts' : a \in alerts \/ a.life = 0
  BY DEF ReportCommand
<1>3. life \in Nat /\ life # 0
  BY BoundAssumption DEF TypeOK
<1>4. \A a \in alerts' : a.life = life => a \in alerts
  BY <1>2, <1>3
<1>5. OneDecider' /\ DeciderIsLate'
  BY <1>1 DEF AlertInv, OneDecider, DeciderIsLate, Deciding, KeyOf
<1>6. FiredIsLast' /\ PendingApart'
  BY <1>1, <1>4 DEF AlertInv, FiredIsLast, PendingApart, Current, Apart, Storing, KeyOf
<1>7. LivesPast'
  BY <1>1, <1>2, <1>3 DEF AlertInv, LivesPast
<1>8. DueIsStored'
  BY <1>1, <1>2 DEF AlertInv, DueIsStored
<1>9. CooldownHolds'
  BY <1>1, <1>4 DEF AlertInv, CooldownHolds
<1>10. SilenceIsExplained'
  BY <1>1, <1>2 DEF AlertInv, SilenceIsExplained, KeyOf
<1> QED BY <1>5, <1>6, <1>7, <1>8, <1>9, <1>10 DEF AlertParts

LEMMA AlertStep == TypeOK /\ AlertInv /\ [Next]_vars => AlertInv'
<1> SUFFICES ASSUME TypeOK, AlertInv, [Next]_vars PROVE AlertParts
  BY DEF AlertInv, AlertParts
<1> USE DEF logged, dedup, alerting, clock
<1>t. job \in [Pollers -> Jobs]
  BY DEF TypeOK
<1>1. ASSUME NEW t \in Loggers, LogToWindow(t) PROVE AlertParts
  <2>1. PICK hit \in SUBSET {p \in Pollers : job[p].at \in Reading} :
          job' = [p \in Pollers |-> IF p \in hit THEN Idle ELSE job[p]]
    BY <1>1 DEF LogToWindow
  <2>2. \A p \in Pollers : job'[p] = job[p] \/ (job[p].at \in Reading /\ job'[p] = Idle)
    BY <2>1
  <2>3. Quiet
    BY <1>1, <2>2, IdleType DEF Quiet, LogToWindow, Reading, Deciding, Storing
  <2>4. DueIsStored'
    BY <1>1, <2>2, IdleType DEF LogToWindow, AlertInv, DueIsStored
  <2> QED BY <2>3, <2>4, QuietStep
<1>2. CASE \/ \E t \in Loggers : LogToStore(t) \/ LogToStoreFails(t)
           \/ UpdateReference \/ Tick \/ UNCHANGED vars
  <2>1. UNCHANGED <<lastFired, raced, alerts, life, lost, sent, job>>
    BY <1>2 DEF LogToStore, LogToStoreFails, UpdateReference, Tick, vars
  <2>2. Quiet /\ DueIsStored'
    BY <2>1 DEF Quiet, AlertInv, DueIsStored
  <2> QED BY <2>2, QuietStep
<1>3. ASSUME NEW p \in Pollers,
             \/ ReportBegin(p) \/ ReadFeatures(p) \/ ReadPredictions(p) \/ ReadLabels(p)
             \/ ReadFeaturesFails(p) \/ ReadLabelsFails(p) \/ Skip(p) \/ Finish(p)
      PROVE  AlertParts
  <2>1. /\ UNCHANGED <<lastFired, raced, alerts, life, lost>>
        /\ sent' \in {sent, sent \union job[p].due}
    BY <1>3 DEF ReportBegin, ReadFeatures, ReadPredictions, ReadLabels, Pass, Skip,
       ReadFeaturesFails, ReadLabelsFails, Raises, Finish
  <2>2. /\ job[p].at \notin {"set", "store"} /\ \A q \in Pollers \ {p} : job'[q] = job[q]
        /\ job'[p].at \notin {"set", "store"}
        /\ job'[p].due \in {job[p].due, {}}
    <3>1. CASE ReportBegin(p)
      BY <3>1, <1>t DEF ReportBegin, Jobs
    <3>2. CASE ReadFeatures(p) \/ ReadPredictions(p) \/ ReadLabels(p)
      BY <3>2, <1>t DEF ReadFeatures, ReadPredictions, ReadLabels, Pass, Jobs
    <3>3. CASE ReadFeaturesFails(p) \/ ReadLabelsFails(p) \/ Finish(p)
      BY <3>3, <1>t, IdleType DEF ReadFeaturesFails, ReadLabelsFails, Raises, Finish
    <3>4. CASE Skip(p)
      BY <3>4, <1>t DEF Skip, NextKey
    <3> QED BY <1>3, <3>1, <3>2, <3>3, <3>4
  <2>3. Quiet
    BY <2>1, <2>2 DEF Quiet, Deciding, Storing
  <2>4. DueIsStored'
    BY <2>1, <2>2 DEF AlertInv, DueIsStored
  <2> QED BY <2>3, <2>4, QuietStep
<1>4. ASSUME NEW p \in Pollers, MayAlert(p) \/ SetFired(p) \/ StoreAlert(p) \/ StoreAlertFails(p)
      PROVE  AlertParts
  BY <1>4, MayAlertStep, SetFiredStep, StoreAlertStep, StoreAlertFailsStep
<1>5. CASE Restart \/ ReportCommand
  BY <1>5, RestartStep, ReportCommandStep
<1> QED BY <1>1, <1>2, <1>3, <1>4, <1>5 DEF Next, Poll, Advance

LEMMA AlertInit == Init => AlertInv
<1> SUFFICES ASSUME Init PROVE AlertInv
  OBVIOUS
<1>1. alerts = {} /\ sent = {} /\ lastFired = [k \in Keys |-> None]
      /\ \A p \in Pollers : ~Deciding(p) /\ ~Storing(p) /\ job[p].due = {}
  BY IdleType DEF Init, Deciding, Storing
<1>2. OneDecider /\ FiredIsLast /\ DeciderIsLate /\ PendingApart
  BY <1>1 DEF OneDecider, FiredIsLast, DeciderIsLate, PendingApart
<1>3. LivesPast /\ DueIsStored /\ CooldownHolds /\ SilenceIsExplained
  BY <1>1 DEF LivesPast, DueIsStored, CooldownHolds, SilenceIsExplained
<1> QED BY <1>2, <1>3 DEF AlertInv

LEMMA AlertsInvariant == Spec => []AlertInv
BY TypeInit, TypeStep, AlertInit, AlertStep, PTL DEF Spec

(* One process never records two alerts of a key closer together than the  *)
(* cooldown, whatever fails or restarts, unless two polls were between the *)
(* look at the deduplicator and the entry into it at once                  *)
(* (deduplicator.py:12-19).                                                *)
THEOREM CooldownIsKept == Spec => []CooldownHolds
<1>1. AlertInv => CooldownHolds
  BY DEF AlertInv
<1> QED BY <1>1, AlertsInvariant, PTL

(* A key that is silenced has its alert in the table, is about to have it, *)
(* or its INSERT has failed (monitor.py:160-165).                          *)
THEOREM SilenceHasAReason == Spec => []SilenceIsExplained
<1>1. AlertInv => SilenceIsExplained
  BY DEF AlertInv
<1> QED BY <1>1, AlertsInvariant, PTL

(* What a webhook gets, the table holds (monitor.py:165 before 192-196).   *)
THEOREM OnlyStoredIsSent == Spec => []SentWasStored
<1>1. AlertInv => SentWasStored
  BY DEF AlertInv, DueIsStored, SentWasStored
<1> QED BY <1>1, AlertsInvariant, PTL

-----------------------------------------------------------------------------
(* The window and the table                                                *)

LEMMA NewestElements ==
  ASSUME NEW S, NEW s \in Seq(S), NEW n \in Nat
  PROVE  LET m == Newest(s, n)
         IN  /\ Len(m) = IF Len(s) <= n THEN Len(s) ELSE n
             /\ \A k \in 1..Len(m) : m[k] = s[Len(s) - Len(m) + k]
<1>1. CASE Len(s) <= n
  BY <1>1 DEF Newest
<1>2. CASE Len(s) > n
  <2>1. Newest(s, n) = SubSeq(s, Len(s) - n + 1, Len(s))
    BY <1>2 DEF Newest
  <2>2. Len(s) \in Nat /\ \A i \in 1..Len(s) : s[i] \in S
    OBVIOUS
  <2>3. Len(SubSeq(s, Len(s) - n + 1, Len(s))) = n
    BY <1>2, <2>2
  <2>4. \A k \in 1..n : SubSeq(s, Len(s) - n + 1, Len(s))[k] = s[Len(s) - n + k]
    BY <1>2, <2>2
  <2> QED BY <1>2, <2>1, <2>2, <2>3, <2>4
<1> QED BY <1>1, <1>2

(* What has less than n behind it is among the newest n.                   *)
LEMMA AmongNewest ==
  ASSUME NEW S, NEW s \in Seq(S), NEW n \in Nat, NEW i \in 1..Len(s), Len(s) - i < n
  PROVE  s[i] \in ToSet(Newest(s, n))
<1> DEFINE m == Newest(s, n)
           k == i - (Len(s) - Len(m))
<1>1. /\ m \in Seq(S) /\ Len(m) = IF Len(s) <= n THEN Len(s) ELSE n
      /\ \A j \in 1..Len(m) : m[j] = s[Len(s) - Len(m) + j]
  BY NewestType, NewestElements
<1>2. Len(s) \in Nat /\ Len(m) \in Nat
  BY <1>1
<1> HIDE DEF m
<1>3. k \in 1..Len(m) /\ Len(s) - Len(m) + k = i
  <2>1. CASE Len(s) <= n
    BY <1>1, <1>2, <2>1
  <2>2. CASE Len(s) > n
    <3>1. Len(m) = n
      BY <1>1, <1>2, <2>2
    <3> QED BY <1>2, <2>2, <3>1
  <2> QED BY <1>2, <2>1, <2>2
<1>4. m[k] = s[i]
  BY <1>1, <1>3
<1> QED BY <1>1, <1>3, <1>4 DEF ToSet, m

Waiting(t) == logging[t] # None

\* The window is the newest records, without a gap.
NoGap == \A k \in DOMAIN window : window[k].id = count - Len(window) + k
\* Its records have been stored, or are being, or their INSERT has failed.
Accounted ==
  \A r \in ToSet(window) :
    (\E t \in Loggers : logging[t] = r) \/ r \in ToSet(predictions) \union unlogged
\* Every record is stored once, or will be.
StoredOnce ==
  /\ \A i \in DOMAIN predictions : predictions[i].id <= count
  /\ \A t \in Loggers : Waiting(t) => logging[t].id <= count
  /\ \A i, j \in DOMAIN predictions : predictions[i].id = predictions[j].id => i = j
  /\ \A t, u \in Loggers : Waiting(t) /\ Waiting(u) /\ logging[t].id = logging[u].id => t = u
  /\ \A i \in DOMAIN predictions, t \in Loggers : Waiting(t) => predictions[i].id # logging[t].id

\* The older records that come after row i in the table, and those that may
\* still do: one for each of the other loggers at most.
Behind(i) == {j \in DOMAIN predictions : i < j /\ predictions[j].id < predictions[i].id}
Overtaken(i) == {t \in Loggers : Waiting(t) /\ logging[t].id < predictions[i].id}
FewOvertaken ==
  \A i \in DOMAIN predictions :
    Cardinality(Behind(i)) + Cardinality(Overtaken(i)) < Cardinality(Loggers)

WindowInv == NoGap /\ Accounted /\ (copies = 0 => StoredOnce /\ FewOvertaken)

LEMMA WindowTypes ==
  ASSUME TypeOK
  PROVE  /\ window \in Seq(Records) /\ predictions \in Seq(Records)
         /\ Len(window) \in Nat /\ Len(predictions) \in Nat /\ Len(window) <= WindowSize
         /\ DOMAIN window = 1..Len(window) /\ DOMAIN predictions = 1..Len(predictions)
         /\ \A i \in DOMAIN window : window[i] \in Records
         /\ \A i \in DOMAIN predictions : predictions[i] \in Records
         /\ \A t \in Loggers : Waiting(t) => logging[t] \in Records
         /\ \A r \in Records : r.id \in Nat /\ r # None
         /\ count \in Nat
<1>1. window \in Seq(Records) /\ predictions \in Seq(Records) /\ Len(window) <= WindowSize
  BY DEF TypeOK
<1>2. /\ Len(window) \in Nat /\ DOMAIN window = 1..Len(window)
      /\ \A i \in DOMAIN window : window[i] \in Records
  BY <1>1
<1>3. /\ Len(predictions) \in Nat /\ DOMAIN predictions = 1..Len(predictions)
      /\ \A i \in DOMAIN predictions : predictions[i] \in Records
  BY <1>1
<1>4. \A t \in Loggers : Waiting(t) => logging[t] \in Records
  BY DEF TypeOK, Waiting
<1>5. \A r \in Records : r.id \in Nat /\ r # None
  BY BoundAssumption, NoneAssumption DEF Records
<1>6. count \in Nat
  BY BoundAssumption DEF TypeOK
<1> QED BY <1>1, <1>2, <1>3, <1>4, <1>5, <1>6

LEMMA IntervalCount ==
  \A a, b \in Nat : a <= b + 1 => IsFiniteSet(a..b) /\ Cardinality(a..b) = b - a + 1
<1> SUFFICES ASSUME NEW a \in Nat, NEW b \in Nat, a <= b + 1
             PROVE  IsFiniteSet(a..b) /\ Cardinality(a..b) = b - a + 1
  OBVIOUS
<1>1. IsFiniteSet(a..b) /\ Cardinality(a..b) = IF a > b THEN 0 ELSE b - a + 1
  BY FS_Interval
<1>2. CASE a > b
  BY <1>1, <1>2
<1>3. CASE ~(a > b)
  BY <1>1, <1>3
<1> QED BY <1>2, <1>3

LEMMA FiniteCounts ==
  ASSUME TypeOK, NEW i
  PROVE  /\ IsFiniteSet(Behind(i)) /\ Cardinality(Behind(i)) \in Nat
         /\ IsFiniteSet(Overtaken(i)) /\ Cardinality(Overtaken(i)) \in Nat
         /\ Cardinality(Loggers) \in Nat
<1>1. IsFiniteSet(1..Len(predictions))
  BY WindowTypes, FS_Interval
<1>2. Behind(i) \subseteq 1..Len(predictions) /\ Overtaken(i) \subseteq Loggers
  BY WindowTypes DEF Behind, Overtaken
<1>3. IsFiniteSet(Behind(i)) /\ IsFiniteSet(Overtaken(i))
  BY <1>1, <1>2, LoggerAssumption, FS_Subset
<1> QED BY <1>3, LoggerAssumption, FS_CardinalityType

(* How many rows come after one that is in the window.                     *)
LEMMA FewLater ==
  ASSUME TypeOK, WindowInv, copies = 0, NEW k \in DOMAIN window, NEW i \in DOMAIN predictions,
         predictions[i] = window[k]
  PROVE  Len(predictions) - i < WindowSize + Cardinality(Loggers) - 1
<1> DEFINE n == Len(predictions)
           id == predictions[i].id
           Later == {j \in DOMAIN predictions : i < j /\ id < predictions[j].id}
           f == [j \in Later |-> predictions[j].id]
<1>1. /\ n \in Nat /\ DOMAIN predictions = 1..n /\ i \in 1..n /\ id \in Nat /\ count \in Nat
      /\ \A j \in 1..n : predictions[j].id \in Nat
      /\ WindowSize \in Nat /\ k \in 1..Len(window) /\ Len(window) \in Nat /\ Len(window) <= WindowSize
  BY WindowTypes, SizeAssumption
<1>2. StoredOnce /\ FewOvertaken
  BY DEF WindowInv
<1>3. count - id = Len(window) - k
  BY <1>1 DEF WindowInv, NoGap
<1>4. (i + 1)..n = Behind(i) \union Later /\ Behind(i) \intersect Later = {}
  BY <1>1, <1>2 DEF Behind, StoredOnce
<1>5. IsFiniteSet((i + 1)..n) /\ Cardinality((i + 1)..n) = n - i
  <2>1. i + 1 \in Nat /\ i + 1 <= n + 1
    BY <1>1
  <2>2. IsFiniteSet((i + 1)..n) /\ Cardinality((i + 1)..n) = n - (i + 1) + 1
    BY <1>1, <2>1, IntervalCount
  <2> QED BY <1>1, <2>2
<1>6. IsFiniteSet(Later) /\ Cardinality(Later) <= WindowSize - 1 /\ Cardinality(Later) \in Nat
  <2>1. IsFiniteSet((id + 1)..count) /\ Cardinality((id + 1)..count) <= WindowSize - 1
    <3>1. id + 1 \in Nat /\ id + 1 <= count + 1
      BY <1>1, <1>3
    <3>2. IsFiniteSet((id + 1)..count) /\ Cardinality((id + 1)..count) = count - (id + 1) + 1
      BY <1>1, <3>1, IntervalCount
    <3> HIDE DEF id
    <3> QED BY <1>1, <1>3, <3>2
  <2>2. f \in Injection(Later, (id + 1)..count)
    <3>1. f \in [Later -> (id + 1)..count]
      BY <1>1, <1>2 DEF StoredOnce
    <3>2. \A a, b \in Later : f[a] = f[b] => a = b
      BY <1>2 DEF StoredOnce
    <3> QED BY <3>1, <3>2 DEF Injection, IsInjective
  <2>3. IsFiniteSet(Later) /\ Cardinality(Later) <= Cardinality((id + 1)..count)
    BY <2>1, <2>2, FS_Injection
  <2>4. Cardinality(Later) \in Nat /\ Cardinality((id + 1)..count) \in Nat
    BY <2>1, <2>3, FS_CardinalityType
  <2> QED BY <1>1, <2>1, <2>3, <2>4
<1>7. Cardinality(Behind(i) \union Later) = Cardinality(Behind(i)) + Cardinality(Later)
  <2>1. Cardinality(Behind(i) \union Later)
          = Cardinality(Behind(i)) + Cardinality(Later) - Cardinality(Behind(i) \intersect Later)
    BY <1>6, FiniteCounts, FS_Union
  <2>2. Cardinality(Behind(i) \intersect Later) = 0
    BY <1>4, FS_EmptySet
  <2>3. Cardinality(Behind(i)) \in Nat
    BY FiniteCounts
  <2> HIDE DEF Later
  <2> QED BY <1>6, <2>1, <2>2, <2>3
<1>8. Cardinality(Behind(i)) < Cardinality(Loggers)
  BY <1>2, FiniteCounts DEF FewOvertaken
<1>9. Cardinality(Behind(i)) \in Nat /\ Cardinality(Loggers) \in Nat
  BY FiniteCounts
<1>10. n - i = Cardinality(Behind(i)) + Cardinality(Later)
  BY <1>4, <1>5, <1>7
<1> HIDE DEF Later
<1> QED BY <1>1, <1>6, <1>8, <1>9, <1>10

LEMMA LogToWindowStep ==
  ASSUME TypeOK, WindowInv, NEW t \in Loggers, LogToWindow(t)
  PROVE  WindowInv'
<1>1. PICK kind \in Kinds :
        /\ logging' = [logging EXCEPT ![t] = [id |-> count + 1, kind |-> kind]]
        /\ window' = Added([id |-> count + 1, kind |-> kind])
  BY DEF LogToWindow
<1> DEFINE new == [id |-> count + 1, kind |-> kind]
           all == Append(window, new)
<1>2. /\ logging[t] = None /\ count < MaxLogs /\ count' = count + 1
      /\ UNCHANGED <<predictions, unlogged, copies>>
  BY DEF LogToWindow
<1>3. new \in Records /\ new.id = count + 1 /\ count \in Nat /\ WindowSize \in Nat
  BY <1>2, BoundAssumption, SizeAssumption DEF TypeOK, Records
<1>4. window' = Newest(all, WindowSize)
  BY <1>1 DEF Added
<1> HIDE DEF new
<1>5. /\ all \in Seq(Records) /\ Len(all) = Len(window) + 1 /\ Len(window) \in Nat
      /\ \A k \in 1..Len(window) : all[k] = window[k]
      /\ all[Len(window) + 1] = new
  BY <1>3, WindowTypes
<1> HIDE DEF all
<1>6. \A k \in 1..Len(all) : all[k].id = count + 1 - Len(all) + k
  <2>1. \A k \in 1..Len(window) : window[k].id = count - Len(window) + k
    BY WindowTypes DEF WindowInv, NoGap
  <2>2. \A k \in 1..Len(all) : k \in 1..Len(window) \/ k = Len(window) + 1
    BY <1>5
  <2> QED BY <1>3, <1>5, <2>1, <2>2
<1>7. /\ window' \in Seq(Records) /\ Len(window') \in Nat /\ Len(window') <= Len(all)
      /\ \A k \in 1..Len(window') : window'[k] = all[Len(all) - Len(window') + k]
  <2>1. window' \in Seq(Records) /\ Len(window') = IF Len(all) <= WindowSize THEN Len(all) ELSE WindowSize
    BY <1>3, <1>4, <1>5, NewestType, NewestElements
  <2>2. \A k \in 1..Len(window') : window'[k] = all[Len(all) - Len(window') + k]
    BY <1>3, <1>4, <1>5, NewestElements
  <2>3. Len(window') \in Nat /\ Len(window') <= Len(all)
    BY <1>3, <1>5, <2>1
  <2> QED BY <2>1, <2>2, <2>3
<1>8. NoGap'
  <2>1. ASSUME NEW k \in 1..Len(window') PROVE window'[k].id = count + 1 - Len(window') + k
    <3>1. Len(all) - Len(window') + k \in 1..Len(all)
      BY <1>5, <1>7
    <3> QED BY <1>3, <1>5, <1>6, <1>7, <3>1, SMTT(30)
  <2>2. DOMAIN window' = 1..Len(window')
    BY <1>7
  <2>3. \A k \in DOMAIN window' : window'[k].id = count' - Len(window') + k
    BY <1>2, <1>3, <1>7, <2>1, <2>2
  <2> QED BY <2>3 DEF NoGap
<1>9. logging'[t] = new /\ \A u \in Loggers : u # t => logging'[u] = logging[u]
  BY <1>1 DEF new, TypeOK
<1>10. Accounted'
  <2>1. ASSUME NEW r \in ToSet(window') PROVE r = new \/ r \in ToSet(window)
    <3>1. PICK k \in 1..Len(window') : r = window'[k]
      BY <1>7, <2>1 DEF ToSet
    <3>2. PICK j \in 1..Len(all) : r = all[j]
      BY <1>5, <1>7, <3>1
    <3>3. CASE j = Len(window) + 1
      BY <1>5, <3>2, <3>3
    <3>4. CASE j \in 1..Len(window)
      BY <1>5, <3>2, <3>4, WindowTypes DEF ToSet
    <3> QED BY <1>5, <3>3, <3>4
  <2>2. ASSUME NEW r \in ToSet(window)
        PROVE  (\E u \in Loggers : logging'[u] = r) \/ r \in ToSet(predictions) \union unlogged
    <3>1. r # None
      BY WindowTypes DEF ToSet
    <3> QED BY <1>2, <1>9, <3>1 DEF WindowInv, Accounted
  <2> QED BY <1>2, <1>9, <2>1, <2>2 DEF Accounted
<1>11. ASSUME copies = 0 PROVE StoredOnce' /\ FewOvertaken'
  <2>1. StoredOnce /\ FewOvertaken
    BY <1>11 DEF WindowInv
  <2>2. StoredOnce'
    <3>1. \A u \in Loggers : /\ u # t => logging'[u] = logging[u] /\ (Waiting(u)' <=> Waiting(u))
                             /\ u = t => logging'[u].id = count + 1
      BY <1>3, <1>9 DEF Waiting
    <3>2. \A i \in DOMAIN predictions : predictions[i].id \in Nat /\ predictions[i].id <= count
      BY <2>1, WindowTypes DEF StoredOnce
    <3>3. \A u \in Loggers : u # t /\ Waiting(u) => logging[u].id \in Nat /\ logging[u].id <= count
      BY <2>1, WindowTypes DEF StoredOnce
    <3> QED BY <1>2, <1>3, <2>1, <3>1, <3>2, <3>3 DEF StoredOnce
  <2>3. \A i \in DOMAIN predictions : Behind(i)' = Behind(i) /\ Overtaken(i)' = Overtaken(i)
    BY <1>2, <1>3, <1>9, <2>1, WindowTypes DEF Behind, Overtaken, StoredOnce, Waiting
  <2> QED BY <1>2, <2>1, <2>2, <2>3 DEF FewOvertaken
<1> QED BY <1>2, <1>8, <1>10, <1>11 DEF WindowInv

LEMMA LogToStoreStep ==
  ASSUME TypeOK, WindowInv, NEW t \in Loggers, LogToStore(t)
  PROVE  WindowInv'
<1> DEFINE n == Len(predictions)
           r == logging[t]
<1>1. /\ Waiting(t) /\ predictions' = Append(predictions, r) /\ logging' = [logging EXCEPT ![t] = None]
      /\ UNCHANGED <<window, count, unlogged, copies>>
  BY DEF LogToStore, Waiting
<1>2. r \in Records /\ r.id \in Nat /\ n \in Nat
  BY <1>1, WindowTypes
<1>3. /\ predictions' \in Seq(Records) /\ DOMAIN predictions' = 1..n + 1 /\ DOMAIN predictions = 1..n
      /\ \A i \in 1..n : predictions'[i] = predictions[i]
      /\ predictions'[n + 1] = r
  BY <1>1, <1>2, WindowTypes
<1>4. ~Waiting(t)' /\ \A u \in Loggers : u # t => logging'[u] = logging[u] /\ (Waiting(u)' <=> Waiting(u))
  BY <1>1 DEF Waiting, TypeOK
<1>5. NoGap'
  BY <1>1 DEF WindowInv, NoGap
<1>6. Accounted'
  <2>1. ToSet(predictions') = ToSet(predictions) \union {r}
    BY <1>2, <1>3 DEF ToSet
  <2>2. ASSUME NEW q \in ToSet(window)
        PROVE  (\E u \in Loggers : logging'[u] = q) \/ q \in ToSet(predictions') \union unlogged
    BY <1>4, <2>1 DEF WindowInv, Accounted
  <2> QED BY <1>1, <2>2 DEF Accounted
<1>7. ASSUME copies = 0 PROVE StoredOnce' /\ FewOvertaken'
  <2>1. StoredOnce /\ FewOvertaken
    BY <1>7 DEF WindowInv
  <2>2. StoredOnce'
    <3>1. \A i \in 1..n + 1 : predictions'[i].id <= count /\ (i # n + 1 => predictions'[i].id # r.id)
      BY <1>1, <1>3, <2>1 DEF StoredOnce
    <3>2. \A i, j \in 1..n + 1 : predictions'[i].id = predictions'[j].id => i = j
      BY <1>2, <1>3, <2>1, <3>1 DEF StoredOnce
    <3>3. \A u \in Loggers : Waiting(u)' => u # t /\ Waiting(u) /\ logging'[u] = logging[u]
      BY <1>4
    <3>4. \A i \in 1..n + 1, u \in Loggers : Waiting(u)' => predictions'[i].id # logging'[u].id
      BY <1>1, <1>2, <1>3, <2>1, <3>3 DEF StoredOnce
    <3> QED BY <1>1, <1>3, <2>1, <3>1, <3>2, <3>3, <3>4 DEF StoredOnce
  <2>3. ASSUME NEW i \in 1..n
        PROVE  Cardinality(Behind(i)') + Cardinality(Overtaken(i)') < Cardinality(Loggers)
    <3>1. Overtaken(i)' = Overtaken(i) \ {t}
      BY <1>3, <1>4 DEF Overtaken
    <3>2. CASE r.id < predictions[i].id
      <4>1. t \in Overtaken(i)
        BY <1>1, <3>2 DEF Overtaken
      <4>2. Behind(i)' = Behind(i) \union {n + 1} /\ n + 1 \notin Behind(i)
        BY <1>2, <1>3, <3>2 DEF Behind
      <4>3. /\ Cardinality(Behind(i)') = Cardinality(Behind(i)) + 1
            /\ Cardinality(Overtaken(i)') = Cardinality(Overtaken(i)) - 1
        <5>1. Cardinality(Behind(i) \union {n + 1}) = Cardinality(Behind(i)) + 1
          BY <4>2, FiniteCounts, FS_AddElement
        <5>2. Cardinality(Overtaken(i) \ {t}) = Cardinality(Overtaken(i)) - 1
          BY <4>1, FiniteCounts, FS_RemoveElement
        <5> QED BY <3>1, <4>2, <5>1, <5>2
      <4>4. Cardinality(Behind(i)) + Cardinality(Overtaken(i)) < Cardinality(Loggers)
        BY <1>3, <2>1 DEF FewOvertaken
      <4> QED BY <4>3, <4>4, FiniteCounts
    <3>3. CASE ~(r.id < predictions[i].id)
      <4>1. t \notin Overtaken(i)
        BY <3>3 DEF Overtaken
      <4>2. Behind(i)' = Behind(i)
        BY <1>2, <1>3, <3>3 DEF Behind
      <4>3. Overtaken(i)' = Overtaken(i)
        BY <3>1, <4>1
      <4> QED BY <1>3, <2>1, <4>2, <4>3 DEF FewOvertaken
    <3> QED BY <3>2, <3>3
  <2>4. ASSUME NEW i, i = n + 1
        PROVE  Cardinality(Behind(i)') + Cardinality(Overtaken(i)') < Cardinality(Loggers)
    <3>1. Behind(i)' = {}
      BY <1>2, <1>3, <2>4 DEF Behind
    <3>2. Overtaken(i)' \subseteq Loggers \ {t}
      BY <1>4 DEF Overtaken
    <3>3. IsFiniteSet(Loggers \ {t}) /\ Cardinality(Loggers \ {t}) = Cardinality(Loggers) - 1
      BY LoggerAssumption, FS_RemoveElement
    <3>4. Cardinality(Overtaken(i)') <= Cardinality(Loggers \ {t}) /\ IsFiniteSet(Overtaken(i)')
      BY <3>2, <3>3, FS_Subset
    <3>5. Cardinality(Overtaken(i)') \in Nat /\ Cardinality(Loggers) \in Nat
      BY <3>4, LoggerAssumption, FS_CardinalityType
    <3>6. Cardinality(Behind(i)') = 0
      BY <3>1, FS_EmptySet
    <3> QED BY <3>3, <3>4, <3>5, <3>6
  <2>5. FewOvertaken'
    <3>1. \A i \in 1..n + 1 : i \in 1..n \/ i = n + 1
      BY <1>2
    <3>2. \A i \in 1..n + 1 : Cardinality(Behind(i)') + Cardinality(Overtaken(i)') < Cardinality(Loggers)
      BY <2>3, <2>4, <3>1
    <3> QED BY <1>3, <3>2 DEF FewOvertaken
  <2> QED BY <2>2, <2>5
<1> QED BY <1>1, <1>5, <1>6, <1>7 DEF WindowInv

(* Loggers that give up wait no longer.                                    *)
LEMMA FewerWaiting ==
  ASSUME TypeOK, WindowInv, UNCHANGED <<predictions, count, copies>>,
         \A u \in Loggers : Waiting(u)' => Waiting(u) /\ logging'[u] = logging[u]
  PROVE  copies' = 0 => StoredOnce' /\ FewOvertaken'
<1> SUFFICES ASSUME copies = 0 PROVE StoredOnce' /\ FewOvertaken'
  OBVIOUS
<1>1. StoredOnce /\ FewOvertaken
  BY DEF WindowInv
<1>2. StoredOnce'
  BY <1>1 DEF StoredOnce
<1>3. ASSUME NEW i \in DOMAIN predictions
      PROVE  Cardinality(Behind(i)') + Cardinality(Overtaken(i)') < Cardinality(Loggers)
  <2>1. Behind(i)' = Behind(i) /\ Overtaken(i)' \subseteq Overtaken(i)
    BY DEF Behind, Overtaken
  <2>2. /\ Cardinality(Overtaken(i)') <= Cardinality(Overtaken(i))
        /\ Cardinality(Overtaken(i)') \in Nat
    BY <2>1, FiniteCounts, FS_Subset, FS_CardinalityType
  <2> QED BY <1>1, <2>1, <2>2, FiniteCounts DEF FewOvertaken
<1> QED BY <1>2, <1>3 DEF FewOvertaken

LEMMA WindowStep == TypeOK /\ WindowInv /\ [Next]_vars => WindowInv'
<1> SUFFICES ASSUME TypeOK, WindowInv, [Next]_vars PROVE WindowInv'
  OBVIOUS
<1> USE DEF logged, dedup, alerting, clock
<1>1. ASSUME NEW t \in Loggers, LogToStoreFails(t) PROVE WindowInv'
  <2>1. /\ logging' = [logging EXCEPT ![t] = None] /\ unlogged' = unlogged \union {logging[t]}
        /\ UNCHANGED <<window, count, predictions, copies>>
    BY <1>1 DEF LogToStoreFails
  <2>2. logging'[t] = None /\ \A u \in Loggers : u # t => logging'[u] = logging[u]
    BY <2>1 DEF TypeOK
  <2>3. NoGap' /\ Accounted'
    BY <2>1, <2>2 DEF WindowInv, NoGap, Accounted
  <2>4. copies' = 0 => StoredOnce' /\ FewOvertaken'
    BY <2>1, <2>2, FewerWaiting DEF Waiting
  <2> QED BY <2>3, <2>4 DEF WindowInv
<1>2. CASE Restart
  <2>1. /\ window' = <<>> /\ logging' = [t \in Loggers |-> None]
        /\ UNCHANGED <<count, predictions, copies>>
    BY <1>2 DEF Restart
  <2>2. NoGap' /\ Accounted'
    BY <2>1 DEF NoGap, Accounted, ToSet
  <2>3. copies' = 0 => StoredOnce' /\ FewOvertaken'
    BY <2>1, FewerWaiting DEF Waiting
  <2> QED BY <2>2, <2>3 DEF WindowInv
<1>3. CASE ReportCommand
  <2>1. /\ UNCHANGED <<window, logging, count, unlogged>> /\ copies' = copies + 1
        /\ predictions' = predictions \o Newest(predictions, WindowSize)
    BY <1>3 DEF ReportCommand
  <2>2. copies' # 0
    BY <2>1 DEF TypeOK
  <2>3. ToSet(predictions) \subseteq ToSet(predictions')
    <3>1. Newest(predictions, WindowSize) \in Seq(Records) /\ predictions \in Seq(Records)
      BY NewestType, SizeAssumption DEF TypeOK
    <3> HIDE DEF Newest
    <3> QED BY <2>1, <3>1 DEF ToSet
  <2>4. NoGap' /\ Accounted'
    BY <2>1, <2>3 DEF WindowInv, NoGap, Accounted
  <2> QED BY <2>2, <2>4 DEF WindowInv
<1>4. CASE (\E p \in Pollers : Poll(p)) \/ UpdateReference \/ Tick \/ UNCHANGED vars
  <2>1. UNCHANGED <<window, logging, count, unlogged, predictions, copies>>
    BY <1>4 DEF Poll, Advance, ReportBegin, ReadFeatures, ReadPredictions, ReadLabels, Pass,
       ReadFeaturesFails, ReadLabelsFails, Raises,
       Skip, MayAlert, SetFired, StoreAlert, StoreAlertFails, Finish, UpdateReference, Tick, vars
  <2>2. copies' = 0 => StoredOnce' /\ FewOvertaken'
    BY <2>1, FewerWaiting DEF Waiting
  <2> QED BY <2>1, <2>2 DEF WindowInv, NoGap, Accounted
<1> QED BY <1>1, <1>2, <1>3, <1>4, LogToWindowStep, LogToStoreStep DEF Next

(* Two steps without a lock put a record into the window and the table:    *)
(* the two orders differ by one record for each other logger at most       *)
(* (monitor.py:83-99).                                                     *)
THEOREM WindowIsInTheTail == Spec => []WindowIsTail
<1>1. Init => WindowInv
  <2> SUFFICES ASSUME Init PROVE WindowInv
    OBVIOUS
  <2>1. window = <<>> /\ predictions = <<>> /\ logging = [t \in Loggers |-> None]
    BY DEF Init
  <2> QED BY <2>1 DEF WindowInv, NoGap, Accounted, ToSet, StoredOnce, FewOvertaken, Waiting
<1>2. TypeOK /\ WindowInv => WindowIsTail
  <2> SUFFICES ASSUME TypeOK, WindowInv, unlogged = {}, copies = 0, NEW r \in ToSet(window),
                      ~\E t \in Loggers : logging[t] = r
               PROVE  r \in ToSet(Newest(predictions, WindowSize + Cardinality(Loggers) - 1))
    BY DEF WindowIsTail
  <2>1. PICK k \in DOMAIN window : r = window[k]
    BY DEF ToSet
  <2>2. PICK i \in DOMAIN predictions : r = predictions[i]
    BY DEF WindowInv, Accounted, ToSet
  <2>3. Len(predictions) - i < WindowSize + Cardinality(Loggers) - 1
    BY <2>1, <2>2, FewLater
  <2>4. /\ WindowSize + Cardinality(Loggers) - 1 \in Nat
        /\ predictions \in Seq(Records) /\ i \in 1..Len(predictions)
    BY <2>2, WindowTypes, SizeAssumption, LoggerAssumption, FS_CardinalityType
  <2> QED BY <2>2, <2>3, <2>4, AmongNewest
<1> QED BY <1>1, <1>2, WindowStep, TypeInit, TypeStep, PTL DEF Spec
=============================================================================
