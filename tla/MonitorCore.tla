----------------------------- MODULE MonitorCore -----------------------------
(***************************************************************************)
(* One ml-monitor API process: monitoring/api.py around a core/monitor.py  *)
(* Monitor.  Its endpoints are plain functions, so they run on a thread    *)
(* pool: Loggers are in POST /log, Pollers in GET /drift/latest or         *)
(* /drift/report.  The window and the deduplicator live in memory and are  *)
(* shared without a lock; predictions and alerts live in a SQLite file,    *)
(* which the `report` command, a process of its own, opens too.            *)
(*                                                                         *)
(* What the statistics say of a window is a parameter (DataTest,           *)
(* PredictionTest, ConceptTest); what the code does with it is modelled.   *)
(***************************************************************************)
EXTENDS Integers, FiniteSets, SequencesExt

CONSTANTS Loggers, Pollers,
          Columns,            \* the reference's feature columns, in order
          Kinds,              \* what is logged: [x, pred, label]
          References,         \* the reference datasets
          DataTest(_, _, _),  \* column, reference, rows: [score, p], in tenths
                              \* and hundredths, p = None without a p-value;
                              \* None if the test raises: a text in the rows
                              \* of a column the reference has numbers in
          PredictionTest(_),  \* rows: [score, shifted]
          ConceptTest(_),     \* 0/1 errors: whether the detector fires
          DriftThreshold,     \* drift_threshold, in hundredths
          SeverityThreshold,  \* severity_threshold
          WindowSize,         \* window_size
          Cooldown,           \* dedup_cooldown_seconds, in ticks
          None,
          MaxLogs, MaxTime, MaxFailures, MaxCrashes, MaxReports

\* The order in which _fire_alerts goes through what can drift.
Order == Columns \o <<"prediction", "concept">>
Keys == {Order[i] : i \in DOMAIN Order}
Rank == [INFO |-> 1, WARNING |-> 2, CRITICAL |-> 3]
Severities == {"INFO", "WARNING", "CRITICAL"}
Records == [id : 1..MaxLogs, kind : Kinds]
AlertRows == [key : Keys, severity : Severities, due : 0..MaxTime, life : 0..MaxCrashes + 1]

ASSUME SizeAssumption == WindowSize \in Nat \ {0} /\ Cooldown \in Nat
ASSUME BoundAssumption ==
  /\ MaxLogs \in Nat /\ MaxTime \in Nat /\ MaxFailures \in Nat
  /\ MaxCrashes \in Nat /\ MaxReports \in Nat
ASSUME LoggerAssumption == IsFiniteSet(Loggers)
ASSUME ColumnAssumption == Columns \in Seq(STRING)
ASSUME SeverityAssumption == SeverityThreshold \in Severities
ASSUME NoneAssumption == None \notin Nat /\ None \notin Records /\ None \notin Severities
ASSUME ReferenceAssumption == References # {}

VARIABLES
  window,     \* WindowManager._records: the newest WindowSize records
  lastFired,  \* Deduplicator._last_fired
  reference,  \* Monitor.reference_data
  logging,    \* the record a logger has put in the window and not yet stored
  job,        \* the locals of each poller's drift_report
  predictions, alerts,  \* the SQLite tables; they outlive the process
  sent,       \* alert rows a webhook or Slack has taken
  now, life,  \* the clock; which process this is
  count,      \* records logged so far: the newest one's number
  copies,     \* `report` commands so far
  unlogged, lost,  \* history: records and alerts whose INSERT failed
  raced       \* history: keys two pollers of this process were deciding at once

logged == <<window, logging, count, unlogged>>
dedup == <<lastFired, raced>>
alerting == <<alerts, sent, lost>>
clock == <<now, life>>
vars == <<logged, dedup, reference, job, predictions, alerting, clock, copies>>

Idle == [at |-> "idle", found |-> [k \in Keys |-> None],
         key |-> 1, when |-> 0, due |-> {}]
Reading == {"features", "predictions", "labels"}  \* the report's passes

Init ==
  /\ window = <<>>
  /\ lastFired = [k \in Keys |-> None]
  /\ reference \in References
  /\ logging = [t \in Loggers |-> None]
  /\ job = [p \in Pollers |-> Idle]
  /\ predictions = <<>>
  /\ alerts = {}
  /\ sent = {}
  /\ now = 0
  /\ life = 1
  /\ count = 0
  /\ unlogged = {}
  /\ lost = {}
  /\ raced = {}
  /\ copies = 0

MayFail == Cardinality(unlogged) + Cardinality(lost) < MaxFailures
Newest(s, n) == IF Len(s) <= n THEN s ELSE SubSeq(s, Len(s) - n + 1, Len(s))
KindsOf(s) == [i \in DOMAIN s |-> s[i].kind]

-----------------------------------------------------------------------------
(* POST /log *)

\* Mutants: the window keeps what it has when it is full; it has no bound.
AddedAll(r) == Append(window, r)
AddedFirst(r) == IF Len(window) < WindowSize THEN Append(window, r) ELSE window
Added(r) == Newest(Append(window, r), WindowSize)

\* window.add.  A report that is in the middle of a pass over the deque (in
\* features_frame, predictions or labels_and_predictions) gets "deque mutated
\* during iteration" and is lost.
LogToWindow(t) ==
  /\ logging[t] = None
  /\ count < MaxLogs
  /\ \E hit \in SUBSET {p \in Pollers : job[p].at \in Reading} :
       job' = [p \in Pollers |-> IF p \in hit THEN Idle ELSE job[p]]
  /\ \E kind \in Kinds :
       /\ logging' = [logging EXCEPT ![t] = [id |-> count + 1, kind |-> kind]]
       /\ window' = Added([id |-> count + 1, kind |-> kind])
  /\ count' = count + 1
  /\ UNCHANGED <<dedup, reference, predictions, alerting, clock, unlogged, copies>>

\* store.log_prediction: an INSERT and its commit.
LogToStore(t) ==
  /\ logging[t] # None
  /\ predictions' = Append(predictions, logging[t])
  /\ logging' = [logging EXCEPT ![t] = None]
  /\ UNCHANGED <<window, count, dedup, reference, job, alerting, clock, unlogged, copies>>

\* The INSERT raises: the caller gets an error, the window keeps the record.
LogToStoreFails(t) ==
  /\ logging[t] # None
  /\ MayFail
  /\ unlogged' = unlogged \union {logging[t]}
  /\ logging' = [logging EXCEPT ![t] = None]
  /\ UNCHANGED <<window, count, dedup, reference, job, predictions, alerting, clock, copies>>

-----------------------------------------------------------------------------
(* What the detectors' results amount to *)

SeverityForScore(score) ==
  CASE score >= 3 -> "CRITICAL" [] score = 2 -> "WARNING" [] score = 1 -> "INFO" [] OTHER -> None

IsDrifted(test) == IF test.p # None THEN test.p < DriftThreshold ELSE test.score >= 1

AtLeast(severity) == IF Rank[severity] >= Rank[SeverityThreshold] THEN severity ELSE None

\* The severity _fire_alerts alerts at, or None.  A column can be drifted by
\* its p-value with a score below every band: no alert.
DataAlert(column, ref, rows) ==
  LET test == DataTest(column, ref, rows)
      severity == SeverityForScore(test.score)
  IN  IF severity # None /\ IsDrifted(test) THEN AtLeast(severity) ELSE None

\* detect_data_drift has no try: one column's test raises for all of them.
Untestable(ref, rows) == \E c \in ToSet(Columns) : DataTest(c, ref, rows) = None

PredictionAlert(rows) ==
  LET test == PredictionTest(rows)
      severity == SeverityForScore(test.score)
  IN  IF ~(test.score >= 1 \/ test.shifted) THEN None
      ELSE AtLeast(IF severity = None THEN "WARNING" ELSE severity)

\* A window with a text among its predictions has no prediction drift.
PredictionVerdict(rows) ==
  IF \E i \in DOMAIN rows : rows[i].pred = "text" THEN None ELSE PredictionAlert(rows)

Labelled(rows) == SelectSeq(rows, LAMBDA r : r.label # "none")
NotNumeric(rows) == \E i \in DOMAIN rows : "text" \in {rows[i].label, rows[i].pred}
Errors(rows) == [i \in DOMAIN rows |-> IF rows[i].label = rows[i].pred THEN 0 ELSE 1]
ConceptVerdict(rows) ==
  IF rows # <<>> /\ ConceptTest(Errors(rows)) THEN "CRITICAL" ELSE None

-----------------------------------------------------------------------------
(* GET /drift/latest: Monitor.drift_report *)

\* records(): an empty window makes an empty report, with no alerts.
ReportBegin(p) ==
  /\ job[p].at = "idle"
  /\ window # <<>>
  /\ job' = [job EXCEPT ![p].at = "features"]
  /\ UNCHANGED <<logged, dedup, reference, predictions, alerting, clock, copies>>

\* Each pass reads the window as it is by then.
Pass(p, from, to, found) ==
  /\ job[p].at = from
  /\ job' = [job EXCEPT ![p].at = to, ![p].found = found]
  /\ UNCHANGED <<logged, dedup, reference, predictions, alerting, clock, copies>>

ReadFeatures(p) ==
  LET rows == KindsOf(window)
  IN  /\ job[p].at = "features"
      /\ ~Untestable(reference, rows)
      /\ Pass(p, "features", "predictions",
              [k \in Keys |-> IF k \in ToSet(Columns) THEN DataAlert(k, reference, rows) ELSE None])

ReadPredictions(p) ==
  Pass(p, "predictions", "labels",
       [job[p].found EXCEPT !["prediction"] = PredictionVerdict(KindsOf(window))])

ReadLabels(p) ==
  LET rows == Labelled(KindsOf(window))
  IN  /\ ~NotNumeric(rows)
      /\ Pass(p, "labels", "alert", [job[p].found EXCEPT !["concept"] = ConceptVerdict(rows)])

\* The report is lost, whatever it had found.
Raises(p) ==
  /\ job' = [job EXCEPT ![p] = Idle]
  /\ UNCHANGED <<logged, dedup, reference, predictions, alerting, clock, copies>>

\* One column cannot be tested: the drift of the others is lost with it.
ReadFeaturesFails(p) ==
  /\ job[p].at = "features"
  /\ Untestable(reference, KindsOf(window))
  /\ Raises(p)

\* float(l) or float(p) raises.
ReadLabelsFails(p) ==
  /\ job[p].at = "labels"
  /\ NotNumeric(Labelled(KindsOf(window)))
  /\ Raises(p)

-----------------------------------------------------------------------------
(* _fire_alerts: one key after the other *)

KeyOf(p) == Order[job[p].key]
NextKey(p) == [at |-> "alert", found |-> [job[p].found EXCEPT ![KeyOf(p)] = None],
               key |-> job[p].key + 1, when |-> 0, due |-> job[p].due]
\* Mutant: a cooldown that never ends.
CoolingForever(k) == lastFired[k] # None
Cooling(k) == lastFired[k] # None /\ now - lastFired[k] < Cooldown
Deciding(p) == job[p].at = "set"

Skip(p) ==
  /\ job[p].at = "alert"
  /\ job[p].key <= Len(Order)
  /\ job[p].found[KeyOf(p)] = None \/ Cooling(KeyOf(p))
  /\ job' = [job EXCEPT ![p] = NextKey(p)]
  /\ UNCHANGED <<logged, dedup, reference, predictions, alerting, clock, copies>>

\* should_alert reads the clock and the table: the key may alert.
MayAlert(p) ==
  /\ job[p].at = "alert"
  /\ job[p].key <= Len(Order)
  /\ job[p].found[KeyOf(p)] # None
  /\ ~Cooling(KeyOf(p))
  /\ job' = [job EXCEPT ![p].at = "set", ![p].when = now]
  /\ raced' = IF \E q \in Pollers \ {p} : Deciding(q) /\ KeyOf(q) = KeyOf(p)
              THEN raced \union {KeyOf(p)} ELSE raced
  /\ UNCHANGED <<logged, lastFired, reference, predictions, alerting, clock, copies>>

\* Mutants: the entry is not made; it silences every key.
FiredNever(p) == lastFired
FiredAll(p) == [k \in Keys |-> job[p].when]
Fired(p) == [lastFired EXCEPT ![KeyOf(p)] = job[p].when]

SetFired(p) ==
  /\ Deciding(p)
  /\ lastFired' = Fired(p)
  /\ job' = [job EXCEPT ![p].at = "store"]
  /\ UNCHANGED <<logged, raced, reference, predictions, alerting, clock, copies>>

RowOf(p) == [key |-> KeyOf(p), severity |-> job[p].found[KeyOf(p)],
             due |-> job[p].when, life |-> life]

\* store.log_alert
StoreAlert(p) ==
  /\ job[p].at = "store"
  /\ alerts' = alerts \union {RowOf(p)}
  /\ job' = [job EXCEPT ![p] = [NextKey(p) EXCEPT !.due = @ \union {RowOf(p)}]]
  /\ UNCHANGED <<logged, dedup, reference, predictions, sent, lost, clock, copies>>

\* The INSERT raises: this alert is not recorded, the alerts already stored
\* are not sent, the later keys not looked at.  The cooldown runs on.
StoreAlertFails(p) ==
  /\ job[p].at = "store"
  /\ MayFail
  /\ now + Cooldown <= MaxTime
  /\ lost' = lost \union {RowOf(p)}
  /\ job' = [job EXCEPT ![p] = Idle]
  /\ UNCHANGED <<logged, dedup, reference, predictions, alerts, sent, clock, copies>>

\* send_webhook and send_slack_alert: what they return is not looked at.
Finish(p) ==
  /\ job[p].at = "alert"
  /\ job[p].key > Len(Order)
  /\ sent' \in {sent, sent \union job[p].due}
  /\ job' = [job EXCEPT ![p] = Idle]
  /\ UNCHANGED <<logged, dedup, reference, predictions, alerts, lost, clock, copies>>

-----------------------------------------------------------------------------
(* The rest of the world *)

\* POST /reference/update
UpdateReference ==
  /\ reference' \in References
  /\ UNCHANGED <<logged, dedup, job, predictions, alerting, clock, copies>>

Tick ==
  /\ now < MaxTime
  /\ now' = now + 1
  /\ UNCHANGED <<logged, dedup, reference, job, predictions, alerting, life, copies>>

\* The process dies and is started again: `start` reads the reference file.
Restart ==
  /\ life <= MaxCrashes
  /\ life' = life + 1
  /\ window' = <<>>
  /\ logging' = [t \in Loggers |-> None]
  /\ lastFired' = [k \in Keys |-> None]
  /\ raced' = {}
  /\ reference' \in References
  /\ job' = [p \in Pollers |-> Idle]
  /\ UNCHANGED <<count, unlogged, predictions, alerting, now, copies>>

\* The `report` command: a Monitor of its own, with a reference, a window and a
\* deduplicator of its own.  It logs the newest rows of the table into its
\* window, and so once more into the table, and records what is due.
CommandFound(ref, rows) ==
  [k \in Keys |-> CASE k = "prediction" -> None     \* no reference predictions
                    [] k = "concept" -> ConceptVerdict(Labelled(rows))
                    [] OTHER -> DataAlert(k, ref, rows)]

ReportCommand ==
  /\ copies < MaxReports
  /\ predictions # <<>>
  /\ copies' = copies + 1
  /\ predictions' = predictions \o Newest(predictions, WindowSize)
  /\ \E ref \in References :
       LET rows == KindsOf(Newest(predictions, WindowSize))
           found == CommandFound(ref, rows)
       IN  alerts' = IF Untestable(ref, rows) \/ NotNumeric(Labelled(rows)) THEN alerts
                     ELSE alerts \union {[key |-> k, severity |-> found[k], due |-> now, life |-> 0] :
                                           k \in {k \in Keys : found[k] # None}}
  /\ UNCHANGED <<logged, dedup, reference, job, sent, lost, clock>>

\* A report that has begun goes on.
Advance(p) ==
  \/ ReadFeatures(p) \/ ReadFeaturesFails(p)
  \/ ReadPredictions(p) \/ ReadLabels(p) \/ ReadLabelsFails(p)
  \/ Skip(p) \/ MayAlert(p) \/ SetFired(p) \/ StoreAlert(p) \/ StoreAlertFails(p) \/ Finish(p)

Poll(p) == ReportBegin(p) \/ Advance(p)

Next ==
  \/ \E t \in Loggers : LogToWindow(t) \/ LogToStore(t) \/ LogToStoreFails(t)
  \/ \E p \in Pollers : Poll(p)
  \/ UpdateReference \/ Tick \/ Restart \/ ReportCommand

\* Time passes, and a call that has been made runs to its end.  Nobody owes a
\* call: nothing in the repository asks this process for reports.
Fairness == WF_vars(Tick) /\ \A p \in Pollers : WF_vars(Advance(p))

Spec == Init /\ [][Next]_vars /\ Fairness

-----------------------------------------------------------------------------
(* Properties *)

Jobs == [at : {"idle", "features", "predictions", "labels", "alert", "set", "store"},
         found : [Keys -> Severities \union {None}],
         key : 1..Len(Order) + 1, when : 0..MaxTime, due : SUBSET AlertRows]

\* The variables' types; a window never holds more than window_size records,
\* and a poller that is deciding has a key with a severity to decide on.
TypeOK ==
  /\ window \in Seq(Records) /\ Len(window) <= WindowSize
  /\ lastFired \in [Keys -> 0..MaxTime \union {None}]
  /\ reference \in References
  /\ logging \in [Loggers -> Records \union {None}]
  /\ job \in [Pollers -> Jobs]
  /\ \A p \in Pollers : job[p].at \in {"set", "store"} =>
       job[p].key <= Len(Order) /\ job[p].found[KeyOf(p)] # None
  /\ predictions \in Seq(Records)
  /\ alerts \in SUBSET AlertRows /\ sent \in SUBSET AlertRows /\ lost \in SUBSET AlertRows
  /\ now \in 0..MaxTime /\ life \in 1..MaxCrashes + 1
  /\ count \in 0..MaxLogs /\ copies \in 0..MaxReports
  /\ unlogged \in SUBSET Records
  /\ raced \in SUBSET Keys

\* Appending to the window and to the table is two steps without a lock, so
\* the two may order records differently: but a record of the window that is
\* not still being stored is among the newest rows of the table, and with one
\* logger among the newest window_size, which is what the report command
\* rebuilds a window from.  (As long as no INSERT has failed and no report
\* command has copied rows.)
WindowIsTail ==
  unlogged = {} /\ copies = 0 =>
    \A r \in ToSet(window) :
      \/ \E t \in Loggers : logging[t] = r
      \/ r \in ToSet(Newest(predictions, WindowSize + Cardinality(Loggers) - 1))

\* should_alert suppresses a key for the cooldown: one process records two
\* alerts of a key closer together only if two reports were between the look
\* at the table and the entry into it at once.
CooldownHolds ==
  \A k \in Keys \ raced : \A a, b \in alerts :
    a.key = k /\ b.key = k /\ a.life = life /\ b.life = life /\ a # b =>
      a.due - b.due >= Cooldown \/ b.due - a.due >= Cooldown

\* A key that is silenced has its alert in the table, is about to have it, or
\* its INSERT has failed: a report that dies elsewhere silences nothing.
SilenceIsExplained ==
  \A k \in Keys : lastFired[k] # None =>
    \/ \E a \in alerts \union lost : a.key = k /\ a.due = lastFired[k] /\ a.life = life
    \/ \E p \in Pollers : job[p].at = "store" /\ KeyOf(p) = k /\ job[p].when = lastFired[k]

\* A webhook only gets alerts the table holds: log_alert goes first.
SentWasStored == sent \subseteq alerts

\* A column that from some time on has drifted enough, in windows the report
\* can be computed for (no text where a number is read), is alerted, whatever
\* INSERT fails on the way: the cooldown that covers a lost alert runs out.
\* It takes a client that asks for reports again and again.  The comment of
\* Monitor (core/monitor.py:50-53) counts on "the API/dashboard" for that, but
\* dashboard.py reads the file itself and nothing in the repository asks the API.
DriftShows(column) ==
  /\ window # <<>>
  /\ ~Untestable(reference, KindsOf(window))
  /\ DataAlert(column, reference, KindsOf(window)) # None
  /\ ~NotNumeric(Labelled(KindsOf(window)))
Polled == \E p \in Pollers : []<><<ReportBegin(p)>>_vars
PersistentDriftIsAlerted ==
  \A c \in ToSet(Columns) :
    <>[]DriftShows(c) /\ Polled => <>(\E a \in alerts : a.key = c /\ a.life > 0)
=============================================================================
