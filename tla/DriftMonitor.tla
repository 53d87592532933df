---------------------------- MODULE DriftMonitor ----------------------------
(***************************************************************************)
(* The drift monitor (src/ml_platform/fraud/monitor): a process that wakes *)
(* every MONITOR_INTERVAL_SEC, reads the newest scored rows, has Evidently *)
(* compare them with the training reference, writes latest.html, feeds the *)
(* measured share to DriftTrigger, talks to Slack on a transition, and     *)
(* writes latest.json and ml_monitor_latest.json.                          *)
(*                                                                         *)
(* One window is a sequence of steps, because it can be cut anywhere: by   *)
(* an exception, which main() logs before it sleeps (RaisePoints), or by   *)
(* the death of the process, which compose restarts (CrashPoints).  The    *)
(* trigger lives in memory and in drift_state.json, and the two may differ *)
(* in between.                                                             *)
(***************************************************************************)
EXTENDS Naturals, Sequences, FiniteSets

CONSTANTS
  Required,     \* DRIFT_CONSECUTIVE_WINDOWS
  MaxStreak,    \* the counter saturates here; only "< Required" tells values apart
  Limit,        \* fetch_recent's limit (5000)
  MinRows,      \* MIN_ROWS (30)
  RaisePoints,  \* the steps an exception may interrupt
  CrashPoints,  \* the steps before which the process may die
  StateLoss,    \* may drift_state.json become unreadable?
  NoShare,      \* may Evidently's result lack the share?
  ShareKey      \* what "drift_share" holds: the "measured" share, or the "setting"

Steps == {"fetch", "html", "observe", "save", "notify", "json", "ml", "sleep"}

ASSUME MonitorAssumption ==
  /\ Required \in Nat \ {0}
  /\ MaxStreak \in Nat
  /\ Required <= MaxStreak
  /\ MinRows \in Nat \ {0}
  /\ Limit \in Nat
  /\ MinRows <= Limit
  /\ RaisePoints \subseteq {"fetch", "html", "observe", "save", "notify", "json"}
  /\ CrashPoints \subseteq Steps
  /\ StateLoss \in BOOLEAN
  /\ NoShare \in BOOLEAN
  /\ ShareKey \in {"measured", "setting"}

VARIABLES
  recent,     \* the newest Limit rows of scored_transactions, oldest first;
              \* TRUE is a row unlike the reference
  pc,         \* the step the process is about to take, or "down"
  shutdown,   \* _shutdown
  trigger,    \* the DriftTrigger object
  stateFile,  \* drift_state.json as _load would read it
  metric,     \* the result of the window being handled
  decision,   \* what observe() decided
  html,       \* latest.html: the share it shows
  json,       \* latest.json
  \* History variables: no step of the program reads them.
  pages,      \* pages tried since the last window recorded as clear (2: several)
  paired,     \* latest.html and latest.json come from the same window
  mlPaired,   \* and so does ml_monitor_latest.json
  mishaps     \* what has gone wrong so far: a state file "lost", a window whose
              \* state was "unsaved", a page "unsent"

program == <<pc, shutdown, trigger, stateFile, metric, decision, html, json>>
history == <<pages, paired, mlPaired, mishaps>>
vars == <<recent, program, history>>

Shares == {"none", "low", "high"}
Trigger == [consecutive : 0 .. MaxStreak, alerted : BOOLEAN]
Clean == [consecutive |-> 0, alerted |-> FALSE]
Up == pc # "down"

-----------------------------------------------------------------------------
(* The table and the measurement.                                          *)

\* Evidently's own verdict on a window: the rows unlike the reference prevail.
DatasetDrift(w) == 2 * Cardinality({i \in DOMAIN w : w[i]}) >= Len(w)

\* The "drift_share" entry, against DRIFT_SHARE_THRESHOLD.  Read as a setting it
\* is Evidently's own limit, 0.5, which meets the default threshold.
DriftShare(w) ==
  IF ShareKey = "measured" /\ ~DatasetDrift(w) THEN "low" ELSE "high"

Newest(s) == IF Len(s) > Limit THEN Tail(s) ELSE s

-----------------------------------------------------------------------------
(* DriftTrigger                                                            *)

Longer(n) == IF n < MaxStreak THEN n + 1 ELSE MaxStreak

\* Mutant: a restart does not read the state back.
LoadNothing == Clean

\* _load: an unreadable or missing file is a clean start, kept here as Clean.
Load == stateFile

\* Mutants: a clear window decrements the streak; a clear window leaves it alone.
CountedDown(t, drifted) == IF drifted THEN Longer(t.consecutive) ELSE t.consecutive - 1
CountedOn(t, drifted) == IF drifted THEN Longer(t.consecutive) ELSE t.consecutive

\* observe, up to its call of _save.
Counted(t, drifted) == IF drifted THEN Longer(t.consecutive) ELSE 0

\* Mutants: every long window pages; nothing ever clears.
DecideEveryWindow(t, drifted) ==
  CASE Counted(t, drifted) >= Required -> "page"
    [] ~drifted /\ t.alerted -> "clear"
    [] OTHER -> "nothing"
DecideNeverClear(t, drifted) ==
  IF Counted(t, drifted) >= Required /\ ~t.alerted THEN "page" ELSE "nothing"

Decide(t, drifted) ==
  CASE Counted(t, drifted) >= Required /\ ~t.alerted -> "page"
    [] ~drifted /\ t.alerted -> "clear"
    [] OTHER -> "nothing"

Observed(t, drifted) ==
  [consecutive |-> Counted(t, drifted),
   alerted |-> CASE Decide(t, drifted) = "page" -> TRUE
                 [] Decide(t, drifted) = "clear" -> FALSE
                 [] OTHER -> t.alerted]

-----------------------------------------------------------------------------
Init ==
  /\ recent = <<>>
  /\ pc = "down"
  /\ shutdown = FALSE
  /\ trigger = Clean
  /\ stateFile = Clean
  /\ metric = [drift_share |-> "none", dataset_drift |-> FALSE]
  /\ decision = "nothing"
  /\ html = "none"
  /\ json = [drift_share |-> "none", consecutive_drifted_windows |-> 0,
             retrain_recommended |-> FALSE]
  /\ pages = 0
  /\ paired = FALSE
  /\ mlPaired = FALSE
  /\ mishaps = {}

\* A row is scored and inserted by the scorer, a process of its own.
Arrive(shifted) ==
  /\ recent' = Newest(Append(recent, shifted))
  /\ UNCHANGED <<program, history>>

-----------------------------------------------------------------------------
(* main(): start, loop, stop.                                              *)

Boot ==
  /\ pc = "down"
  /\ pc' = "fetch"
  /\ shutdown' = FALSE
  /\ trigger' = Load
  /\ UNCHANGED <<recent, stateFile, metric, decision, html, json, history>>

\* compose brings a process back that was not told to stop; an operator may
\* bring back one that was.
Restart == ~shutdown /\ Boot
StartAgain == shutdown /\ Boot

\* SIGTERM and SIGINT only set a flag; the loop reads it between windows.
Signal ==
  /\ Up
  /\ ~shutdown
  /\ shutdown' = TRUE
  /\ UNCHANGED <<recent, pc, trigger, stateFile, metric, decision, html, json, history>>

Wake ==
  /\ pc = "sleep"
  /\ pc' = IF shutdown THEN "down" ELSE "fetch"
  /\ trigger' = IF shutdown THEN Clean ELSE trigger
  /\ UNCHANGED <<recent, shutdown, stateFile, metric, decision, html, json, history>>

\* Out of memory, kill -9, a node going away: memory is gone, files stay.
Crash ==
  /\ pc \in CrashPoints
  /\ pc' = "down"
  /\ trigger' = Clean
  /\ mishaps' = IF pc = "notify" /\ decision = "page"
                THEN mishaps \cup {"unsent"} ELSE mishaps
  /\ UNCHANGED <<recent, shutdown, stateFile, metric, decision, html, json,
                 pages, paired, mlPaired>>

LoseState ==
  /\ StateLoss
  /\ stateFile # Clean
  /\ stateFile' = Clean
  /\ mishaps' = mishaps \cup {"lost"}
  /\ UNCHANGED <<recent, pc, shutdown, trigger, metric, decision, html, json,
                 pages, paired, mlPaired>>

-----------------------------------------------------------------------------
(* run_once(), one step per effect that outlives the process.              *)

\* Too few rows: the window is skipped and the trigger is not told.
Skip ==
  /\ pc = "fetch"
  /\ Len(recent) < MinRows
  /\ pc' = "sleep"
  /\ UNCHANGED <<recent, shutdown, trigger, stateFile, metric, decision, html, json, history>>

Fetch ==
  /\ pc = "fetch"
  /\ Len(recent) >= MinRows
  /\ pc' = "html"
  /\ \E share \in IF NoShare THEN {DriftShare(recent), "none"} ELSE {DriftShare(recent)} :
       metric' = [drift_share |-> share, dataset_drift |-> DatasetDrift(recent)]
  /\ UNCHANGED <<recent, shutdown, trigger, stateFile, decision, html, json, history>>

WriteHtml ==
  /\ pc = "html"
  /\ pc' = "observe"
  /\ html' = metric.drift_share
  /\ paired' = FALSE
  /\ mlPaired' = FALSE
  /\ UNCHANGED <<recent, shutdown, trigger, stateFile, metric, decision, json,
                 pages, mishaps>>

\* None does not count as drifted, so it counts as clear.
Drifted == metric.drift_share = "high"

Observe ==
  /\ pc = "observe"
  /\ pc' = "save"
  /\ trigger' = Observed(trigger, Drifted)
  /\ decision' = Decide(trigger, Drifted)
  /\ UNCHANGED <<recent, shutdown, stateFile, metric, html, json, history>>

\* The window is over for the trigger, recorded or not.
PagesAfterWindow == IF Drifted THEN pages ELSE 0
PagesAfterTelling == IF decision = "page" /\ pages < 2 THEN pages + 1 ELSE pages

\* Mutant: the state is saved only when it pages.
SaveOnPage ==
  /\ pc = "save"
  /\ pc' = "notify"
  /\ stateFile' = IF decision = "page" THEN trigger ELSE stateFile
  /\ pages' = PagesAfterWindow
  /\ UNCHANGED <<recent, shutdown, trigger, metric, decision, html, json,
                 paired, mlPaired, mishaps>>

Save ==
  /\ pc = "save"
  /\ pc' = "notify"
  /\ stateFile' = trigger
  /\ pages' = PagesAfterWindow
  /\ UNCHANGED <<recent, shutdown, trigger, metric, decision, html, json,
                 paired, mlPaired, mishaps>>

\* Mutant: a process told to stop does not page any more.
NotifyUnlessStopping ==
  /\ pc = "notify"
  /\ pc' = "json"
  /\ pages' = IF decision = "page" /\ ~shutdown /\ pages < 2 THEN pages + 1 ELSE pages
  /\ UNCHANGED <<recent, shutdown, trigger, stateFile, metric, decision, html, json,
                 paired, mlPaired, mishaps>>

\* send_slack's answer is ignored: sent, rejected and unreachable are one step.
Notify ==
  /\ pc = "notify"
  /\ pc' = "json"
  /\ pages' = PagesAfterTelling
  /\ UNCHANGED <<recent, shutdown, trigger, stateFile, metric, decision, html, json,
                 paired, mlPaired, mishaps>>

WriteJson ==
  /\ pc = "json"
  /\ pc' = "ml"
  /\ json' = [drift_share |-> metric.drift_share,
              consecutive_drifted_windows |-> trigger.consecutive,
              retrain_recommended |-> trigger.alerted]
  /\ paired' = TRUE
  /\ UNCHANGED <<recent, shutdown, trigger, stateFile, metric, decision, html,
                 pages, mlPaired, mishaps>>

\* The second backend has a try of its own: it writes its report, or nothing.
MlReport ==
  /\ pc = "ml"
  /\ pc' = "sleep"
  /\ mlPaired' \in BOOLEAN
  /\ UNCHANGED <<recent, shutdown, trigger, stateFile, metric, decision, html, json,
                 pages, paired, mishaps>>

\* Any other exception ends the window; main() logs it and goes to sleep.  What
\* send_slack lets through (an HTTPException, a malformed URL) may come after
\* the message left, so the page counts as tried.
Raise ==
  /\ pc \in RaisePoints
  /\ pc = "notify" => decision # "nothing"
  /\ pc' = "sleep"
  /\ mishaps' = IF pc = "save" THEN mishaps \cup {"unsaved"} ELSE mishaps
  /\ pages' = CASE pc = "save" -> PagesAfterWindow
                [] pc = "notify" -> PagesAfterTelling
                [] OTHER -> pages
  /\ UNCHANGED <<recent, shutdown, trigger, stateFile, metric, decision, html, json,
                 paired, mlPaired>>

RunOnce == Skip \/ Fetch \/ WriteHtml \/ Observe \/ Save \/ Notify \/ WriteJson \/ MlReport

-----------------------------------------------------------------------------
Next ==
  \/ \E shifted \in BOOLEAN : Arrive(shifted)
  \/ Restart \/ StartAgain \/ Signal \/ Wake \/ Crash \/ LoseState
  \/ RunOnce
  \/ Raise

\* The process is scheduled and compose restarts it; traffic, signals, faults and
\* operators are not owed.
Fairness == WF_vars(Restart \/ Wake \/ RunOnce)

Spec == Init /\ [][Next]_vars /\ Fairness

-----------------------------------------------------------------------------
(* Properties                                                              *)

TypeOK ==
  /\ recent \in Seq(BOOLEAN)
  /\ pc \in Steps \cup {"down"}
  /\ shutdown \in BOOLEAN
  /\ trigger \in Trigger
  /\ stateFile \in Trigger
  /\ metric \in [drift_share : Shares, dataset_drift : BOOLEAN]
  /\ decision \in {"nothing", "page", "clear"}
  /\ html \in Shares
  /\ json \in [drift_share : Shares, consecutive_drifted_windows : 0 .. MaxStreak,
               retrain_recommended : BOOLEAN]
  /\ pages \in 0 .. 2
  /\ paired \in BOOLEAN
  /\ mlPaired \in BOOLEAN
  /\ mishaps \subseteq {"lost", "unsaved", "unsent"}

(* "A drift condition that persists for an hour pages once rather than     *)
(* sixty times" (alerting.py:72-74): whatever is cut short or restarted,   *)
(* and as long as the state file is readable, two pages never go out       *)
(* without a clear window between them.                                    *)
OnePagePerEpisode == "lost" \notin mishaps => pages <= 1

(* A restart resumes exactly where the process was (alerting.py:38-41):    *)
(* outside the step that saves, memory and drift_state.json agree, so a    *)
(* crash there loses nothing, until a save fails or the file is lost.      *)
RestartResumes ==
  mishaps \cap {"lost", "unsaved"} = {} => (Up /\ pc # "save" => trigger = stateFile)

(* The armed flag is no more than the streak: a monitor is alerted exactly *)
(* while the run of drifted windows has the required length, in memory, on *)
(* disk, and across any interleaving of crashes and failed saves.          *)
AlertedIffLongStreak ==
  \A t \in {trigger, stateFile} : t.alerted <=> t.consecutive >= Required

(* latest.html and latest.json tell the same story as the trigger once a   *)
(* window is complete, also when a window was cut or the process died in   *)
(* between: a matching pair never recommends a retrain the state file does *)
(* not, and ml_monitor_latest.json is never ahead of them                  *)
(* (main.py:56-88, read back by GET /monitoring).                          *)
ReportsAgree ==
  /\ mlPaired => paired
  /\ paired /\ "lost" \notin mishaps =>
       /\ json.drift_share = html
       /\ json.retrain_recommended = stateFile.alerted
       /\ json.consecutive_drifted_windows = stateFile.consecutive

(* Nobody is left unpaged: once a window is over, an alerted trigger has   *)
(* had its page tried (alerting.py:72, "transition into the alerting       *)
(* state"; fraud-RUNBOOK.md:124, "fires once").                            *)
NobodyUnpaged == pc = "sleep" /\ trigger.alerted => pages >= 1

(* There are two ways to lose a page, and no third: a save that fails, and *)
(* a death between the save and the message.                               *)
OnlyTwoWaysUnpaged == mishaps \cap {"unsaved", "unsent"} = {} => NobodyUnpaged

Drifting == Len(recent) >= MinRows /\ DatasetDrift(recent)
Calm == Len(recent) >= MinRows /\ ~DatasetDrift(recent)

(* "A crash-looping monitor must still be able to accumulate windows"      *)
(* (fraud-RUNBOOK.md:125-127): drift that stays is paged, once, and stays  *)
(* alerted, even if the process dies after every single window.            *)
DriftIsPaged ==
  <>[]Drifting /\ <>[]~shutdown => <>[](stateFile.alerted /\ pages = 1)

(* It re-arms when drift clears (alerting.py:74): calm that stays ends the *)
(* episode, whatever was recorded before.                                  *)
CalmRearms == <>[]Calm /\ <>[]~shutdown => <>[](~stateFile.alerted /\ pages = 0)

-----------------------------------------------------------------------------
(* The promise.  What counts is what is recorded: a window that never      *)
(* reached drift_state.json has not happened.                              *)
Alerting == INSTANCE DriftAlerting WITH
  streak <- stateFile.consecutive,
  owed <- IF pc = "notify" THEN decision ELSE "nothing",
  pages <- pages

(* With saves that succeed, the monitor keeps the promise of DriftAlerting *)
(* through crashes at every step and exceptions at every other one.        *)
KeepsPromise == Alerting!Spec
=============================================================================
