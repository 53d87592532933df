------------------------- MODULE DriftMonitor_proof -------------------------
(***************************************************************************)
(* Proofs about DriftMonitor, for every Required, MaxStreak, Limit,        *)
(* MinRows and every choice of faults; a fault a theorem excludes is in    *)
(* its hypothesis.                                                         *)
(***************************************************************************)
EXTENDS DriftMonitor, TLAPS

(* Rows only enter the table at its end and leave it at its front.         *)
LEMMA NewestType ==
  ASSUME NEW s \in Seq(BOOLEAN), NEW b \in BOOLEAN
  PROVE  Newest(Append(s, b)) \in Seq(BOOLEAN)
<1>1. Append(s, b) \in Seq(BOOLEAN) /\ Append(s, b) # <<>>
  OBVIOUS
<1>2. Tail(Append(s, b)) \in Seq(BOOLEAN)
  BY <1>1
<1> QED BY <1>1, <1>2 DEF Newest

(* DriftTrigger.observe keeps the trigger well formed and decides one of   *)
(* three things.                                                           *)
LEMMA ObservedType ==
  ASSUME NEW t \in Trigger, NEW d \in BOOLEAN
  PROVE  /\ Observed(t, d) \in Trigger
         /\ Decide(t, d) \in {"nothing", "page", "clear"}
         /\ Counted(t, d) \in 0 .. MaxStreak
<1>1. t.consecutive \in 0 .. MaxStreak /\ t.alerted \in BOOLEAN
  BY DEF Trigger
<1>2. Counted(t, d) \in 0 .. MaxStreak
  BY <1>1, MonitorAssumption DEF Counted, Longer
<1>3. Decide(t, d) \in {"nothing", "page", "clear"}
  BY DEF Decide
<1>4. (CASE Decide(t, d) = "page" -> TRUE
         [] Decide(t, d) = "clear" -> FALSE
         [] OTHER -> t.alerted) \in BOOLEAN
  BY <1>1, <1>3
<1> QED BY <1>2, <1>3, <1>4 DEF Observed, Trigger

(* DriftTrigger.observe keeps the armed flag and the streak together: the  *)
(* flag is set at the window the streak reaches Required and dropped at    *)
(* the window that ends it (alerting.py:76-89).                            *)
LEMMA ObservedArmed ==
  ASSUME NEW t \in Trigger, NEW d \in BOOLEAN,
         t.alerted <=> t.consecutive >= Required
  PROVE  Observed(t, d).alerted <=> Observed(t, d).consecutive >= Required
BY MonitorAssumption DEF Observed, Decide, Counted, Longer, Trigger

(* Every step keeps every variable in its type.                            *)
LEMMA TypeStep == TypeOK /\ [Next]_vars => TypeOK'
<1> SUFFICES ASSUME TypeOK, [Next]_vars PROVE TypeOK'
  OBVIOUS
<1> USE DEF TypeOK, Steps, Shares, history
<1>1. ASSUME NEW shifted \in BOOLEAN, Arrive(shifted) PROVE TypeOK'
  BY <1>1, NewestType DEF Arrive, program, history
<1>2. CASE Restart \/ StartAgain
  BY <1>2 DEF Restart, StartAgain, Boot, Load, history
<1>3. CASE Signal
  BY <1>3 DEF Signal, Up, history
<1>4. CASE Wake
  BY <1>4, MonitorAssumption DEF Wake, Trigger, Clean, history
<1>5. CASE Crash
  BY <1>5, MonitorAssumption DEF Crash, Trigger, Clean, history
<1>6. CASE LoseState
  BY <1>6, MonitorAssumption DEF LoseState, Trigger, Clean, history
<1>7. CASE Skip
  BY <1>7 DEF Skip, history
<1>8. CASE Fetch
  <2>1. DriftShare(recent) \in Shares /\ DatasetDrift(recent) \in BOOLEAN
    BY DEF DriftShare, DatasetDrift
  <2>2. PICK share \in Shares :
          metric' = [drift_share |-> share, dataset_drift |-> DatasetDrift(recent)]
    BY <1>8, <2>1, Zenon DEF Fetch
  <2>3. metric' \in [drift_share : Shares, dataset_drift : BOOLEAN]
    BY <2>1, <2>2
  <2> QED BY <1>8, <2>3 DEF Fetch
<1>9. CASE WriteHtml
  BY <1>9 DEF WriteHtml
<1>10. CASE Observe
  <2>1. Drifted \in BOOLEAN
    BY DEF Drifted
  <2>2. trigger' \in Trigger /\ decision' \in {"nothing", "page", "clear"}
    BY <1>10, <2>1, ObservedType DEF Observe
  <2> QED BY <1>10, <2>2 DEF Observe, history
<1>11. CASE Save
  BY <1>11 DEF Save, PagesAfterWindow
<1>12. CASE Notify
  BY <1>12 DEF Notify, PagesAfterTelling
<1>13. CASE WriteJson
  BY <1>13 DEF WriteJson, Trigger
<1>14. CASE MlReport
  BY <1>14 DEF MlReport
<1>15. CASE Raise
  BY <1>15 DEF Raise, PagesAfterWindow, PagesAfterTelling
<1>16. CASE UNCHANGED vars
  BY <1>16 DEF vars, program, history
<1> QED
  BY <1>1, <1>2, <1>3, <1>4, <1>5, <1>6, <1>7, <1>8, <1>9, <1>10, <1>11, <1>12,
     <1>13, <1>14, <1>15, <1>16 DEF Next, RunOnce

(* Type correctness, for every instance and every combination of faults.   *)
THEOREM TypeCorrect == Spec => []TypeOK
<1>1. Init => TypeOK
  <2> SUFFICES ASSUME Init PROVE TypeOK
    OBVIOUS
  <2>1. recent \in Seq(BOOLEAN)
    BY DEF Init
  <2>2. Clean \in Trigger /\ 0 \in 0 .. MaxStreak
    BY MonitorAssumption DEF Clean, Trigger
  <2>3. metric \in [drift_share : Shares, dataset_drift : BOOLEAN]
    BY DEF Init, Shares
  <2>4. json \in [drift_share : Shares, consecutive_drifted_windows : 0 .. MaxStreak,
                  retrain_recommended : BOOLEAN]
    BY <2>2 DEF Init, Shares
  <2>5. trigger \in Trigger /\ stateFile \in Trigger
    BY <2>2 DEF Init
  <2>6. decision \in {"nothing", "page", "clear"} /\ html \in Shares /\ pc \in Steps \cup {"down"}
    BY DEF Init, Shares
  <2>7. pages \in 0 .. 2
    BY DEF Init
  <2> QED BY <2>1, <2>3, <2>4, <2>5, <2>6, <2>7 DEF Init, TypeOK
<1> QED BY <1>1, TypeStep, PTL DEF Spec

-----------------------------------------------------------------------------
(* The armed flag is the streak.                                           *)

LEMMA ArmedStep == TypeOK /\ AlertedIffLongStreak /\ [Next]_vars => AlertedIffLongStreak'
<1> SUFFICES ASSUME TypeOK, AlertedIffLongStreak, [Next]_vars
             PROVE  AlertedIffLongStreak'
  OBVIOUS
<1>0. Clean.alerted <=> Clean.consecutive >= Required
  BY MonitorAssumption DEF Clean
<1>1. CASE UNCHANGED <<trigger, stateFile>>
  BY <1>1 DEF AlertedIffLongStreak
<1>2. CASE Observe
  <2>1. trigger \in Trigger /\ Drifted \in BOOLEAN
    BY DEF TypeOK, Drifted
  <2>2. trigger.alerted <=> trigger.consecutive >= Required
    BY DEF AlertedIffLongStreak
  <2>3. trigger'.alerted <=> trigger'.consecutive >= Required
    BY <1>2, <2>1, <2>2, ObservedArmed DEF Observe
  <2> QED BY <1>2, <2>3 DEF Observe, AlertedIffLongStreak
<1>3. CASE trigger' \in {trigger, stateFile, Clean} /\ stateFile' \in {trigger, stateFile, Clean}
  BY <1>0, <1>3 DEF AlertedIffLongStreak
<1>4. ASSUME NEW shifted \in BOOLEAN, Arrive(shifted) PROVE UNCHANGED <<trigger, stateFile>>
  BY <1>4 DEF Arrive, program
<1>5. CASE Restart \/ StartAgain \/ Signal \/ Wake \/ Crash \/ LoseState
  <2>1. trigger' \in {trigger, stateFile, Clean} /\ stateFile' \in {trigger, stateFile, Clean}
    BY <1>5 DEF Restart, StartAgain, Boot, Load, Signal, Wake, Crash, LoseState
  <2> QED BY <2>1, <1>3
<1>6. CASE Save
  BY <1>3, <1>6 DEF Save
<1>7. CASE Skip \/ Fetch \/ WriteHtml \/ Notify \/ WriteJson \/ MlReport \/ Raise
  <2>1. UNCHANGED <<trigger, stateFile>>
    BY <1>7 DEF Skip, Fetch, WriteHtml, Notify, WriteJson, MlReport, Raise
  <2> QED BY <2>1, <1>1
<1>8. CASE UNCHANGED vars
  BY <1>1, <1>8 DEF vars, program
<1> QED BY <1>1, <1>2, <1>4, <1>5, <1>6, <1>7, <1>8 DEF Next, RunOnce

(* An alerted trigger is exactly one whose streak is long enough, whatever *)
(* crashes, failed saves and unreadable files come between.                *)
THEOREM ArmedIsStreak == Spec => []AlertedIffLongStreak
<1>1. Init => AlertedIffLongStreak
  BY MonitorAssumption DEF Init, AlertedIffLongStreak, Clean
<1> QED BY <1>1, ArmedStep, TypeCorrect, PTL DEF Spec

-----------------------------------------------------------------------------
(* One page per episode.  The page is tried only after the state is saved, *)
(* so while one has been tried the file is armed, and so is every trigger  *)
(* loaded from it, until a clear window is observed.                       *)

PageInv == "lost" \notin mishaps =>
  /\ pages <= 1
  /\ pages = 1 => stateFile.alerted
  /\ pages = 1 /\ Up /\ (pc # "save" \/ Drifted) => trigger.alerted
  /\ pc \in {"save", "notify"} /\ decision = "page" =>
       pages = 0 /\ trigger.alerted /\ Drifted
  /\ pc = "notify" /\ decision = "page" => stateFile.alerted

(* What observe() decides: a page needs a drifted window and a disarmed    *)
(* trigger and arms it, a drifted window never disarms, a clear one always *)
(* does, and without a page nothing arms.                                  *)
LEMMA Decisions ==
  ASSUME NEW t \in Trigger, NEW d \in BOOLEAN
  PROVE  /\ Decide(t, d) = "page" => d /\ ~t.alerted /\ Observed(t, d).alerted
         /\ d /\ t.alerted => Observed(t, d).alerted
         /\ Observed(t, d).alerted /\ Decide(t, d) # "page" => d /\ t.alerted
         /\ ~d => ~Observed(t, d).alerted
<1>1. t.alerted \in BOOLEAN
  BY DEF Trigger
<1>2. Decide(t, d) = "page" => d /\ ~t.alerted
  BY <1>1, MonitorAssumption DEF Decide, Counted
<1>3. d /\ t.alerted => Decide(t, d) = "nothing"
  BY <1>1 DEF Decide
<1>4. ~d => Decide(t, d) = IF t.alerted THEN "clear" ELSE "nothing"
  BY <1>1, MonitorAssumption DEF Decide, Counted
<1> QED BY <1>1, <1>2, <1>3, <1>4 DEF Observed

LEMMA PageStep == TypeOK /\ PageInv /\ [Next]_vars => PageInv'
<1> SUFFICES ASSUME TypeOK, PageInv, [Next]_vars PROVE PageInv'
  OBVIOUS
<1> USE DEF PageInv, Up, Drifted, history
<1>1. ASSUME NEW shifted \in BOOLEAN, Arrive(shifted) PROVE PageInv'
  BY <1>1 DEF Arrive, program
<1>2. CASE Restart \/ StartAgain
  BY <1>2 DEF Restart, StartAgain, Boot, Load
<1>3. CASE Signal \/ Wake \/ Crash
  BY <1>3 DEF Signal, Wake, Crash, history
<1>4. CASE LoseState
  BY <1>4 DEF LoseState
<1>5. CASE Skip \/ Fetch \/ WriteHtml
  BY <1>5 DEF Skip, Fetch, WriteHtml, history
<1>6. CASE Observe
  <2>1. trigger \in Trigger /\ Drifted \in BOOLEAN
    BY DEF TypeOK
  <2>2. decision' = "page" => Drifted /\ ~trigger.alerted /\ trigger'.alerted
    BY <1>6, <2>1, Decisions DEF Observe
  <2>3. Drifted /\ trigger.alerted => trigger'.alerted
    BY <1>6, <2>1, Decisions DEF Observe
  <2>4. pages \in Nat
    BY DEF TypeOK
  <2> QED BY <1>6, <2>2, <2>3, <2>4 DEF Observe
<1>7. CASE Save
  BY <1>7 DEF Save, PagesAfterWindow
<1>8. CASE Notify
  BY <1>8 DEF Notify, PagesAfterTelling, TypeOK
<1>9. CASE WriteJson \/ MlReport
  BY <1>9 DEF WriteJson, MlReport
<1>10. CASE Raise
  <2>1. pages \in Nat
    BY DEF TypeOK
  <2>2. CASE pc = "save"
    BY <1>10, <2>1, <2>2 DEF Raise, PagesAfterWindow
  <2>3. CASE pc = "notify"
    BY <1>10, <2>1, <2>3 DEF Raise, PagesAfterTelling
  <2>4. CASE pc \notin {"save", "notify"}
    <3>1. pc # "down"
      BY <1>10, MonitorAssumption DEF Raise
    <3> QED BY <1>10, <2>4, <3>1 DEF Raise
  <2> QED BY <2>2, <2>3, <2>4
<1>11. CASE UNCHANGED vars
  BY <1>11 DEF vars, program, history
<1> QED
  BY <1>1, <1>2, <1>3, <1>4, <1>5, <1>6, <1>7, <1>8, <1>9, <1>10, <1>11 DEF Next, RunOnce

(* As long as drift_state.json stays readable, one episode of drift tries  *)
(* at most one page, through any crashes and failed saves.                 *)
THEOREM OnePage == Spec => []OnePagePerEpisode
<1>1. Init => PageInv
  BY DEF Init, PageInv, Up
<1>2. PageInv => OnePagePerEpisode
  BY DEF PageInv, OnePagePerEpisode
<1> QED BY <1>1, <1>2, PageStep, TypeCorrect, PTL DEF Spec

-----------------------------------------------------------------------------
(* Memory and file, when saves succeed.                                    *)

PersistInv == mishaps \cap {"lost", "unsaved"} = {} =>
  /\ Up /\ pc # "save" => trigger = stateFile
  /\ pc = "save" => /\ trigger = Observed(stateFile, Drifted)
                    /\ decision = Decide(stateFile, Drifted)

LEMMA PersistStep == PersistInv /\ [Next]_vars => PersistInv'
<1> SUFFICES ASSUME PersistInv, [Next]_vars PROVE PersistInv'
  OBVIOUS
<1> USE DEF PersistInv, Up, Drifted, history
<1>1. ASSUME NEW shifted \in BOOLEAN, Arrive(shifted) PROVE PersistInv'
  BY <1>1 DEF Arrive, program
<1>2. CASE Restart \/ StartAgain \/ Signal \/ Wake \/ Crash \/ LoseState
  BY <1>2 DEF Restart, StartAgain, Boot, Load, Signal, Wake, Crash, LoseState
<1>3. CASE Skip \/ Fetch \/ WriteHtml \/ Notify \/ WriteJson \/ MlReport
  BY <1>3 DEF Skip, Fetch, WriteHtml, Notify, WriteJson, MlReport
<1>4. CASE Observe
  BY <1>4 DEF Observe
<1>5. CASE Save
  BY <1>5 DEF Save
<1>6. CASE Raise
  <2>1. pc # "down"
    BY <1>6, MonitorAssumption DEF Raise
  <2> QED BY <1>6, <2>1 DEF Raise
<1>7. CASE UNCHANGED vars
  BY <1>7 DEF vars, program
<1> QED BY <1>1, <1>2, <1>3, <1>4, <1>5, <1>6, <1>7 DEF Next, RunOnce

(* Outside its saving step the process and drift_state.json agree, so a    *)
(* restart resumes with what the process knew.                             *)
THEOREM Resumes == Spec => []RestartResumes
<1>1. Init => PersistInv
  BY DEF Init, PersistInv, Up
<1>2. PersistInv => RestartResumes
  BY DEF PersistInv, RestartResumes
<1> QED BY <1>1, <1>2, PersistStep, PTL DEF Spec

-----------------------------------------------------------------------------
(* The reports.  latest.html is written first, so the pair is broken from  *)
(* then on until latest.json is; by that time the state is saved.          *)

ReportInv ==
  /\ ReportsAgree
  /\ pc \in {"observe", "save", "notify", "json"} => ~paired /\ html = metric.drift_share
  /\ pc = "ml" => paired
  /\ "lost" \notin mishaps =>
       /\ paired /\ Up => trigger = stateFile
       /\ pc \in {"notify", "json"} => trigger = stateFile

LEMMA ReportStep == TypeOK /\ ReportInv /\ [Next]_vars => ReportInv'
<1> SUFFICES ASSUME TypeOK, ReportInv, [Next]_vars PROVE ReportInv'
  OBVIOUS
<1> USE DEF ReportInv, ReportsAgree, Up, history
<1>1. ASSUME NEW shifted \in BOOLEAN, Arrive(shifted) PROVE ReportInv'
  BY <1>1 DEF Arrive, program
<1>2. CASE Restart \/ StartAgain \/ Signal \/ Wake \/ Crash \/ LoseState
  BY <1>2 DEF Restart, StartAgain, Boot, Load, Signal, Wake, Crash, LoseState, history
<1>3. CASE Skip \/ Fetch
  BY <1>3 DEF Skip, Fetch, history
<1>4. CASE WriteHtml
  BY <1>4 DEF WriteHtml
<1>5. CASE Observe
  BY <1>5 DEF Observe
<1>6. CASE Save
  BY <1>6 DEF Save
<1>7. CASE Notify
  BY <1>7 DEF Notify
<1>8. CASE WriteJson
  BY <1>8 DEF WriteJson
<1>9. CASE MlReport
  BY <1>9 DEF MlReport
<1>10. CASE Raise
  <2>1. pc \in {"fetch", "html", "observe", "save", "notify", "json"}
    BY <1>10, MonitorAssumption DEF Raise
  <2> QED BY <1>10, <2>1 DEF Raise
<1>11. CASE UNCHANGED vars
  BY <1>11 DEF vars, program, history
<1> QED
  BY <1>1, <1>2, <1>3, <1>4, <1>5, <1>6, <1>7, <1>8, <1>9, <1>10, <1>11 DEF Next, RunOnce

(* A matching pair of reports agrees with the state file, and the second   *)
(* backend's report is never ahead of them, wherever windows are cut.      *)
THEOREM Reports == Spec => []ReportsAgree
<1>1. Init => ReportInv
  BY DEF Init, ReportInv, ReportsAgree, Up
<1>2. ReportInv => ReportsAgree
  BY DEF ReportInv
<1> QED BY <1>1, <1>2, ReportStep, TypeCorrect, PTL DEF Spec

-----------------------------------------------------------------------------
(* No alerted monitor without its page.                                    *)

DurableInv == mishaps \cap {"unsaved", "unsent"} = {} =>
  /\ stateFile.alerted /\ ~(pc = "notify" /\ decision = "page") => pages >= 1
  /\ Up /\ trigger.alerted /\ ~(pc \in {"save", "notify"} /\ decision = "page")
       => pages >= 1
  /\ pc = "save" /\ ~Drifted => ~trigger.alerted

LEMMA DurableStep == TypeOK /\ DurableInv /\ [Next]_vars => DurableInv'
<1> SUFFICES ASSUME TypeOK, DurableInv, [Next]_vars PROVE DurableInv'
  OBVIOUS
<1> USE DEF DurableInv, Up, Drifted, history
<1>1. ASSUME NEW shifted \in BOOLEAN, Arrive(shifted) PROVE DurableInv'
  BY <1>1 DEF Arrive, program
<1>2. CASE Restart \/ StartAgain \/ Signal \/ Wake \/ Crash \/ LoseState
  BY <1>2 DEF Restart, StartAgain, Boot, Load, Signal, Wake, Crash, LoseState, Clean
<1>3. CASE Skip \/ Fetch \/ WriteHtml \/ WriteJson \/ MlReport
  BY <1>3 DEF Skip, Fetch, WriteHtml, WriteJson, MlReport
<1>4. CASE Observe
  <2>1. trigger \in Trigger /\ Drifted \in BOOLEAN
    BY DEF TypeOK
  <2>2. trigger'.alerted /\ decision' # "page" => trigger.alerted /\ Drifted
    BY <1>4, <2>1, Decisions DEF Observe
  <2>3. ~Drifted => ~trigger'.alerted
    BY <1>4, <2>1, Decisions DEF Observe
  <2> QED BY <1>4, <2>2, <2>3 DEF Observe
<1>5. CASE Save
  BY <1>5 DEF Save, PagesAfterWindow
<1>6. CASE Notify
  BY <1>6 DEF Notify, PagesAfterTelling, TypeOK
<1>7. CASE Raise
  <2>1. pc \in {"fetch", "html", "observe", "save", "notify", "json"} /\ pages \in Nat
    BY <1>7, MonitorAssumption DEF Raise, TypeOK
  <2>2. CASE pc = "notify"
    BY <1>7, <2>1, <2>2 DEF Raise, PagesAfterTelling
  <2>3. CASE pc # "notify"
    BY <1>7, <2>1, <2>3 DEF Raise
  <2> QED BY <2>2, <2>3
<1>8. CASE UNCHANGED vars
  BY <1>8 DEF vars, program
<1> QED BY <1>1, <1>2, <1>3, <1>4, <1>5, <1>6, <1>7, <1>8 DEF Next, RunOnce

(* The two places where a page can be lost are a save that fails and a     *)
(* death between the save and the message: without them, whoever finds the *)
(* monitor alerted has been paged for it.                                  *)
THEOREM Paged == Spec => []OnlyTwoWaysUnpaged
<1>1. Init => DurableInv
  BY DEF Init, DurableInv, Up, Clean
<1>2. DurableInv => OnlyTwoWaysUnpaged
  BY DEF DurableInv, OnlyTwoWaysUnpaged, NobodyUnpaged, Up
<1> QED BY <1>1, <1>2, DurableStep, TypeCorrect, PTL DEF Spec

-----------------------------------------------------------------------------
(* The monitor implements DriftAlerting.  Save is where a window is        *)
(* recorded; the promise has no armed flag, so the step rests on           *)
(* AlertedIffLongStreak, and on the file holding what the trigger was      *)
(* loaded from.                                                            *)

LEMMA RecordStep ==
  ASSUME NEW t \in Trigger, NEW d \in BOOLEAN,
         t.alerted <=> t.consecutive >= Required
  PROVE  /\ Observed(t, d).consecutive = IF d THEN Alerting!Longer(t.consecutive) ELSE 0
         /\ Decide(t, d) =
              IF d THEN IF /\ t.consecutive < Required
                           /\ Alerting!Longer(t.consecutive) >= Required
                        THEN "page" ELSE "nothing"
                   ELSE IF t.consecutive >= Required THEN "clear" ELSE "nothing"
<1>1. t.consecutive \in 0 .. MaxStreak /\ t.alerted \in BOOLEAN
  BY DEF Trigger
<1>2. Alerting!Longer(t.consecutive) = Longer(t.consecutive)
  BY DEF Alerting!Longer, Longer
<1>3. Longer(t.consecutive) \in Nat
  BY <1>1, MonitorAssumption DEF Longer
<1>4. Observed(t, d).consecutive = IF d THEN Alerting!Longer(t.consecutive) ELSE 0
  BY <1>2 DEF Observed, Counted
<1>5. CASE d
  <2>1. (Longer(t.consecutive) >= Required /\ ~t.alerted)
          <=> (t.consecutive < Required /\ Longer(t.consecutive) >= Required)
    BY <1>1, <1>3, MonitorAssumption
  <2> QED BY <1>2, <1>4, <1>5, <2>1 DEF Decide, Counted
<1>6. CASE ~d
  <2>1. ~(Counted(t, d) >= Required)
    BY <1>6, MonitorAssumption DEF Counted
  <2> QED BY <1>1, <1>4, <1>6, <2>1 DEF Decide
<1> QED BY <1>5, <1>6

\* What the hypotheses of the theorem are for.
Recorded == mishaps \cap {"lost", "unsaved"} = {}

LEMMA RecordedStep ==
  ASSUME StateLoss = FALSE, "save" \notin RaisePoints
  PROVE  Recorded /\ [Next]_vars => Recorded'
<1> SUFFICES ASSUME Recorded, [Next]_vars PROVE Recorded'
  OBVIOUS
<1> USE DEF Recorded, history
<1>1. ASSUME NEW shifted \in BOOLEAN, Arrive(shifted) PROVE Recorded'
  BY <1>1 DEF Arrive
<1>2. CASE Restart \/ StartAgain \/ Signal \/ Wake \/ Crash \/ LoseState
  BY <1>2 DEF Restart, StartAgain, Boot, Signal, Wake, Crash, LoseState
<1>3. CASE RunOnce
  BY <1>3 DEF RunOnce, Skip, Fetch, WriteHtml, Observe, Save, Notify, WriteJson, MlReport
<1>4. CASE Raise
  BY <1>4 DEF Raise
<1>5. CASE UNCHANGED vars
  BY <1>5 DEF vars
<1> QED BY <1>1, <1>2, <1>3, <1>4, <1>5 DEF Next

LEMMA StepSimulation ==
  TypeOK /\ AlertedIffLongStreak /\ PageInv /\ PersistInv /\ Recorded /\ Recorded'
    /\ [Next]_vars => [Alerting!Next]_(Alerting!vars)
<1> SUFFICES ASSUME TypeOK, AlertedIffLongStreak, PageInv, PersistInv,
                    Recorded, Recorded', [Next]_vars
             PROVE  Alerting!Next \/ UNCHANGED Alerting!vars
  OBVIOUS
<1> USE DEF Alerting!vars, history, Recorded
<1>1. ASSUME NEW shifted \in BOOLEAN, Arrive(shifted) PROVE UNCHANGED Alerting!vars
  BY <1>1 DEF Arrive, program
<1>2. CASE Restart \/ StartAgain \/ Signal \/ Wake \/ LoseState
  BY <1>2 DEF Restart, StartAgain, Boot, Signal, Wake, LoseState, history
<1>3. CASE Crash
  <2>1. CASE pc = "notify" /\ decision # "nothing"
    BY <1>3, <2>1 DEF Crash, history, Alerting!Next, Alerting!Forget
  <2>2. CASE ~(pc = "notify" /\ decision # "nothing")
    BY <1>3, <2>2 DEF Crash, history
  <2> QED BY <2>1, <2>2
<1>4. CASE Skip \/ Fetch \/ WriteHtml \/ Observe \/ WriteJson \/ MlReport
  BY <1>4 DEF Skip, Fetch, WriteHtml, Observe, WriteJson, MlReport, history
<1>5. CASE Save
  <2>1. stateFile \in Trigger /\ Drifted \in BOOLEAN
    BY DEF TypeOK, Drifted
  <2>2. stateFile' = Observed(stateFile, Drifted) /\ decision' = Decide(stateFile, Drifted)
    BY <1>5 DEF Save, PersistInv
  <2>3. stateFile.alerted <=> stateFile.consecutive >= Required
    BY DEF AlertedIffLongStreak
  <2>4. CASE Drifted
    <3>1. /\ Observed(stateFile, Drifted).consecutive = Alerting!Longer(stateFile.consecutive)
          /\ Decide(stateFile, Drifted) =
               IF /\ stateFile.consecutive < Required
                  /\ Alerting!Longer(stateFile.consecutive) >= Required
               THEN "page" ELSE "nothing"
      BY <2>1, <2>3, <2>4, RecordStep
    <3>2. /\ stateFile'.consecutive = Alerting!Longer(stateFile.consecutive)
          /\ decision' = IF /\ stateFile.consecutive < Required
                            /\ stateFile'.consecutive >= Required
                         THEN "page" ELSE "nothing"
      BY <2>2, <3>1, Zenon
    <3>3. pc' = "notify" /\ UNCHANGED pages
      BY <1>5, <2>4 DEF Save, PagesAfterWindow
    <3>4. Alerting!DriftedWindow
      BY <3>2, <3>3 DEF Alerting!DriftedWindow
    <3> QED BY <3>4 DEF Alerting!Next
  <2>5. CASE ~Drifted
    <3>1. /\ Observed(stateFile, Drifted).consecutive = 0
          /\ Decide(stateFile, Drifted) =
               IF stateFile.consecutive >= Required THEN "clear" ELSE "nothing"
      BY <2>1, <2>3, <2>5, RecordStep
    <3>2. /\ stateFile'.consecutive = 0
          /\ decision' = IF stateFile.consecutive >= Required THEN "clear" ELSE "nothing"
      BY <2>2, <3>1, Zenon
    <3>3. pc' = "notify" /\ pages' = 0
      BY <1>5, <2>5 DEF Save, PagesAfterWindow
    <3>4. Alerting!ClearWindow
      BY <3>2, <3>3 DEF Alerting!ClearWindow
    <3> QED BY <3>4 DEF Alerting!Next
  <2> QED BY <2>4, <2>5
<1>6. CASE Notify \/ (pc = "notify" /\ Raise)
  <2>1. pc = "notify" /\ pc' # "notify" /\ UNCHANGED stateFile
    BY <1>6 DEF Notify, Raise
  <2>2. pages' = PagesAfterTelling
    BY <1>6 DEF Notify, Raise
  <2>3. pages' = IF decision = "page" THEN pages + 1 ELSE pages
    BY <2>1, <2>2 DEF PagesAfterTelling, PageInv
  <2>4. CASE decision = "nothing"
    BY <2>1, <2>3, <2>4
  <2>5. CASE decision # "nothing"
    BY <2>1, <2>3, <2>5 DEF Alerting!Next, Alerting!Tell
  <2> QED BY <2>4, <2>5
<1>7. CASE pc # "notify" /\ Raise
  <2>1. pc \in {"fetch", "html", "observe", "json"}
    BY <1>7, MonitorAssumption DEF Raise, TypeOK
  <2> QED BY <1>7, <2>1 DEF Raise
<1>8. CASE UNCHANGED vars
  BY <1>8 DEF vars, program, history
<1> QED BY <1>1, <1>2, <1>3, <1>4, <1>5, <1>6, <1>7, <1>8 DEF Next, RunOnce

(* With saves that succeed, every behaviour of the monitor, its crashes,   *)
(* exceptions and restarts included, is one that DriftAlerting allows.     *)
THEOREM Implements ==
  ASSUME StateLoss = FALSE, "save" \notin RaisePoints
  PROVE  Spec => KeepsPromise
<1>1. Init => Alerting!Init
  BY DEF Init, Alerting!Init, Clean
<1>2. Init => PageInv /\ PersistInv /\ AlertedIffLongStreak /\ Recorded
  BY MonitorAssumption
     DEF Init, PageInv, PersistInv, AlertedIffLongStreak, Recorded, Up, Clean
<1> QED
  BY <1>1, <1>2, PageStep, PersistStep, ArmedStep, RecordedStep, TypeCorrect,
     StepSimulation, PTL
     DEF Spec, KeepsPromise, Alerting!Spec

-----------------------------------------------------------------------------
(* What the promise is worth: a run of drifted windows never raises two    *)
(* pages, nor one before it is long enough (alerting.py:72-74).  With      *)
(* Implements it says the same of what the monitor has recorded.           *)

PromiseInv ==
  /\ stateFile.consecutive \in 0 .. MaxStreak
  /\ pages \in Nat
  /\ Alerting!OnePagePerRun

THEOREM PromiseMeansOnePage == Alerting!Spec => []Alerting!OnePagePerRun
<1> USE DEF PromiseInv, Alerting!OnePagePerRun
<1>1. Alerting!Init => PromiseInv
  BY MonitorAssumption DEF Alerting!Init
<1>2. PromiseInv /\ [Alerting!Next]_(Alerting!vars) => PromiseInv'
  <2> SUFFICES ASSUME PromiseInv, [Alerting!Next]_(Alerting!vars) PROVE PromiseInv'
    OBVIOUS
  <2>1. CASE Alerting!DriftedWindow
    BY <2>1, MonitorAssumption DEF Alerting!DriftedWindow, Alerting!Longer
  <2>2. CASE Alerting!ClearWindow
    BY <2>2, MonitorAssumption DEF Alerting!ClearWindow
  <2>3. CASE Alerting!Tell
    BY <2>3 DEF Alerting!Tell
  <2>4. CASE Alerting!Forget
    BY <2>4 DEF Alerting!Forget
  <2>5. CASE UNCHANGED Alerting!vars
    BY <2>5 DEF Alerting!vars
  <2> QED BY <2>1, <2>2, <2>3, <2>4, <2>5 DEF Alerting!Next
<1> QED BY <1>1, <1>2, PTL DEF Alerting!Spec
=============================================================================
