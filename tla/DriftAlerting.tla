--------------------------- MODULE DriftAlerting ---------------------------
(***************************************************************************)
(* What the drift alerting of the monitor promises, whatever its process,  *)
(* its files and its webhook do (docs/absorbed/fraud-RUNBOOK.md, "The      *)
(* alert fires once on the transition into a drifted state, not every      *)
(* window, and re-arms when drift clears").                                *)
(*                                                                         *)
(* Windows are recorded one at a time.  The only memory is the length of   *)
(* the current run of drifted windows: there is no armed or disarmed flag. *)
(* A page is owed at the moment the run reaches Required, an all-clear     *)
(* when a run that long ends, and what is owed is said at most once.       *)
(***************************************************************************)
EXTENDS Naturals

CONSTANTS Required,   \* DRIFT_CONSECUTIVE_WINDOWS
          MaxStreak   \* runs of this length or more are not told apart

VARIABLES streak,  \* drifted windows recorded since the last clear one
          owed,    \* what the operators have to be told
          pages    \* pages raised in the current run of drifted windows

vars == <<streak, owed, pages>>

Messages == {"nothing", "page", "clear"}

\* A run one window longer.
Longer(n) == IF n < MaxStreak THEN n + 1 ELSE MaxStreak

Init ==
  /\ streak = 0
  /\ owed = "nothing"
  /\ pages = 0

DriftedWindow ==
  /\ streak' = Longer(streak)
  /\ owed' = IF streak < Required /\ streak' >= Required THEN "page" ELSE "nothing"
  /\ UNCHANGED pages

ClearWindow ==
  /\ streak' = 0
  /\ owed' = IF streak >= Required THEN "clear" ELSE "nothing"
  /\ pages' = 0

\* The message is sent (or tried: nobody waits for Slack to confirm it).
Tell ==
  /\ owed # "nothing"
  /\ owed' = "nothing"
  /\ pages' = IF owed = "page" THEN pages + 1 ELSE pages
  /\ UNCHANGED streak

\* The message is dropped: nothing promises that it is sent at all.
Forget ==
  /\ owed # "nothing"
  /\ owed' = "nothing"
  /\ UNCHANGED <<streak, pages>>

Next == DriftedWindow \/ ClearWindow \/ Tell \/ Forget

Spec == Init /\ [][Next]_vars

-----------------------------------------------------------------------------
(* One page per run of drifted windows, and only when the run was long     *)
(* enough: what DriftTrigger.observe says of itself (alerting.py:72-74).   *)
OnePagePerRun ==
  /\ pages <= 1
  /\ pages = 1 => streak >= Required
  /\ owed = "page" => pages = 0 /\ streak >= Required
=============================================================================
