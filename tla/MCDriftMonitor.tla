--------------------------- MODULE MCDriftMonitor ---------------------------
(* Small instances of DriftMonitor for TLC.                                *)
EXTENDS DriftMonitor

AllSteps == Steps
AllRaise == {"fetch", "html", "observe", "save", "notify", "json"}

\* Every window gets as far as its page.
AfterTheMessage == {"json", "ml", "sleep"}
AtTheEnd == {"notify", "json"}
=============================================================================
