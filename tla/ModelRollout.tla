---------------------------- MODULE ModelRollout ----------------------------
(***************************************************************************)
(* From training to serving: fraud/training/train.py writes a model bundle *)
(* and the drift reference next to it and may register both in MLflow;     *)
(* common/registry.py promotes a version and tells the scorer what to      *)
(* load; the scorer loads its bundle and the monitor its reference once,   *)
(* when they start.  A model is the number of the training it is from.     *)
(***************************************************************************)
EXTENDS Naturals, FiniteSets

CONSTANTS Trainers,   \* invocations of train.py that may overlap
          None, MaxTrainings, MaxPromotions

Stages == {"None", "Staging", "Production", "Archived"}
Models == 1..MaxTrainings

ASSUME BoundAssumption == MaxTrainings \in Nat /\ MaxPromotions \in Nat
ASSUME NoneAssumption == None \notin Nat

VARIABLES
  mlflow,        \* whether MLFLOW_TRACKING_URI is set
  bundle, reference,  \* model.joblib and reference.csv: the training each is of
  versions,      \* the registry: [bundle, reference, stage] by version
  trainer,       \* what each training has still to do
  scorer,        \* the running scorer: [model, label]
  monitor,       \* the reference the running monitor compares with
  trained, promotions,
  stale,         \* history: which of the two has not started since the last
                 \* file was written and the last version promoted
  broken         \* history: a training has overlapped with another or died

files == <<bundle, reference>>
services == <<scorer, monitor>>
vars == <<mlflow, files, versions, trainer, services, trained, promotions, stale, broken>>

Idle == [at |-> "idle", model |-> None, bundle |-> None, reference |-> None]
Newest == Cardinality(DOMAIN versions)

Init ==
  /\ mlflow \in BOOLEAN
  /\ bundle = None /\ reference = None
  /\ versions = << >>
  /\ trainer = [t \in Trainers |-> Idle]
  /\ scorer = None /\ monitor = None
  /\ trained = 0 /\ promotions = 0
  /\ stale = {}
  /\ broken = FALSE

-----------------------------------------------------------------------------
(* train.py: main and _log_to_mlflow *)

Busy(t) == \E u \in Trainers \ {t} : trainer[u].at # "idle"

\* The models are fitted and joblib.dump overwrites the bundle.
Dump(t) ==
  /\ trainer[t].at = "idle"
  /\ trained < MaxTrainings
  /\ trained' = trained + 1
  /\ bundle' = trained + 1
  /\ trainer' = [trainer EXCEPT ![t] = [Idle EXCEPT !.at = "reference", !.model = trained + 1]]
  /\ stale' = {"scorer", "monitor"}
  /\ broken' = (broken \/ Busy(t))
  /\ UNCHANGED <<mlflow, reference, versions, services, promotions>>

\* Mutant: a reference that is there is kept.
ReferenceKept(model) == IF reference = None THEN model ELSE reference
ReferenceOf(model) == model

\* reference.csv, and the end of a training without --register.
WriteReference(t) ==
  /\ trainer[t].at = "reference"
  /\ reference' = ReferenceOf(trainer[t].model)
  /\ stale' = {"scorer", "monitor"}
  /\ \/ trainer' = [trainer EXCEPT ![t] = Idle]
     \/ mlflow /\ trainer' = [trainer EXCEPT ![t].at = "log_bundle"]
  /\ UNCHANGED <<mlflow, bundle, versions, services, trained, promotions, broken>>

\* log_artifact uploads the files as they are by then.
LogBundle(t) ==
  /\ trainer[t].at = "log_bundle"
  /\ trainer' = [trainer EXCEPT ![t].at = "log_reference", ![t].bundle = bundle]
  /\ UNCHANGED <<mlflow, files, versions, services, trained, promotions, stale, broken>>

LogReference(t) ==
  /\ trainer[t].at = "log_reference"
  /\ trainer' = [trainer EXCEPT ![t].at = "register", ![t].reference = reference]
  /\ UNCHANGED <<mlflow, files, versions, services, trained, promotions, stale, broken>>

\* register_model: a new version without a stage.
Register(t) ==
  /\ trainer[t].at = "register"
  /\ versions' = [v \in 1..Newest + 1 |->
       IF v <= Newest THEN versions[v]
       ELSE [bundle |-> trainer[t].bundle, reference |-> trainer[t].reference, stage |-> "None"]]
  /\ trainer' = [trainer EXCEPT ![t] = Idle]
  /\ UNCHANGED <<mlflow, files, services, trained, promotions, stale, broken>>

\* A training dies, or MLflow refuses.
Die(t) ==
  /\ trainer[t].at # "idle"
  /\ trainer' = [trainer EXCEPT ![t] = Idle]
  /\ broken' = TRUE
  /\ UNCHANGED <<mlflow, files, versions, services, trained, promotions, stale>>

-----------------------------------------------------------------------------
(* common/registry.py *)

\* Mutant: archive_existing is not passed on.
StageAfterAlone(u, v, stage) == IF u = v THEN stage ELSE versions[u].stage
StageAfter(u, v, stage) ==
  IF u = v THEN stage
  ELSE IF versions[u].stage = stage THEN "Archived" ELSE versions[u].stage

\* promote: there is no gate in the code.
Promote(v, stage) ==
  /\ promotions < MaxPromotions
  /\ promotions' = promotions + 1
  /\ versions' = [u \in DOMAIN versions |-> [versions[u] EXCEPT !.stage = StageAfter(u, v, stage)]]
  /\ stale' = {"scorer", "monitor"}
  /\ UNCHANGED <<mlflow, files, trainer, services, trained, broken>>

AtStage(stage) == {v \in DOMAIN versions : versions[v].stage = stage}

\* load_bundle: what FraudScorer can be started with.  The label of a file is
\* MODEL_VERSION, whatever the file holds.
Loadable ==
  IF mlflow
  THEN {[model |-> versions[v].bundle, label |-> v] : v \in AtStage("Production")}
  ELSE {[model |-> m, label |-> None] : m \in {bundle} \ {None}}

StartScorer ==
  /\ scorer = None
  /\ \E s \in Loadable : scorer' = s
  /\ stale' = stale \ {"scorer"}
  /\ UNCHANGED <<mlflow, files, versions, trainer, monitor, trained, promotions, broken>>

\* monitor/main.py reads reference.csv next to the model file, MLflow or not.
StartMonitor ==
  /\ monitor = None
  /\ reference # None
  /\ monitor' = reference
  /\ stale' = stale \ {"monitor"}
  /\ UNCHANGED <<mlflow, files, versions, trainer, scorer, trained, promotions, broken>>

StopScorer ==
  /\ scorer # None
  /\ scorer' = None
  /\ UNCHANGED <<mlflow, files, versions, trainer, monitor, trained, promotions, stale, broken>>

StopMonitor ==
  /\ monitor # None
  /\ monitor' = None
  /\ UNCHANGED <<mlflow, files, versions, trainer, scorer, trained, promotions, stale, broken>>

Next ==
  \/ \E t \in Trainers : \/ Dump(t) \/ WriteReference(t) \/ LogBundle(t)
                         \/ LogReference(t) \/ Register(t) \/ Die(t)
  \/ \E v \in DOMAIN versions, stage \in Stages \ {"None"} : Promote(v, stage)
  \/ StartScorer \/ StartMonitor \/ StopScorer \/ StopMonitor

Spec == Init /\ [][Next]_vars

-----------------------------------------------------------------------------
(* Properties *)

\* The variables' types; a stage other than "None" and "Archived" holds one
\* version at most.
TypeOK ==
  /\ mlflow \in BOOLEAN /\ broken \in BOOLEAN
  /\ {bundle, reference, monitor} \subseteq Models \union {None}
  /\ \A v \in DOMAIN versions :
       /\ {versions[v].bundle, versions[v].reference} \subseteq Models
       /\ versions[v].stage \in Stages
  /\ \A t \in Trainers : trainer[t].model \in Models \union {None}
  /\ scorer # None => scorer.model \in Models
  /\ trained \in 0..MaxTrainings /\ promotions \in 0..MaxPromotions
  /\ stale \subseteq {"scorer", "monitor"}
  /\ \A stage \in {"Staging", "Production"} : Cardinality(AtStage(stage)) <= 1

\* The monitor compares with the distribution of the model that is served
\* (the comments in train.py and model.py rest on it), if both were started
\* after the last training and promotion, trainings neither overlap nor die,
\* and, with a registry, the last training is the one that was registered last
\* and is in production.  A registry keeps a reference with each version, but
\* nothing reads it: a rollback or a version that waits in Staging is compared
\* with the reference of the last training.
LastIsServed ==
  mlflow => /\ Newest > 0
            /\ versions[Newest].stage = "Production"
            /\ versions[Newest].bundle = trained
ReferenceFits ==
  /\ ~broken
  /\ stale = {}
  /\ \A t \in Trainers : trainer[t].at = "idle"
  /\ scorer # None /\ monitor # None
  /\ LastIsServed
  => /\ monitor = scorer.model
     /\ mlflow => versions[scorer.label].reference = scorer.model
=============================================================================
