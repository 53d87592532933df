------------------------- MODULE ModelRollout_proof -------------------------
(* Proofs about ModelRollout, for any number of trainers, trainings and    *)
(* promotions.                                                             *)
EXTENDS ModelRollout, FiniteSetTheorems, TLAPS

Works == [at : {"idle", "reference", "log_bundle", "log_reference", "register"},
          model : Models \union {None}, bundle : Models \union {None},
          reference : Models \union {None}]
Version == [bundle : Models, reference : Models, stage : Stages]

Logging == {"log_bundle", "log_reference", "register"}

Types ==
  /\ mlflow \in BOOLEAN /\ broken \in BOOLEAN
  /\ bundle \in Models \union {None}
  /\ reference \in Models \union {None}
  /\ monitor \in Models \union {None}
  /\ scorer = None \/ scorer \in [model : Models, label : Nat \union {None}]
  /\ trainer \in [Trainers -> Works]
  /\ \E n \in Nat : versions \in [1..n -> Version]
  /\ trained \in 0..MaxTrainings /\ promotions \in 0..MaxPromotions
  /\ stale \subseteq {"scorer", "monitor"}

\* The bundle is the last training's, and an upload has files to upload.
Uploads ==
  /\ trained # 0 => bundle = trained
  /\ trained = 0 => bundle = None
  /\ \A t \in Trainers :
       /\ trainer[t].at # "idle" => trained # 0 /\ trainer[t].model \in Models
       /\ trainer[t].at \in Logging => reference \in Models
       /\ trainer[t].at \in {"log_reference", "register"} => trainer[t].bundle \in Models
       /\ trainer[t].at = "register" => trainer[t].reference \in Models

\* One version holds a stage that is not an end of its life.
OneHolder ==
  \A u, v \in DOMAIN versions :
    /\ versions[u].stage = versions[v].stage
    /\ versions[u].stage \in {"Staging", "Production"}
    => u = v

\* As long as no training has overlapped with another or died, the files,
\* the uploads and the versions are each of one training.
OneAtATime ==
  \A t, u \in Trainers : trainer[t].at # "idle" /\ trainer[u].at # "idle" => t = u
Whole ==
  ~broken =>
    /\ OneAtATime
    /\ (\A t \in Trainers : trainer[t].at = "idle") => reference = bundle
    /\ \A t \in Trainers :
         /\ trainer[t].at # "idle" => trainer[t].model = trained
         /\ trainer[t].at \in Logging => reference = trained
         /\ trainer[t].at \in {"log_reference", "register"} => trainer[t].bundle = trained
         /\ trainer[t].at = "register" => trainer[t].reference = trained
    /\ \A v \in DOMAIN versions : versions[v].bundle = versions[v].reference

\* What was started since the last change runs on what is there.
Fresh ==
  /\ "monitor" \notin stale /\ monitor # None => monitor = reference
  /\ "scorer" \notin stale /\ scorer # None =>
       IF mlflow
       THEN /\ scorer.label \in AtStage("Production")
            /\ versions[scorer.label].bundle = scorer.model
       ELSE scorer.model = bundle

IInv == Types /\ Uploads /\ OneHolder /\ Whole /\ Fresh

-----------------------------------------------------------------------------
(* Lemmas *)

\* The newest version's number is the number of versions.
LEMMA NewestIsLast ==
  ASSUME NEW n \in Nat, DOMAIN versions = 1..n
  PROVE  Newest = n
<1>1. IsFiniteSet(1..n) /\ Cardinality(1..n) = n
  BY FS_Interval, SMT
<1>. QED  BY <1>1 DEF Newest

\* A set without two different members has at most one.
LEMMA AtMostOne ==
  ASSUME NEW S, \A x, y \in S : x = y
  PROVE  Cardinality(S) <= 1
<1>1. CASE S = {}
  BY <1>1, FS_EmptySet
<1>2. CASE S # {}
  <2>1. PICK x : x \in S  BY <1>2
  <2>2. S = {x}  BY <2>1
  <2>. QED  BY <2>2, FS_Singleton
<1>. QED  BY <1>1, <1>2

\* The proof's types say all that the checked type invariant says.
LEMMA TypesImply == Types /\ OneHolder => TypeOK
<1>. SUFFICES ASSUME Types, OneHolder PROVE TypeOK  OBVIOUS
<1>1. ASSUME NEW stage \in {"Staging", "Production"}
      PROVE  Cardinality(AtStage(stage)) <= 1
  <2>1. \A u, v \in AtStage(stage) : u = v  BY DEF AtStage, OneHolder
  <2>. QED  BY <2>1, AtMostOne
<1>2. PICK n \in Nat : versions \in [1..n -> Version]  BY DEF Types
<1>3. \A v \in DOMAIN versions :
        /\ {versions[v].bundle, versions[v].reference} \subseteq Models
        /\ versions[v].stage \in Stages
  BY <1>2 DEF Version
<1>4. \A t \in Trainers : trainer[t].model \in Models \union {None}
  BY DEF Types, Works
<1>5. scorer # None => scorer.model \in Models  BY DEF Types
<1>. QED  BY <1>1, <1>3, <1>4, <1>5 DEF TypeOK, Types

LEMMA InitOK == Init => IInv
<1>. SUFFICES ASSUME Init PROVE IInv  OBVIOUS
<1>. USE DEF Init
<1>1. versions \in [1..0 -> Version]  OBVIOUS
<1>2. Idle \in Works  BY DEF Works, Idle
<1>3. \A t \in Trainers : trainer[t] = Idle /\ trainer[t].at = "idle"  BY DEF Idle
<1>4. Types
  <2>1. \E n \in Nat : versions \in [1..n -> Version]  BY <1>1
  <2>2. trainer \in [Trainers -> Works]  BY <1>2
  <2>3. trained \in 0..MaxTrainings /\ promotions \in 0..MaxPromotions
    BY BoundAssumption
  <2>4. mlflow \in BOOLEAN /\ broken \in BOOLEAN /\ stale \subseteq {"scorer", "monitor"}
    OBVIOUS
  <2>. HIDE DEF Init
  <2>5. scorer = None /\ bundle = None /\ reference = None /\ monitor = None  BY DEF Init
  <2>. QED  BY <2>1, <2>2, <2>3, <2>4, <2>5, Zenon DEF Types
<1>5. Uploads  BY <1>3 DEF Uploads, Logging
<1>6. Whole
  <2>1. DOMAIN versions = {}  BY <1>1
  <2>2. OneAtATime  BY <1>3 DEF OneAtATime
  <2>. QED  BY <2>1, <2>2, <1>3 DEF Whole, Logging
<1>7. OneHolder /\ Fresh  BY <1>1 DEF OneHolder, Fresh
<1>. QED  BY <1>4, <1>5, <1>6, <1>7 DEF IInv

\* The types are kept.
LEMMA TypesStep == IInv /\ [Next]_vars => Types'
<1>. SUFFICES ASSUME IInv, [Next]_vars PROVE Types'  OBVIOUS
<1>. USE DEF IInv, Types
<1>1. ASSUME NEW t \in Trainers, Dump(t) PROVE Types'
  <2>1. trained + 1 \in Models  BY <1>1, BoundAssumption DEF Dump, Models
  <2>2. trainer' \in [Trainers -> Works]  BY <1>1, <2>1 DEF Dump, Works, Idle
  <2>3. trained' \in 0..MaxTrainings  BY <1>1, BoundAssumption DEF Dump
  <2>. QED  BY <1>1, <2>1, <2>2, <2>3 DEF Dump, services, Busy
<1>2. ASSUME NEW t \in Trainers, WriteReference(t) PROVE Types'
  <2>1. reference' \in Models  BY <1>2 DEF WriteReference, ReferenceOf, Uploads
  <2>2. trainer' \in [Trainers -> Works]  BY <1>2 DEF WriteReference, Works, Idle
  <2>. QED  BY <1>2, <2>1, <2>2 DEF WriteReference, services
<1>3. ASSUME NEW t \in Trainers, LogBundle(t) PROVE Types'
  <2>1. trainer' \in [Trainers -> Works]
    BY <1>3 DEF LogBundle, Works, Idle, Models, Uploads, Logging
  <2>. QED  BY <1>3, <2>1 DEF LogBundle, files, services, Models
<1>4. ASSUME NEW t \in Trainers, LogReference(t) PROVE Types'
  <2>1. trainer' \in [Trainers -> Works]
    BY <1>4 DEF LogReference, Works, Idle, Models, Uploads, Logging
  <2>. QED  BY <1>4, <2>1 DEF LogReference, files, services, Models
<1>5. ASSUME NEW t \in Trainers, Register(t) PROVE Types'
  <2>1. PICK n \in Nat : versions \in [1..n -> Version]  OBVIOUS
  <2>2. Newest = n  BY <2>1, NewestIsLast
  <2>3. versions' \in [1..n + 1 -> Version]
    BY <1>5, <2>1, <2>2 DEF Register, Uploads, Logging, Version, Stages
  <2>4. trainer' \in [Trainers -> Works]  BY <1>5 DEF Register, Works, Idle
  <2>. QED  BY <1>5, <2>3, <2>4 DEF Register, files, services
<1>6. ASSUME NEW t \in Trainers, Die(t) PROVE Types'
  <2>1. trainer' \in [Trainers -> Works]
    BY <1>6 DEF Die, Works, Idle, Models, Uploads, Logging
  <2>. QED  BY <1>6, <2>1 DEF Die, files, services, Models
<1>7. ASSUME NEW v \in DOMAIN versions, NEW stage \in Stages \ {"None"}, Promote(v, stage)
      PROVE Types'
  <2>1. PICK n \in Nat : versions \in [1..n -> Version]  OBVIOUS
  <2>2. versions' \in [1..n -> Version]
    BY <1>7, <2>1 DEF Promote, StageAfter, Version, Stages
  <2>3. promotions' \in 0..MaxPromotions  BY <1>7, BoundAssumption DEF Promote
  <2>. QED  BY <1>7, <2>2, <2>3 DEF Promote, files, services
<1>8. CASE StartScorer
  <2>1. PICK s \in Loadable : scorer' = s  BY <1>8 DEF StartScorer
  <2>2. s \in [model : Models, label : Nat \union {None}]
    BY <2>1 DEF Loadable, AtStage, Version
  <2>. QED  BY <1>8, <2>1, <2>2 DEF StartScorer, files
<1>9. CASE StartMonitor
  BY <1>9 DEF StartMonitor, files, services
<1>10. CASE StopScorer
  BY <1>10 DEF StopScorer, files, services
<1>11. CASE StopMonitor
  BY <1>11 DEF StopMonitor, files, services
<1>12. CASE UNCHANGED vars
  BY <1>12 DEF vars, files, services
<1>. QED  BY <1>1, <1>2, <1>3, <1>4, <1>5, <1>6, <1>7,
        <1>8, <1>9, <1>10, <1>11, <1>12 DEF Next

\* What the step of one trainer makes of it, and that the others keep still.
LEMMA TrainerMoves ==
  ASSUME IInv, NEW t \in Trainers
  PROVE
  /\ Dump(t) =>
     /\ trainer'[t].at = "reference"
     /\ trainer'[t].model = trained + 1 /\ trained + 1 \in Models
     /\ \A u \in Trainers \ {t} : trainer'[u] = trainer[u]
  /\ WriteReference(t) =>
     /\ reference' = trainer[t].model
     /\ trainer'[t].at \in {"idle", "log_bundle"}
     /\ trainer'[t].at # "idle" => trainer'[t].model = trainer[t].model
     /\ \A u \in Trainers \ {t} : trainer'[u] = trainer[u]
  /\ LogBundle(t) =>
     /\ trainer'[t].at = "log_reference" /\ trainer'[t].bundle = bundle
     /\ trainer'[t].model = trainer[t].model /\ bundle \in Models
     /\ \A u \in Trainers \ {t} : trainer'[u] = trainer[u]
  /\ LogReference(t) =>
     /\ trainer'[t].at = "register" /\ trainer'[t].reference = reference
     /\ trainer'[t].model = trainer[t].model
     /\ trainer'[t].bundle = trainer[t].bundle
     /\ \A u \in Trainers \ {t} : trainer'[u] = trainer[u]
  /\ Register(t) =>
     /\ trainer'[t].at = "idle"
     /\ \A u \in Trainers \ {t} : trainer'[u] = trainer[u]
  /\ Die(t) =>
     /\ trainer'[t].at = "idle"
     /\ \A u \in Trainers \ {t} : trainer'[u] = trainer[u]
<1>1. ASSUME Dump(t)
      PROVE  /\ trainer'[t].at = "reference"
             /\ trainer'[t].model = trained + 1 /\ trained + 1 \in Models
             /\ \A u \in Trainers \ {t} : trainer'[u] = trainer[u]
  BY <1>1, BoundAssumption DEF Dump, IInv, Types, Works, Idle, Models
<1>2. ASSUME WriteReference(t)
      PROVE  /\ reference' = trainer[t].model
             /\ trainer'[t].at \in {"idle", "log_bundle"}
             /\ trainer'[t].at # "idle" => trainer'[t].model = trainer[t].model
             /\ \A u \in Trainers \ {t} : trainer'[u] = trainer[u]
  BY <1>2 DEF WriteReference, IInv, Types, Works, Idle, ReferenceOf
<1>3. ASSUME LogBundle(t)
      PROVE  /\ trainer'[t].at = "log_reference" /\ trainer'[t].bundle = bundle
             /\ trainer'[t].model = trainer[t].model /\ bundle \in Models
             /\ \A u \in Trainers \ {t} : trainer'[u] = trainer[u]
  BY <1>3 DEF LogBundle, IInv, Types, Works, Idle, Uploads, Logging, Models
<1>4. ASSUME LogReference(t)
      PROVE  /\ trainer'[t].at = "register" /\ trainer'[t].reference = reference
             /\ trainer'[t].model = trainer[t].model
             /\ trainer'[t].bundle = trainer[t].bundle
             /\ \A u \in Trainers \ {t} : trainer'[u] = trainer[u]
  BY <1>4 DEF LogReference, IInv, Types, Works, Idle
<1>5. ASSUME Register(t)
      PROVE  /\ trainer'[t].at = "idle"
             /\ \A u \in Trainers \ {t} : trainer'[u] = trainer[u]
  BY <1>5 DEF Register, IInv, Types, Works, Idle
<1>6. ASSUME Die(t)
      PROVE  /\ trainer'[t].at = "idle"
             /\ \A u \in Trainers \ {t} : trainer'[u] = trainer[u]
  BY <1>6 DEF Die, IInv, Types, Works, Idle
<1>. QED  BY <1>1, <1>2, <1>3, <1>4, <1>5, <1>6

\* The last training's bundle is the file, and uploads have their files.
LEMMA UploadsStep == IInv /\ [Next]_vars => Uploads'
<1>. SUFFICES ASSUME IInv, [Next]_vars PROVE Uploads'  OBVIOUS
<1>. USE DEF IInv, Uploads
<1>1. ASSUME NEW t \in Trainers, Dump(t) PROVE Uploads'
  <2>1. /\ trainer'[t].at = "reference"
        /\ trainer'[t].model = trained + 1 /\ trained + 1 \in Models
        /\ \A u \in Trainers \ {t} : trainer'[u] = trainer[u]
    BY <1>1, TrainerMoves
  <2>. QED  BY <1>1, <2>1 DEF Dump, files, services, Logging, Types, Models
<1>2. ASSUME NEW t \in Trainers, WriteReference(t) PROVE Uploads'
  <2>1. /\ reference' = trainer[t].model
        /\ trainer'[t].at \in {"idle", "log_bundle"}
        /\ trainer'[t].at # "idle" => trainer'[t].model = trainer[t].model
        /\ \A u \in Trainers \ {t} : trainer'[u] = trainer[u]
    BY <1>2, TrainerMoves
  <2>. QED  BY <1>2, <2>1 DEF WriteReference, files, services, Logging
<1>3. ASSUME NEW t \in Trainers, LogBundle(t) PROVE Uploads'
  <2>1. /\ trainer'[t].at = "log_reference" /\ trainer'[t].bundle = bundle
        /\ trainer'[t].model = trainer[t].model /\ bundle \in Models
        /\ \A u \in Trainers \ {t} : trainer'[u] = trainer[u]
    BY <1>3, TrainerMoves
  <2>. QED  BY <1>3, <2>1 DEF LogBundle, files, services, Logging
<1>4. ASSUME NEW t \in Trainers, LogReference(t) PROVE Uploads'
  <2>1. /\ trainer'[t].at = "register" /\ trainer'[t].reference = reference
        /\ trainer'[t].model = trainer[t].model
        /\ trainer'[t].bundle = trainer[t].bundle
        /\ \A u \in Trainers \ {t} : trainer'[u] = trainer[u]
    BY <1>4, TrainerMoves
  <2>. QED  BY <1>4, <2>1 DEF LogReference, files, services, Logging
<1>5. ASSUME NEW t \in Trainers, Register(t) PROVE Uploads'
  <2>1. /\ trainer'[t].at = "idle"
        /\ \A u \in Trainers \ {t} : trainer'[u] = trainer[u]
    BY <1>5, TrainerMoves
  <2>. QED  BY <1>5, <2>1 DEF Register, files, services, Logging
<1>6. ASSUME NEW t \in Trainers, Die(t) PROVE Uploads'
  <2>1. /\ trainer'[t].at = "idle"
        /\ \A u \in Trainers \ {t} : trainer'[u] = trainer[u]
    BY <1>6, TrainerMoves
  <2>. QED  BY <1>6, <2>1 DEF Die, files, services, Logging
<1>7. ASSUME NEW v \in DOMAIN versions, NEW stage \in Stages \ {"None"}, Promote(v, stage)
      PROVE Uploads'
  BY <1>7 DEF Promote, files, services
<1>8. CASE StartScorer
  BY <1>8 DEF StartScorer, files, services
<1>9. CASE StartMonitor
  BY <1>9 DEF StartMonitor, files, services
<1>10. CASE StopScorer
  BY <1>10 DEF StopScorer, files, services
<1>11. CASE StopMonitor
  BY <1>11 DEF StopMonitor, files, services
<1>12. CASE UNCHANGED vars
  BY <1>12 DEF vars, files, services
<1>. QED  BY <1>1, <1>2, <1>3, <1>4, <1>5, <1>6, <1>7,
        <1>8, <1>9, <1>10, <1>11, <1>12 DEF Next

\* A version that is promoted archives the one that held its stage.
LEMMA OneHolderStep == IInv /\ [Next]_vars => OneHolder'
<1>. SUFFICES ASSUME IInv, [Next]_vars PROVE OneHolder'  OBVIOUS
<1>. USE DEF IInv, OneHolder
<1>1. ASSUME NEW t \in Trainers, Dump(t) PROVE OneHolder'
  BY <1>1 DEF Dump, files, services
<1>2. ASSUME NEW t \in Trainers, WriteReference(t) PROVE OneHolder'
  BY <1>2 DEF WriteReference, files, services
<1>3. ASSUME NEW t \in Trainers, LogBundle(t) PROVE OneHolder'
  BY <1>3 DEF LogBundle, files, services
<1>4. ASSUME NEW t \in Trainers, LogReference(t) PROVE OneHolder'
  BY <1>4 DEF LogReference, files, services
<1>5. ASSUME NEW t \in Trainers, Register(t) PROVE OneHolder'
  <2>1. PICK n \in Nat : versions \in [1..n -> Version]  BY DEF Types
  <2>2. Newest = n  BY <2>1, NewestIsLast
  <2>. QED  BY <1>5, <2>1, <2>2 DEF Register
<1>6. ASSUME NEW t \in Trainers, Die(t) PROVE OneHolder'
  BY <1>6 DEF Die, files, services
<1>7. ASSUME NEW v \in DOMAIN versions, NEW stage \in Stages \ {"None"}, Promote(v, stage)
      PROVE OneHolder'
  BY <1>7 DEF Promote, StageAfter, Stages, Types, Version
<1>8. CASE StartScorer
  BY <1>8 DEF StartScorer, files, services
<1>9. CASE StartMonitor
  BY <1>9 DEF StartMonitor, files, services
<1>10. CASE StopScorer
  BY <1>10 DEF StopScorer, files, services
<1>11. CASE StopMonitor
  BY <1>11 DEF StopMonitor, files, services
<1>12. CASE UNCHANGED vars
  BY <1>12 DEF vars, files, services
<1>. QED  BY <1>1, <1>2, <1>3, <1>4, <1>5, <1>6, <1>7,
        <1>8, <1>9, <1>10, <1>11, <1>12 DEF Next

\* Without overlaps and deaths, everything is of one training.
LEMMA WholeStep == IInv /\ [Next]_vars => Whole'
<1>. SUFFICES ASSUME IInv, [Next]_vars PROVE Whole'  OBVIOUS
<1>. USE DEF IInv
<1>1. ASSUME NEW t \in Trainers, Dump(t) PROVE Whole'
  <2>. SUFFICES ASSUME ~broken' PROVE Whole'  BY DEF Whole
  <2>1. ~broken /\ ~Busy(t) /\ trainer[t].at = "idle"  BY <1>1 DEF Dump, Types
  <2>2. \A u \in Trainers \ {t} : trainer[u].at = "idle"  BY <2>1 DEF Busy
  <2>3. /\ trainer'[t].at = "reference"
        /\ trainer'[t].model = trained + 1 /\ trained + 1 \in Models
        /\ \A u \in Trainers \ {t} : trainer'[u] = trainer[u]
    BY <1>1, TrainerMoves
  <2>. QED  BY <1>1, <2>1, <2>2, <2>3
    DEF Dump, files, services, Logging, Whole, OneAtATime, Types
<1>2. ASSUME NEW t \in Trainers, WriteReference(t) PROVE Whole'
  <2>1. /\ reference' = trainer[t].model
        /\ trainer'[t].at \in {"idle", "log_bundle"}
        /\ trainer'[t].at # "idle" => trainer'[t].model = trainer[t].model
        /\ \A u \in Trainers \ {t} : trainer'[u] = trainer[u]
    BY <1>2, TrainerMoves
  <2>. QED  BY <1>2, <2>1
    DEF WriteReference, files, services, Logging, Whole, OneAtATime, Uploads
<1>3. ASSUME NEW t \in Trainers, LogBundle(t) PROVE Whole'
  <2>1. /\ trainer'[t].at = "log_reference" /\ trainer'[t].bundle = bundle
        /\ trainer'[t].model = trainer[t].model /\ bundle \in Models
        /\ \A u \in Trainers \ {t} : trainer'[u] = trainer[u]
    BY <1>3, TrainerMoves
  <2>. QED  BY <1>3, <2>1
    DEF LogBundle, files, services, Logging, Whole, OneAtATime, Uploads
<1>4. ASSUME NEW t \in Trainers, LogReference(t) PROVE Whole'
  <2>1. /\ trainer'[t].at = "register" /\ trainer'[t].reference = reference
        /\ trainer'[t].model = trainer[t].model
        /\ trainer'[t].bundle = trainer[t].bundle
        /\ \A u \in Trainers \ {t} : trainer'[u] = trainer[u]
    BY <1>4, TrainerMoves
  <2>. QED  BY <1>4, <2>1 DEF LogReference, files, services, Logging, Whole, OneAtATime
<1>5. ASSUME NEW t \in Trainers, Register(t) PROVE Whole'
  <2>1. PICK n \in Nat : versions \in [1..n -> Version]  BY DEF Types
  <2>2. Newest = n  BY <2>1, NewestIsLast
  <2>3. ~broken => \A v \in DOMAIN versions' : versions'[v].bundle = versions'[v].reference
    BY <1>5, <2>1, <2>2 DEF Register, Whole
  <2>4. /\ trainer'[t].at = "idle"
        /\ \A u \in Trainers \ {t} : trainer'[u] = trainer[u]
    BY <1>5, TrainerMoves
  <2>. QED  BY <1>5, <2>3, <2>4 DEF Register, files, Logging, Whole, OneAtATime, Uploads
<1>6. ASSUME NEW t \in Trainers, Die(t) PROVE Whole'
  BY <1>6 DEF Die, Whole
<1>7. ASSUME NEW v \in DOMAIN versions, NEW stage \in Stages \ {"None"}, Promote(v, stage)
      PROVE Whole'
  BY <1>7 DEF Promote, files, Whole, OneAtATime, Types, Version
<1>8. CASE StartScorer
  BY <1>8 DEF StartScorer, files, Whole, OneAtATime
<1>9. CASE StartMonitor
  BY <1>9 DEF StartMonitor, files, Whole, OneAtATime
<1>10. CASE StopScorer
  BY <1>10 DEF StopScorer, files, Whole, OneAtATime
<1>11. CASE StopMonitor
  BY <1>11 DEF StopMonitor, files, Whole, OneAtATime
<1>12. CASE UNCHANGED vars
  BY <1>12 DEF vars, files, services, Whole, OneAtATime
<1>. QED  BY <1>1, <1>2, <1>3, <1>4, <1>5, <1>6, <1>7,
        <1>8, <1>9, <1>10, <1>11, <1>12 DEF Next

\* What has started since the last change runs on what is there.
LEMMA FreshStep == IInv /\ [Next]_vars => Fresh'
<1>. SUFFICES ASSUME IInv, [Next]_vars PROVE Fresh'  OBVIOUS
<1>. USE DEF IInv, Fresh, AtStage
<1>1. ASSUME NEW t \in Trainers, Dump(t) PROVE Fresh'
  BY <1>1 DEF Dump, files, services
<1>2. ASSUME NEW t \in Trainers, WriteReference(t) PROVE Fresh'
  BY <1>2 DEF WriteReference, files, services
<1>3. ASSUME NEW t \in Trainers, LogBundle(t) PROVE Fresh'
  BY <1>3 DEF LogBundle, files, services
<1>4. ASSUME NEW t \in Trainers, LogReference(t) PROVE Fresh'
  BY <1>4 DEF LogReference, files, services
<1>5. ASSUME NEW t \in Trainers, Register(t) PROVE Fresh'
  <2>1. PICK n \in Nat : versions \in [1..n -> Version]  BY DEF Types
  <2>2. Newest = n  BY <2>1, NewestIsLast
  <2>3. \A v \in DOMAIN versions : v \in DOMAIN versions' /\ versions'[v] = versions[v]
    BY <1>5, <2>1, <2>2 DEF Register
  <2>. QED  BY <1>5, <2>3 DEF Register, files, services, AtStage
<1>6. ASSUME NEW t \in Trainers, Die(t) PROVE Fresh'
  BY <1>6 DEF Die, files, services
<1>7. ASSUME NEW v \in DOMAIN versions, NEW stage \in Stages \ {"None"}, Promote(v, stage)
      PROVE Fresh'
  BY <1>7 DEF Promote, files, services
<1>8. CASE StartScorer
  <2>1. PICK s \in Loadable : scorer' = s  BY <1>8 DEF StartScorer
  <2>. QED  BY <1>8, <2>1 DEF StartScorer, files, Loadable, AtStage
<1>9. CASE StartMonitor
  BY <1>9 DEF StartMonitor, files, services
<1>10. CASE StopScorer
  BY <1>10 DEF StopScorer, files, services
<1>11. CASE StopMonitor
  BY <1>11 DEF StopMonitor, files, services
<1>12. CASE UNCHANGED vars
  BY <1>12 DEF vars, files, services
<1>. QED  BY <1>1, <1>2, <1>3, <1>4, <1>5, <1>6, <1>7,
        <1>8, <1>9, <1>10, <1>11, <1>12 DEF Next

-----------------------------------------------------------------------------
(* Theorems *)

LEMMA Invariant == Spec => []IInv
<1>1. Init => IInv  BY InitOK
<1>2. IInv /\ [Next]_vars => IInv'
  BY TypesStep, UploadsStep, OneHolderStep, WholeStep, FreshStep DEF IInv
<1>. QED  BY <1>1, <1>2, PTL DEF Spec

\* The variables have their types, every version that was registered names a
\* training for its bundle and one for its reference, and promote leaves one
\* version at most in Staging and one in Production (registry.py:85-94).
THEOREM TypeCorrect == Spec => []TypeOK
<1>1. IInv => TypeOK  BY TypesImply DEF IInv
<1>. QED  BY <1>1, Invariant, PTL

\* What is served and what the monitor compares with are of one training, if
\* both were started after the last training and promotion, trainings neither
\* overlap nor die, and the last one is registered and in production.
THEOREM ReferenceIsTheModels == Spec => []ReferenceFits
<1>1. IInv => ReferenceFits
  <2>. SUFFICES ASSUME IInv, ~broken, stale = {}, \A t \in Trainers : trainer[t].at = "idle",
                       scorer # None, monitor # None, LastIsServed
                PROVE  /\ monitor = scorer.model
                       /\ mlflow => versions[scorer.label].reference = scorer.model
    BY DEF ReferenceFits
  <2>1. monitor = bundle  BY DEF IInv, Whole, Fresh
  <2>2. CASE ~mlflow  BY <2>1, <2>2 DEF IInv, Fresh
  <2>3. CASE mlflow
    <3>1. PICK n \in Nat : versions \in [1..n -> Version]  BY DEF IInv, Types
    <3>2. Newest = n /\ n > 0 /\ versions[n].stage = "Production" /\ versions[n].bundle = trained
      BY <2>3, <3>1, NewestIsLast DEF LastIsServed
    <3>3. scorer.label \in 1..n /\ versions[scorer.label].stage = "Production"
          /\ versions[scorer.label].bundle = scorer.model
      BY <2>3, <3>1 DEF IInv, Fresh, AtStage
    <3>4. scorer.label = n  BY <3>1, <3>2, <3>3 DEF IInv, OneHolder
    <3>5. versions[n].bundle \in Models /\ versions[n].bundle = versions[n].reference
      BY <3>1, <3>2 DEF IInv, Whole, Version
    <3>6. bundle = trained  BY <3>2, <3>5 DEF IInv, Uploads, Models, Types
    <3>. QED  BY <2>1, <3>2, <3>3, <3>4, <3>5, <3>6
  <2>. QED  BY <2>2, <2>3
<1>. QED  BY <1>1, Invariant, PTL
=============================================================================
