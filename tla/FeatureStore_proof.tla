------------------------ MODULE FeatureStore_proof ------------------------
(***************************************************************************)
(* Proofs about FeatureStore, for every set of threads, entities and       *)
(* features, everything that may be registered and ingested, and any       *)
(* number of crashes.                                                      *)
(***************************************************************************)
EXTENDS FeatureStore, TLAPS, WellFoundedInduction

-----------------------------------------------------------------------------
(* Types                                                                   *)

LEMMA DayType == \A r \in Row : Day(r.ts) \in Days /\ Day(r.ts) \in Nat
<1>1. ASSUME NEW r \in Row PROVE Day(r.ts) \in Nat
  <2>1. r.ts \in Nat
    BY BatchAssumption
  <2>2. \A m \in Nat \ {0} : \A t \in Nat : t \div m \in Nat
    BY SMT
  <2> QED BY <2>1, <2>2, DayAssumption DEF Day
<1> QED BY <1>1 DEF Days

LEMMA DaysAreNumbers == Days \subseteq Nat
BY DayType DEF Days

LEMMA RowsOfBatch == \A b \in Batches : b \subseteq Row
BY DEF Row

LEMMA IdleType == Idle \in Jobs(Idle.arg) /\ Idle.at = "idle" /\ Idle.todo = {}
BY DEF Idle, Jobs, Steps

LEMMA LatestAreRows ==
  ASSUME NEW rows, NEW S \in LatestRows(rows)
  PROVE  S \subseteq rows
BY DEF LatestRows

LEMMA WritesType ==
  ASSUME NEW S, S \subseteq Row, NEW feats \in SUBSET Feature
  PROVE  /\ Writes(S, feats) \subseteq Cells \X Row
         /\ \A w \in Writes(S, feats) : w[2] \in S
<1>1. \A r \in S : r.entity \in Entity
  BY BatchAssumption
<1>2. ASSUME NEW w \in Writes(S, feats) PROVE w \in Cells \X Row /\ w[2] \in S
  <2>1. PICK r \in S, f \in feats : w = <<<<r.entity, f>>, r>>
    BY DEF Writes
  <2> QED BY <1>1, <2>1 DEF Cells
<1> QED BY <1>2

LEMMA StoredType == TypeOK => Stored \subseteq Row
BY DEF TypeOK, Stored

LEMMA TypeInit == Init => TypeOK
<1> SUFFICES ASSUME Init PROVE TypeOK
  OBVIOUS
<1>1. reg \in Group /\ regSaved \in Group
  BY DEF Init, Group
<1>2. DOMAIN job = Procs /\ \A p \in Procs : job[p] = Idle
  BY DEF Init
<1>3. Loop \in Procs /\ Threads \subseteq Procs
  BY DEF Procs
<1>4. /\ offline \in [Days -> SUBSET Row] /\ online \in [Cells -> Row \union {None}]
      /\ onlineSaved \in [Cells -> Row \union {None}]
  BY DEF Init
<1> QED BY <1>1, <1>2, <1>3, <1>4, IdleType DEF Init, TypeOK

(* A step of one process that keeps the types of its locals.               *)
JobOK(p, j) ==
  /\ j \in Jobs(j.arg)
  /\ p \in Threads /\ j.at \in {"reg_group", "reg_delete", "reg_insert"} => j.arg \in Specs
  /\ p = Loop /\ j.at # "idle" => j.arg \in Batches

JobsOK ==
  /\ DOMAIN job = Procs
  /\ \A p \in Procs : job[p] \in Jobs(job[p].arg)
  /\ \A t \in Threads : job[t].at \in {"reg_group", "reg_delete", "reg_insert"} => job[t].arg \in Specs
  /\ job[Loop].at # "idle" => job[Loop].arg \in Batches

LEMMA StepType ==
  ASSUME TypeOK, NEW p \in Procs, NEW from, NEW next, JobOK(p, next), Step(p, from, next)
  PROVE  JobsOK' /\ quiet' \subseteq Threads
<1>1. job' = [job EXCEPT ![p] = next] /\ DOMAIN job = Procs
  BY DEF Step, TypeOK
<1>2. DOMAIN job' = Procs /\ job'[p] = next /\ \A q \in Procs \ {p} : job'[q] = job[q]
  BY <1>1
<1>3. quiet' \subseteq Threads
  BY DEF Step, TypeOK
<1>4. Loop \in Procs /\ Threads \subseteq Procs
  BY DEF Procs
<1>5. ASSUME NEW q \in Procs PROVE JobOK(q, job'[q])
  BY <1>2, <1>4 DEF TypeOK, JobOK
<1> QED BY <1>2, <1>3, <1>4, <1>5 DEF JobsOK, JobOK

LEMMA JobFields ==
  ASSUME NEW arg, NEW j \in Jobs(arg)
  PROVE  j.feats \in SUBSET Feature /\ j.parts \subseteq Days /\ j.todo \subseteq Cells \X Row
BY DEF Jobs

(* What a step leaves alone keeps its type.                                *)
RestOK == /\ reg \in Group /\ regSaved \in Group
          /\ offline \in [Days -> SUBSET Row] /\ torn \subseteq Days
          /\ online \in [Cells -> Row \union {None}] /\ onlineSaved \in [Cells -> Row \union {None}]
          /\ onlineOnly \subseteq Row /\ {mixed, synced, orderly} \subseteq BOOLEAN

LEMMA RegisterType ==
  ASSUME TypeOK, NEW t \in Threads, Register(t)
  PROVE  TypeOK'
<1> USE DEF offlineVars, onlineVars, marks
<1>t. /\ job[t] \in Jobs(job[t].arg) /\ reg \in Group /\ regSaved \in Group /\ RestOK
      /\ t \in Procs /\ t # Loop
  BY ProcAssumption DEF TypeOK, Procs, RestOK
<1>1. ASSUME NEW next, NEW from, Step(t, from, next), JobOK(t, next), RestOK' PROVE TypeOK'
  BY <1>1, <1>t, StepType DEF TypeOK, JobsOK, RestOK
<1>2. ASSUME NEW s \in Specs, RegisterEntity(t, s) PROVE TypeOK'
  <2> DEFINE next == [Idle EXCEPT !.at = "reg_group", !.arg = s]
  <2>1. JobOK(t, next)
    BY <1>t DEF JobOK, Idle, Jobs, Steps
  <2>2. Step(t, "idle", next) /\ RestOK'
    BY <1>2, <1>t DEF RegisterEntity, CommitRegistry, RestOK
  <2> HIDE DEF next
  <2> QED BY <1>1, <2>1, <2>2
<1>3. CASE RegisterGroup(t)
  <2> DEFINE next == [job[t] EXCEPT !.at = "reg_delete"]
  <2>1. JobOK(t, next)
    BY <1>3, <1>t DEF JobOK, Jobs, Steps, RegisterGroup, Step, TypeOK
  <2>2. job[t].arg.row \in Flags
    BY <1>3, SpecAssumption DEF RegisterGroup, Step, TypeOK
  <2>3. Step(t, "reg_group", next) /\ RestOK'
    BY <1>3, <1>t, <2>2 DEF RegisterGroup, RestOK, Group
  <2> HIDE DEF next
  <2> QED BY <1>1, <2>1, <2>3
<1>4. CASE RegisterDelete(t)
  <2> DEFINE next == [job[t] EXCEPT !.at = "reg_insert"]
  <2>1. JobOK(t, next)
    BY <1>4, <1>t DEF JobOK, Jobs, Steps, RegisterDelete, Step, TypeOK
  <2>2. Step(t, "reg_delete", next) /\ RestOK'
    BY <1>4, <1>t DEF RegisterDelete, RestOK, Group
  <2> HIDE DEF next
  <2> QED BY <1>1, <2>1, <2>2
<1>5. CASE RegisterInsert(t)
  <2>1. PICK f \in Uninserted(t) \ reg.feats :
          /\ Step(t, "reg_insert", [job[t] EXCEPT !.feats = @ \union {f}])
          /\ reg' = [reg EXCEPT !.feats = @ \union {f}]
    BY <1>5 DEF RegisterInsert
  <2> DEFINE next == [job[t] EXCEPT !.feats = @ \union {f}]
  <2>2. job[t].arg \in Specs
    BY <1>5 DEF RegisterInsert, TypeOK
  <2>3. f \in Feature
    BY <2>1, <2>2, SpecAssumption DEF Uninserted
  <2>4. JobOK(t, next)
    BY <1>t, <2>2, <2>3 DEF JobOK, Jobs
  <2>5. RestOK'
    BY <1>5, <1>t, <2>1, <2>3 DEF RegisterInsert, RestOK, Group
  <2> HIDE DEF next
  <2> QED BY <1>1, <2>1, <2>4, <2>5 DEF next
<1>6. CASE RegisterConflict(t) \/ RegisterCommit(t)
  <2>1. JobOK(t, Idle)
    BY IdleType DEF JobOK
  <2>2. Step(t, "reg_insert", Idle) /\ RestOK'
    BY <1>6, <1>t DEF RegisterConflict, RegisterCommit, CommitRegistry, RestOK, regVars
  <2> QED BY <1>1, <2>1, <2>2
<1> QED BY <1>2, <1>3, <1>4, <1>5, <1>6 DEF Register

LEMMA IngestType ==
  ASSUME TypeOK, Ingest
  PROVE  TypeOK'
<1> USE DEF offlineVars, onlineVars, regVars, marks
<1>t. /\ job[Loop] \in Jobs(job[Loop].arg) /\ reg \in Group /\ RestOK
      /\ Loop \in Procs /\ Loop \notin Threads
      /\ job[Loop].at # "idle" => job[Loop].arg \in Batches
  BY ProcAssumption DEF TypeOK, Procs, RestOK
<1>1. ASSUME NEW next, NEW from, Step(Loop, from, next), JobOK(Loop, next), RestOK' PROVE TypeOK'
  BY <1>1, <1>t, StepType DEF TypeOK, JobsOK, RestOK
<1>i. JobOK(Loop, Idle)
  BY IdleType DEF JobOK
<1>2. ASSUME NEW b \in Batches, IngestStart(b) PROVE TypeOK'
  <2> DEFINE next == [Idle EXCEPT !.at = "in_check", !.arg = b, !.row = reg.row]
  <2>1. reg.row \in Flags \union {None}
    BY <1>t DEF Group
  <2>2. JobOK(Loop, next)
    BY <1>t, <2>1, IdleType DEF JobOK, Jobs, Steps
  <2>3. Step(Loop, "idle", next) /\ RestOK'
    BY <1>2, <1>t DEF IngestStart, RestOK
  <2> HIDE DEF next
  <2> QED BY <1>1, <2>2, <2>3
<1>3. CASE IngestAccepts
  <2> DEFINE b == job[Loop].arg
             parts == IF job[Loop].row.offline THEN {Day(r.ts) : r \in b} ELSE {}
             next == [job[Loop] EXCEPT !.at = "in_offline", !.feats = reg.feats, !.parts = parts]
  <2>1. b \in Batches /\ b \subseteq Row
    BY <1>3, <1>t, RowsOfBatch DEF IngestAccepts
  <2>2. parts \subseteq Days
    BY <2>1, DayType
  <2>3. JobOK(Loop, next)
    <3> HIDE DEF parts
    <3> QED BY <1>t, <2>1, <2>2 DEF JobOK, Jobs, Steps, Group
  <2>4. Step(Loop, "in_check", next) /\ onlineOnly' \in {onlineOnly, onlineOnly \union b}
        /\ UNCHANGED <<regVars, offlineVars, onlineVars, mixed, synced, orderly>>
    BY <1>3 DEF IngestAccepts
  <2>5. RestOK'
    BY <1>t, <2>1, <2>4 DEF RestOK
  <2> HIDE DEF next
  <2> QED BY <1>1, <2>3, <2>4, <2>5
<1>4. CASE IngestRejects \/ WriteFails
  <2>1. RestOK'
    BY <1>4, <1>t DEF IngestRejects, WriteFails, RestOK
  <2> QED BY <1>1, <1>4, <1>i, <2>1 DEF IngestRejects, WriteFails
<1>5. CASE WriteBegin
  <2> DEFINE next == [job[Loop] EXCEPT !.at = "in_rewrite"]
  <2>1. PICK d \in job[Loop].parts \ torn : torn' = torn \union {d}
    BY <1>5 DEF WriteBegin
  <2>2. d \in Days
    BY <1>t, <2>1 DEF Jobs
  <2>3. Step(Loop, "in_offline", next) /\ RestOK'
    BY <1>5, <1>t, <2>1, <2>2 DEF WriteBegin, RestOK
  <2>4. JobOK(Loop, next)
    BY <1>t, <2>3 DEF JobOK, Jobs, Steps, Step
  <2> HIDE DEF next
  <2> QED BY <1>1, <2>3, <2>4
<1>6. CASE WriteEnd
  <2>1. PICK d \in job[Loop].parts :
          /\ Step(Loop, "in_rewrite", [job[Loop] EXCEPT !.at = "in_offline", !.parts = @ \ {d}])
          /\ offline' = [offline EXCEPT ![d] = Rewritten(d)] /\ torn' = torn \ {d}
          /\ UNCHANGED <<regVars, onlineVars, marks>>
    BY <1>6 DEF WriteEnd
  <2> DEFINE next == [job[Loop] EXCEPT !.at = "in_offline", !.parts = @ \ {d}]
  <2>2. job[Loop].arg \in Batches
    BY <1>t, <2>1 DEF Step
  <2>3. JobOK(Loop, next)
    BY <1>t, <2>2 DEF JobOK, Jobs, Steps
  <2>4. Rewritten(d) \subseteq Row
    BY <1>t, <2>1, <2>2, RowsOfBatch DEF Rewritten, Jobs, RestOK
  <2>5. RestOK'
    BY <1>t, <2>1, <2>4 DEF RestOK
  <2> HIDE DEF next
  <2> QED BY <1>1, <2>1, <2>3, <2>5 DEF next
<1>7. CASE IngestOnline
  <2>1. RestOK' /\ job[Loop].at = "in_offline"
    BY <1>7, <1>t DEF IngestOnline, RestOK
  <2>2. job[Loop].arg \in Batches /\ job[Loop].arg \subseteq Row
    BY <1>t, <2>1, RowsOfBatch
  <2>3. ASSUME NEW S \in LatestRows(job[Loop].arg),
               Step(Loop, "in_offline", [job[Loop] EXCEPT !.at = "write", !.todo = Writes(S, job[Loop].feats)])
        PROVE  TypeOK'
    <3> DEFINE todo == Writes(S, job[Loop].feats)
               next == [job[Loop] EXCEPT !.at = "write", !.todo = todo]
    <3>1. todo \subseteq Cells \X Row
      BY <1>t, <2>2, JobFields, LatestAreRows, WritesType
    <3> HIDE DEF todo
    <3>2. JobOK(Loop, next)
      BY <1>t, <2>2, <3>1 DEF JobOK, Jobs, Steps
    <3> HIDE DEF next
    <3> QED BY <1>1, <2>1, <2>3, <3>2 DEF next, todo
  <2>4. ASSUME Step(Loop, "in_offline", [job[Loop] EXCEPT !.at = "in_log"])
        PROVE  TypeOK'
    <3> DEFINE next == [job[Loop] EXCEPT !.at = "in_log"]
    <3>1. JobOK(Loop, next)
      BY <1>t, <2>2 DEF JobOK, Jobs, Steps
    <3> HIDE DEF next
    <3> QED BY <1>1, <2>1, <2>4, <3>1 DEF next
  <2> QED BY <1>7, <2>3, <2>4 DEF IngestOnline
<1>8. CASE IngestLog
  <2>1. job[Loop].arg \in Batches
    BY <1>8, <1>t DEF IngestLog, Step
  <2>2. reg' \in Group
    BY <1>8, <1>t, <2>1 DEF IngestLog, Group
  <2>3. RestOK'
    BY <1>8, <1>t, <2>2 DEF IngestLog, CommitRegistry, RestOK
  <2> QED BY <1>1, <1>8, <1>i, <2>3 DEF IngestLog
<1> QED BY <1>2, <1>3, <1>4, <1>5, <1>6, <1>7, <1>8 DEF Ingest

LEMMA MaterializeType ==
  ASSUME TypeOK, NEW t \in Threads, Materialize(t)
  PROVE  TypeOK'
<1> USE DEF offlineVars, onlineVars, regVars, marks
<1>t. /\ job[t] \in Jobs(job[t].arg) /\ reg \in Group /\ RestOK /\ t \in Procs /\ t # Loop
  BY ProcAssumption DEF TypeOK, Procs, RestOK
<1>1. ASSUME NEW next, NEW from, Step(t, from, next), JobOK(t, next), RestOK' PROVE TypeOK'
  BY <1>1, <1>t, StepType DEF TypeOK, JobsOK, RestOK
<1>2. CASE MaterializeStart(t)
  <2> DEFINE next == [Idle EXCEPT !.at = "mat_feats", !.row = reg.row]
  <2>1. JobOK(t, next)
    BY <1>t DEF JobOK, Idle, Jobs, Steps, Group
  <2>2. RestOK' /\ quiet' \subseteq Threads /\ job' = [job EXCEPT ![t] = next]
    BY <1>2, <1>t DEF MaterializeStart, RestOK
  <2> HIDE DEF next
  <2>3. DOMAIN job' = Procs /\ job'[t] = next /\ \A q \in Procs \ {t} : job'[q] = job[q]
    BY <1>t, <2>2 DEF TypeOK
  <2>4. JobsOK'
    BY <1>t, <2>1, <2>3 DEF JobOK, JobsOK, TypeOK, Procs
  <2> QED BY <2>2, <2>4 DEF TypeOK, JobsOK, RestOK
<1>3. CASE MaterializeFeatures(t)
  <2> DEFINE next == [job[t] EXCEPT !.at = "mat_read", !.feats = reg.feats]
  <2>1. JobOK(t, next)
    BY <1>t DEF JobOK, Jobs, Steps, Group
  <2>2. Step(t, "mat_feats", next) /\ RestOK'
    BY <1>3, <1>t DEF MaterializeFeatures, RestOK
  <2> HIDE DEF next
  <2> QED BY <1>1, <2>1, <2>2
<1>4. CASE MaterializeRead(t)
  <2>1. PICK S \in LatestRows(Stored) :
          Step(t, "mat_read", [job[t] EXCEPT !.at = "write", !.todo = Writes(S, job[t].feats)])
    BY <1>4 DEF MaterializeRead
  <2> DEFINE todo == Writes(S, job[t].feats)
             next == [job[t] EXCEPT !.at = "write", !.todo = todo]
  <2>2. todo \subseteq Cells \X Row
    BY <1>t, StoredType, JobFields, LatestAreRows, WritesType
  <2> HIDE DEF todo
  <2>3. JobOK(t, next)
    BY <1>t, <2>2 DEF JobOK, Jobs, Steps
  <2>4. RestOK'
    BY <1>4, <1>t DEF MaterializeRead, RestOK
  <2> HIDE DEF next
  <2> QED BY <1>1, <2>1, <2>3, <2>4 DEF next, todo
<1>5. CASE MaterializeFails(t)
  <2>1. JobOK(t, Idle)
    BY IdleType DEF JobOK
  <2>2. Step(t, "mat_read", Idle) /\ RestOK'
    BY <1>5, <1>t DEF MaterializeFails, RestOK
  <2> QED BY <1>1, <2>1, <2>2
<1> QED BY <1>2, <1>3, <1>4, <1>5 DEF Materialize

LEMMA WriteType ==
  ASSUME TypeOK, NEW p \in Procs, WriteCell(p) \/ WriteCommit(p)
  PROVE  TypeOK'
<1> USE DEF offlineVars, onlineVars, regVars, marks
<1>t. /\ job[p] \in Jobs(job[p].arg) /\ RestOK
      /\ p = Loop /\ job[p].at # "idle" => job[p].arg \in Batches
  BY DEF TypeOK, RestOK
<1>1. ASSUME NEW next, NEW from, Step(p, from, next), JobOK(p, next), RestOK' PROVE TypeOK'
  BY <1>1, <1>t, StepType DEF TypeOK, JobsOK, RestOK
<1>2. CASE WriteCell(p)
  <2>1. PICK c \in job[p].todo :
          /\ Step(p, "write", [job[p] EXCEPT !.todo = @ \ {c}])
          /\ online' = [online EXCEPT ![c[1]] = c[2]]
    BY <1>2 DEF WriteCell
  <2> DEFINE next == [job[p] EXCEPT !.todo = @ \ {c}]
  <2>2. job[p].at = "write" /\ c \in Cells \X Row
    BY <1>t, <2>1, JobFields DEF Step
  <2>3. JobOK(p, next)
    BY <1>t, <2>2 DEF JobOK, Jobs
  <2>4. RestOK'
    BY <1>2, <1>t, <2>1, <2>2 DEF WriteCell, RestOK
  <2> HIDE DEF next
  <2> QED BY <1>1, <2>1, <2>3, <2>4 DEF next
<1>3. CASE WriteCommit(p)
  <2> DEFINE next == IF p = Loop THEN [job[p] EXCEPT !.at = "in_log"] ELSE Idle
  <2>1. Step(p, "write", next) /\ RestOK'
    BY <1>3, <1>t DEF WriteCommit, RestOK
  <2>2. CASE p = Loop
    <3>1. job[p].arg \in Batches /\ next = [job[p] EXCEPT !.at = "in_log"]
      BY <1>t, <2>1, <2>2 DEF Step
    <3>2. JobOK(p, next)
      BY <1>t, <3>1, <2>2, ProcAssumption DEF JobOK, Jobs, Steps
    <3> HIDE DEF next
    <3> QED BY <1>1, <2>1, <3>2
  <2>3. CASE p # Loop
    <3>1. JobOK(p, next)
      BY <2>3, IdleType DEF JobOK
    <3> HIDE DEF next
    <3> QED BY <1>1, <2>1, <3>1
  <2> QED BY <2>2, <2>3
<1> QED BY <1>2, <1>3

LEMMA TypeStep == TypeOK /\ [Next]_vars => TypeOK'
<1> SUFFICES ASSUME TypeOK, [Next]_vars PROVE TypeOK'
  OBVIOUS
<1> USE DEF offlineVars, onlineVars, regVars, marks
<1>1. ASSUME NEW e \in Entity, NEW r \in Row, Expire(e, r) PROVE TypeOK'
  <2> DEFINE Left(store) == [c \in Cells |-> IF c[1] = e /\ store[c] = r THEN None ELSE store[c]]
  <2>1. /\ online' = Left(online) /\ onlineSaved' = Left(onlineSaved) /\ synced' = FALSE /\ quiet' = {}
        /\ UNCHANGED <<regVars, offlineVars, job, onlineOnly, mixed, orderly>>
    BY <1>1 DEF Expire
  <2>2. ASSUME NEW store \in [Cells -> Row \union {None}] PROVE Left(store) \in [Cells -> Row \union {None}]
    OBVIOUS
  <2>3. online' \in [Cells -> Row \union {None}] /\ onlineSaved' \in [Cells -> Row \union {None}]
    BY <2>1, <2>2 DEF TypeOK
  <2> QED BY <2>1, <2>3 DEF TypeOK
<1>2. CASE Crash
  <2>1. DOMAIN job' = Procs /\ \A p \in Procs : job'[p] = Idle
    BY <1>2 DEF Crash
  <2>2. Loop \in Procs /\ Threads \subseteq Procs
    BY DEF Procs
  <2>3. offline' \in [Days -> SUBSET Row] /\ orderly' \in BOOLEAN
    BY <1>2 DEF Crash, TypeOK
  <2> QED BY <1>2, <2>1, <2>2, <2>3, IdleType DEF Crash, TypeOK
<1>3. CASE UNCHANGED vars
  BY <1>3 DEF TypeOK, vars
<1> QED BY <1>1, <1>2, <1>3, RegisterType, IngestType, MaterializeType, WriteType DEF Next

(* Every variable keeps its type, and each process works on an argument of *)
(* its own kind.                                                           *)
THEOREM TypeCorrect == Spec => []TypeOK
BY TypeInit, TypeStep, PTL DEF Spec

-----------------------------------------------------------------------------
(* The registry across restarts                                            *)

Whole(x) == \/ x.row = None /\ x.feats = {}
            \/ [row |-> x.row, feats |-> x.feats] \in Specs
InRegister(t) == job[t].at \in {"reg_delete", "reg_insert"}

\* The only register under way is as far as it says.
RegisterAlone ==
  \A t \in Threads :
    InRegister(t) /\ Registering \subseteq {t} =>
      /\ reg.row = job[t].arg.row
      /\ job[t].at = "reg_insert" => reg.feats = job[t].feats /\ job[t].feats \subseteq job[t].arg.feats
NothingInserted == \A t \in Threads : job[t].at \in {"reg_group", "reg_delete"} => job[t].feats = {}

RegInv ==
  /\ NothingInserted
  /\ ~mixed => /\ Whole(regSaved)
               /\ Registering = {} => Whole(reg)
               /\ RegisterAlone

(* A step that does not touch what the registry's group is, and lets no    *)
(* process begin or end the statements of a register.                      *)
RegQuiet ==
  /\ reg'.row = reg.row /\ reg'.feats = reg.feats
  /\ \A t \in Threads : InRegister(t)' \/ InRegister(t) => job'[t] = job[t]
  /\ \A t \in Threads : job'[t].at = "reg_group" => job'[t].feats = {}

LEMMA RegQuietStep ==
  ASSUME TypeOK, RegInv, RegQuiet,
         \/ mixed' = mixed /\ regSaved' = regSaved
         \/ regSaved' = reg' /\ mixed' = (mixed \/ Registering # {})
  PROVE  RegInv'
<1>1. \A t \in Threads : InRegister(t)' <=> InRegister(t)
  BY DEF RegQuiet, InRegister
<1>2. Registering' = Registering
  BY <1>1 DEF Registering, InRegister
<1>3. NothingInserted'
  <2> SUFFICES ASSUME NEW t \in Threads, job'[t].at \in {"reg_group", "reg_delete"} PROVE job'[t].feats = {}
    BY DEF NothingInserted
  <2>1. CASE job'[t].at = "reg_group"
    BY <2>1 DEF RegQuiet
  <2>2. CASE job'[t].at = "reg_delete"
    <3>1. job'[t] = job[t]
      BY <2>2 DEF RegQuiet, InRegister
    <3> QED BY <3>1, <2>2 DEF RegInv, NothingInserted
  <2> QED BY <2>1, <2>2
<1>4. ASSUME ~mixed' PROVE Whole(regSaved)' /\ (Registering = {} => Whole(reg))' /\ RegisterAlone'
  <2>1. ~mixed /\ Whole(regSaved) /\ (Registering = {} => Whole(reg)) /\ RegisterAlone
    <3>1. ~mixed
      BY <1>4, Zenon
    <3> QED BY <3>1 DEF RegInv
  <2>2. Whole(reg) => Whole(reg)'
    BY DEF RegQuiet, Whole
  <2>3. Whole(regSaved)'
    BY <1>4, <2>1, <2>2 DEF Whole
  <2>4. RegisterAlone'
    <3> SUFFICES ASSUME NEW t \in Threads, InRegister(t)', Registering \subseteq {t}
                 PROVE  /\ reg'.row = job'[t].arg.row
                        /\ job'[t].at = "reg_insert" =>
                             reg'.feats = job'[t].feats /\ job'[t].feats \subseteq job'[t].arg.feats
      BY <1>2 DEF RegisterAlone
    <3>1. job'[t] = job[t] /\ InRegister(t)
      BY <1>1 DEF RegQuiet
    <3> QED BY <3>1, <2>1 DEF RegisterAlone, RegQuiet
  <2> QED BY <1>2, <2>1, <2>2, <2>3, <2>4
<1> QED BY <1>3, <1>4 DEF RegInv

LEMMA JobAfter ==
  ASSUME TypeOK, NEW p \in Procs, NEW from, NEW next, Step(p, from, next)
  PROVE  /\ job[p].at = from /\ job'[p] = next
         /\ \A q \in Procs : q # p => job'[q] = job[q]
BY DEF Step, TypeOK

LEMMA RegisterStep ==
  ASSUME TypeOK, RegInv, NEW t \in Threads, Register(t)
  PROVE  RegInv'
<1>t. /\ t \in Procs /\ Threads \subseteq Procs /\ reg \in Group /\ job[t] \in Jobs(job[t].arg)
      /\ (job[t].at \in {"reg_group", "reg_delete", "reg_insert"} => job[t].arg \in Specs)
  BY DEF TypeOK, Procs
<1>1. ASSUME NEW s \in Specs, RegisterEntity(t, s) PROVE RegInv'
  <2>1. /\ Step(t, "idle", [Idle EXCEPT !.at = "reg_group", !.arg = s])
        /\ reg' = reg /\ regSaved' = reg' /\ mixed' = (mixed \/ Registering \ {t} # {})
    BY <1>1 DEF RegisterEntity, CommitRegistry
  <2>2. /\ job[t].at = "idle" /\ job'[t] = [Idle EXCEPT !.at = "reg_group", !.arg = s]
        /\ \A q \in Procs : q # t => job'[q] = job[q]
    BY <2>1, <1>t, JobAfter
  <2>3. job'[t].at = "reg_group" /\ job'[t].feats = {}
    BY <2>2 DEF Idle
  <2>4. RegQuiet
    BY <1>t, <2>1, <2>2, <2>3 DEF RegQuiet, InRegister, RegInv, NothingInserted
  <2>5. Registering \ {t} = Registering
    BY <2>2 DEF Registering
  <2> QED BY <2>1, <2>4, <2>5, RegQuietStep
<1>2. CASE RegisterGroup(t)
  <2>1. /\ Step(t, "reg_group", [job[t] EXCEPT !.at = "reg_delete"])
        /\ reg' = [reg EXCEPT !.row = job[t].arg.row] /\ UNCHANGED <<regSaved, mixed>>
    BY <1>2 DEF RegisterGroup, marks
  <2>2. /\ job[t].at = "reg_group" /\ job'[t] = [job[t] EXCEPT !.at = "reg_delete"]
        /\ \A q \in Procs : q # t => job'[q] = job[q]
    BY <2>1, <1>t, JobAfter
  <2>3. /\ job'[t].at = "reg_delete" /\ job'[t].arg = job[t].arg /\ job'[t].feats = {}
        /\ reg'.row = job[t].arg.row
    BY <1>t, <2>1, <2>2 DEF Jobs, Group, RegInv, NothingInserted
  <2>4. t \in Registering'
    BY <2>3 DEF Registering
  <2>5. NothingInserted'
    BY <1>t, <2>2, <2>3 DEF RegInv, NothingInserted
  <2>6. RegisterAlone'
    BY <2>3, <2>4 DEF RegisterAlone
  <2> QED BY <2>1, <2>4, <2>5, <2>6 DEF RegInv, Whole
<1>3. CASE RegisterDelete(t)
  <2>1. /\ Step(t, "reg_delete", [job[t] EXCEPT !.at = "reg_insert"])
        /\ reg' = [reg EXCEPT !.feats = {}] /\ UNCHANGED <<regSaved, mixed>>
    BY <1>3 DEF RegisterDelete, marks
  <2>2. /\ job[t].at = "reg_delete" /\ job'[t] = [job[t] EXCEPT !.at = "reg_insert"]
        /\ \A q \in Procs : q # t => job'[q] = job[q]
    BY <2>1, <1>t, JobAfter
  <2>3. /\ job'[t].at = "reg_insert" /\ job'[t].arg = job[t].arg /\ job'[t].feats = {}
        /\ reg'.feats = {} /\ reg'.row = reg.row
    BY <1>t, <2>1, <2>2 DEF Jobs, Group, RegInv, NothingInserted
  <2>4. t \in Registering' /\ t \in Registering
    BY <2>2, <2>3 DEF Registering
  <2>5. NothingInserted'
    BY <1>t, <2>2, <2>3 DEF RegInv, NothingInserted
  <2>6. ASSUME ~mixed PROVE RegisterAlone'
    <3> SUFFICES ASSUME Registering' \subseteq {t}
                 PROVE  reg'.row = job'[t].arg.row
      BY <2>3, <2>4 DEF RegisterAlone
    <3>1. Registering \subseteq {t}
      BY <1>t, <2>2 DEF Registering
    <3> QED BY <2>2, <2>3, <2>6, <3>1 DEF RegInv, RegisterAlone, InRegister
  <2> QED BY <2>1, <2>4, <2>5, <2>6 DEF RegInv, Whole
<1>4. CASE RegisterInsert(t)
  <2>1. PICK f \in Uninserted(t) \ reg.feats :
          /\ Step(t, "reg_insert", [job[t] EXCEPT !.feats = @ \union {f}])
          /\ reg' = [reg EXCEPT !.feats = @ \union {f}]
    BY <1>4 DEF RegisterInsert
  <2>2. UNCHANGED <<regSaved, mixed>>
    BY <1>4 DEF RegisterInsert, marks
  <2>3. /\ job[t].at = "reg_insert" /\ job'[t] = [job[t] EXCEPT !.feats = @ \union {f}]
        /\ \A q \in Procs : q # t => job'[q] = job[q]
    BY <2>1, <1>t, JobAfter
  <2>4. /\ job'[t].at = "reg_insert" /\ job'[t].arg = job[t].arg /\ job'[t].feats = job[t].feats \union {f}
        /\ reg'.feats = reg.feats \union {f} /\ reg'.row = reg.row /\ f \in job[t].arg.feats
    BY <1>t, <2>1, <2>3 DEF Jobs, Group, Uninserted
  <2>5. t \in Registering' /\ t \in Registering
    BY <2>3, <2>4 DEF Registering
  <2>6. NothingInserted'
    BY <1>t, <2>3, <2>4 DEF RegInv, NothingInserted
  <2>7. ASSUME ~mixed PROVE RegisterAlone'
    <3> SUFFICES ASSUME Registering' \subseteq {t}
                 PROVE  /\ reg'.row = job'[t].arg.row /\ reg'.feats = job'[t].feats
                        /\ job'[t].feats \subseteq job'[t].arg.feats
      BY <2>4, <2>5 DEF RegisterAlone
    <3>1. Registering \subseteq {t}
      BY <1>t, <2>3 DEF Registering
    <3> QED BY <2>3, <2>4, <2>7, <3>1 DEF RegInv, RegisterAlone, InRegister
  <2> QED BY <2>2, <2>5, <2>6, <2>7 DEF RegInv, Whole
<1>5. CASE RegisterConflict(t)
  <2>1. Step(t, "reg_insert", Idle) /\ mixed'
    BY <1>5 DEF RegisterConflict
  <2>2. job'[t] = Idle /\ \A q \in Procs : q # t => job'[q] = job[q]
    BY <2>1, <1>t, JobAfter
  <2>3. NothingInserted'
    BY <1>t, <2>2, IdleType DEF RegInv, NothingInserted
  <2> QED BY <2>1, <2>3 DEF RegInv
<1>6. CASE RegisterCommit(t)
  <2>1. /\ Step(t, "reg_insert", Idle) /\ Uninserted(t) = {} /\ reg' = reg
        /\ regSaved' = reg' /\ mixed' = (mixed \/ Registering \ {t} # {})
    BY <1>6 DEF RegisterCommit, CommitRegistry
  <2>2. job[t].at = "reg_insert" /\ job'[t] = Idle /\ \A q \in Procs : q # t => job'[q] = job[q]
    BY <2>1, <1>t, JobAfter
  <2>3. NothingInserted'
    BY <1>t, <2>2, IdleType DEF RegInv, NothingInserted
  <2>4. ASSUME ~mixed' PROVE Whole(reg) /\ Registering' = {}
    <3>1. ~mixed /\ Registering \subseteq {t}
      BY <2>1, <2>4
    <3>2. /\ reg.row = job[t].arg.row /\ reg.feats = job[t].feats
          /\ job[t].feats \subseteq job[t].arg.feats
      BY <2>2, <3>1 DEF RegInv, RegisterAlone, InRegister
    <3>3. job[t].arg \in [row : Flags, feats : SUBSET Feature]
      BY <1>t, <2>2, SpecAssumption
    <3>4. reg.feats = job[t].arg.feats
      BY <2>1, <3>2 DEF Uninserted
    <3>5. [row |-> reg.row, feats |-> reg.feats] = job[t].arg
      BY <3>2, <3>3, <3>4
    <3>6. Registering' = {}
      BY <1>t, <2>2, <3>1, IdleType DEF Registering
    <3> QED BY <1>t, <2>2, <3>5, <3>6 DEF Whole
  <2>5. ASSUME ~mixed' PROVE RegisterAlone'
    BY <2>4, <2>5 DEF RegisterAlone, Registering, InRegister
  <2> QED BY <2>1, <2>3, <2>4, <2>5 DEF RegInv, Whole
<1> QED BY <1>1, <1>2, <1>3, <1>4, <1>5, <1>6 DEF Register

\* No step of an ingest, a materialize or a write is one of a register.
OtherSteps == {"in_check", "in_offline", "in_rewrite", "in_log", "mat_feats", "mat_read", "write", "idle"}

LEMMA OtherStep ==
  ASSUME TypeOK, RegInv, NEW p \in Procs, NEW from \in OtherSteps, NEW next,
         p = Loop \/ next.at \in OtherSteps,
         Step(p, from, next), reg'.row = reg.row, reg'.feats = reg.feats
  PROVE  RegQuiet
<1>1. job[p].at = from /\ job'[p] = next /\ \A q \in Procs : q # p => job'[q] = job[q]
  BY JobAfter
<1>2. \A t \in Threads : t = p => next.at \in OtherSteps
  BY ProcAssumption
<1> QED BY <1>1, <1>2 DEF RegQuiet, InRegister, OtherSteps, Procs, RegInv, NothingInserted

LEMMA IngestRegStep ==
  ASSUME TypeOK, RegInv, Ingest
  PROVE  RegInv'
<1> USE DEF regVars, marks
<1>1. Loop \in Procs /\ reg \in Group
  BY DEF TypeOK, Procs
<1>2. CASE IngestLog
  <2>1. /\ Step(Loop, "in_log", Idle) /\ reg' = [reg EXCEPT !.log = @ \union {job[Loop].arg}]
        /\ regSaved' = reg' /\ mixed' = (mixed \/ Registering \ {Loop} # {})
    BY <1>2 DEF IngestLog, CommitRegistry
  <2>2. Registering \ {Loop} = Registering
    BY ProcAssumption DEF Registering
  <2>3. reg'.row = reg.row /\ reg'.feats = reg.feats
    BY <1>1, <2>1 DEF Group
  <2>4. "in_log" \in OtherSteps
    BY DEF OtherSteps
  <2> QED BY <1>1, <2>1, <2>2, <2>3, <2>4, OtherStep, RegQuietStep
<1>3. CASE ~IngestLog
  <2>1. /\ \E from \in OtherSteps : \E next : Step(Loop, from, next)
        /\ UNCHANGED <<reg, regSaved, mixed>>
    BY <1>3 DEF Ingest, IngestStart, IngestAccepts, IngestRejects, WriteBegin, WriteEnd, WriteFails,
                IngestOnline, OtherSteps
  <2> QED BY <1>1, <2>1, OtherStep, RegQuietStep
<1> QED BY <1>2, <1>3

LEMMA MaterializeRegStep ==
  ASSUME TypeOK, RegInv, NEW t \in Threads, Materialize(t)
  PROVE  RegInv'
<1> USE DEF regVars, marks
<1>1. t \in Procs /\ job[t] \in Jobs(job[t].arg)
  BY DEF TypeOK, Procs
<1>2. UNCHANGED <<reg, regSaved, mixed>>
  BY DEF Materialize, MaterializeStart, MaterializeFeatures, MaterializeRead, MaterializeFails
<1>3. CASE MaterializeStart(t)
  <2> DEFINE next == [Idle EXCEPT !.at = "mat_feats", !.row = reg.row]
  <2>1. job[t].at = "idle" /\ job' = [job EXCEPT ![t] = next]
    BY <1>3, IdleType DEF MaterializeStart
  <2>2. next.at = "mat_feats"
    BY DEF Idle
  <2> HIDE DEF next
  <2>3. job'[t] = next /\ \A q \in Procs : q # t => job'[q] = job[q]
    BY <1>1, <2>1 DEF TypeOK
  <2>4. RegQuiet
    BY <1>2, <2>1, <2>2, <2>3 DEF RegQuiet, InRegister, Procs, RegInv, NothingInserted
  <2> QED BY <1>2, <2>4, RegQuietStep
<1>4. CASE ~MaterializeStart(t)
  <2>1. \E from \in OtherSteps : \E next : next.at \in OtherSteps /\ Step(t, from, next)
    <3>1. CASE MaterializeFeatures(t)
      <4>1. [job[t] EXCEPT !.at = "mat_read", !.feats = reg.feats].at = "mat_read"
        BY <1>1 DEF Jobs
      <4> DEFINE next == [job[t] EXCEPT !.at = "mat_read", !.feats = reg.feats]
      <4>2. Step(t, "mat_feats", next) /\ "mat_feats" \in OtherSteps /\ next.at \in OtherSteps
        BY <3>1, <4>1 DEF MaterializeFeatures, OtherSteps
      <4> HIDE DEF next
      <4> QED BY <4>2
    <3>2. CASE MaterializeRead(t)
      <4>1. PICK S \in LatestRows(Stored) :
              Step(t, "mat_read", [job[t] EXCEPT !.at = "write", !.todo = Writes(S, job[t].feats)])
        BY <3>2 DEF MaterializeRead
      <4>2. [job[t] EXCEPT !.at = "write", !.todo = Writes(S, job[t].feats)].at = "write"
        BY <1>1 DEF Jobs
      <4> DEFINE next == [job[t] EXCEPT !.at = "write", !.todo = Writes(S, job[t].feats)]
      <4>3. Step(t, "mat_read", next) /\ "mat_read" \in OtherSteps /\ next.at \in OtherSteps
        BY <4>1, <4>2 DEF OtherSteps
      <4> HIDE DEF next
      <4> QED BY <4>3
    <3>3. CASE MaterializeFails(t)
      BY <3>3, IdleType DEF MaterializeFails, OtherSteps
    <3> QED BY <1>4, <3>1, <3>2, <3>3 DEF Materialize
  <2> QED BY <1>1, <1>2, <2>1, OtherStep, RegQuietStep
<1> QED BY <1>3, <1>4

LEMMA WriteRegStep ==
  ASSUME TypeOK, RegInv, NEW p \in Procs, WriteCell(p) \/ WriteCommit(p)
  PROVE  RegInv'
<1> USE DEF regVars, marks
<1>1. job[p] \in Jobs(job[p].arg)
  BY DEF TypeOK
<1>2. UNCHANGED <<reg, regSaved, mixed>>
  BY DEF WriteCell, WriteCommit
<1>3. CASE WriteCell(p)
  <2>1. PICK c \in job[p].todo : Step(p, "write", [job[p] EXCEPT !.todo = @ \ {c}])
    BY <1>3 DEF WriteCell
  <2>2. [job[p] EXCEPT !.todo = @ \ {c}].at = job[p].at /\ job[p].at = "write"
    BY <1>1, <2>1 DEF Jobs, Step
  <2>3. "write" \in OtherSteps
    BY DEF OtherSteps
  <2> QED BY <1>2, <2>1, <2>2, <2>3, OtherStep, RegQuietStep
<1>4. CASE WriteCommit(p)
  <2> DEFINE next == IF p = Loop THEN [job[p] EXCEPT !.at = "in_log"] ELSE Idle
  <2>1. Step(p, "write", next) /\ "write" \in OtherSteps
    BY <1>4 DEF WriteCommit, OtherSteps
  <2>2. p = Loop \/ next.at \in OtherSteps
    BY IdleType DEF OtherSteps
  <2> HIDE DEF next
  <2> QED BY <1>2, <2>1, <2>2, OtherStep, RegQuietStep
<1> QED BY <1>3, <1>4

LEMMA RegStep == TypeOK /\ RegInv /\ [Next]_vars => RegInv'
<1> SUFFICES ASSUME TypeOK, RegInv, [Next]_vars PROVE RegInv'
  OBVIOUS
<1> USE DEF regVars, marks
<1>1. CASE Crash
  <2>1. reg' = regSaved /\ regSaved' = regSaved /\ mixed' = mixed
    BY <1>1 DEF Crash
  <2>2. \A t \in Threads : job'[t].at = "idle"
    BY <1>1, IdleType DEF Crash, Procs
  <2> QED BY <2>1, <2>2 DEF RegInv, RegisterAlone, Registering, InRegister, NothingInserted, Whole
<1>2. CASE UNCHANGED vars \/ \E e \in Entity, r \in Row : Expire(e, r)
  <2>1. UNCHANGED <<reg, regSaved, mixed, job>>
    BY <1>2 DEF vars, Expire
  <2>2. RegQuiet
    BY <2>1 DEF RegQuiet, RegInv, NothingInserted
  <2> QED BY <2>1, <2>2, RegQuietStep
<1> QED BY <1>1, <1>2, RegisterStep, IngestRegStep, MaterializeRegStep, WriteRegStep DEF Next

LEMMA RegInit == Init => RegInv
<1> SUFFICES ASSUME Init PROVE RegInv
  OBVIOUS
<1>1. \A t \in Threads : job[t].at = "idle"
  BY IdleType DEF Init, Procs
<1> QED BY <1>1 DEF Init, RegInv, RegisterAlone, InRegister, NothingInserted, Whole

(* A restart finds a group as somebody registered it or no group, unless   *)
(* the commit of another thread or a register that ran into another has    *)
(* made half a group last (registry.py:65-88: one commit, at the end).     *)
THEOREM RestartFindsWholeGroups == Spec => []RegistryWhole
<1>1. RegInv => RegistryWhole
  BY DEF RegInv, RegistryWhole, Whole
<1> QED BY <1>1, RegInit, RegStep, TypeInit, TypeStep, PTL DEF Spec

-----------------------------------------------------------------------------
(* What is served or logged is in a partition                              *)

\* The partition that is being rewritten has its old rows still.
Rewriting == {d \in job[Loop].parts : job[Loop].at = "in_rewrite" /\ First(d)}
Safe == {r \in Row : r \in Stored \union onlineOnly \/ Day(r.ts) \in torn \ Rewriting}

ByDay == \A d \in Days : \A r \in offline[d] : Day(r.ts) = d
AcceptedSafe ==
  job[Loop].at \in {"in_offline", "in_rewrite", "write", "in_log"} =>
    \A r \in job[Loop].arg : r \in Safe \/ Day(r.ts) \in job[Loop].parts
PartsDone == job[Loop].at \in {"write", "in_log"} => job[Loop].parts = {}
TodoSafe == \A p \in Procs : \A w \in job[p].todo : w[2] \in Safe
ServedSafe ==
  \A c \in Cells : online[c] \in Safe \union {None} /\ onlineSaved[c] \in Safe \union {None}
LogSafe == \A b \in reg.log \union regSaved.log : b \subseteq Safe

AheadInv == ByDay /\ AcceptedSafe /\ PartsDone /\ TodoSafe /\ ServedSafe /\ LogSafe

LEMMA FirstIsOne ==
  ASSUME TypeOK, NEW d \in job[Loop].parts, NEW e \in job[Loop].parts, First(d), First(e)
  PROVE  d = e
<1>1. job[Loop].parts \subseteq Nat
  BY DaysAreNumbers DEF TypeOK, Procs, Jobs
<1>2. d <= e /\ e <= d /\ d \in Nat /\ e \in Nat
  BY <1>1 DEF First
<1> QED BY <1>2

LEMMA StoredGrows ==
  ASSUME \A d \in Days : offline[d] \subseteq offline'[d]
  PROVE  Stored \subseteq Stored'
BY DEF Stored

LEMMA SafeIfUntouched ==
  ASSUME UNCHANGED <<offline, torn>>, onlineOnly \subseteq onlineOnly', Rewriting' \subseteq Rewriting
  PROVE  Safe \subseteq Safe'
BY DEF Safe, Stored

(* No safe row is ever lost, and all a step adds is safe.                  *)
LEMMA AheadKept ==
  ASSUME AheadInv, Safe \subseteq Safe', ByDay', AcceptedSafe', PartsDone',
         \A p \in Procs : \A w \in job'[p].todo : w \in job[p].todo \/ w[2] \in Safe,
         \A c \in Cells : /\ online'[c] \in {online[c], onlineSaved[c], None} \union Safe
                          /\ onlineSaved'[c] \in {online[c], onlineSaved[c], None},
         \A b \in reg'.log \union regSaved'.log : b \in reg.log \union regSaved.log \/ b \subseteq Safe
  PROVE  AheadInv'
<1>1. TodoSafe'
  BY DEF AheadInv, TodoSafe
<1>2. ServedSafe'
  BY DEF AheadInv, ServedSafe
<1>3. LogSafe'
  BY DEF AheadInv, LogSafe
<1> QED BY <1>1, <1>2, <1>3 DEF AheadInv

(* A step that leaves the partitions and the ingest alone.                 *)
LEMMA IngestUntouched ==
  ASSUME AheadInv, UNCHANGED <<offline, torn, onlineOnly>>, job'[Loop] = job[Loop]
  PROVE  Safe' = Safe /\ ByDay' /\ AcceptedSafe' /\ PartsDone'
<1>1. Rewriting' = Rewriting
  BY DEF Rewriting, First
<1>2. Safe' = Safe
  BY <1>1 DEF Safe, Stored
<1> QED BY <1>2 DEF AheadInv, ByDay, AcceptedSafe, PartsDone

LEMMA RegisterAheadStep ==
  ASSUME TypeOK, AheadInv, NEW t \in Threads, Register(t)
  PROVE  AheadInv'
<1> USE DEF offlineVars, onlineVars, marks, regVars
<1>1. t \in Procs /\ t # Loop /\ Loop \in Procs /\ reg \in Group /\ job[t] \in Jobs(job[t].arg)
  BY ProcAssumption DEF TypeOK, Procs
<1>2. /\ UNCHANGED <<offline, torn, onlineOnly, online, onlineSaved>>
      /\ \E from, next : Step(t, from, next) /\ next.todo \subseteq job[t].todo
    <2>1. ASSUME NEW s \in Specs, RegisterEntity(t, s) PROVE <1>2
      <3>1. [Idle EXCEPT !.at = "reg_group", !.arg = s].todo = {}
        BY DEF Idle
      <3> QED BY <2>1, <3>1 DEF RegisterEntity
    <2>2. CASE RegisterGroup(t)
      <3>1. [job[t] EXCEPT !.at = "reg_delete"].todo = job[t].todo
        BY <1>1 DEF Jobs
      <3> QED BY <2>2, <3>1 DEF RegisterGroup
    <2>3. CASE RegisterDelete(t)
      <3>1. [job[t] EXCEPT !.at = "reg_insert"].todo = job[t].todo
        BY <1>1 DEF Jobs
      <3> QED BY <2>3, <3>1 DEF RegisterDelete
    <2>4. CASE RegisterInsert(t)
      <3>1. \A f : [job[t] EXCEPT !.feats = @ \union {f}].todo = job[t].todo
        BY <1>1 DEF Jobs
      <3> QED BY <2>4, <3>1 DEF RegisterInsert
    <2>5. CASE RegisterConflict(t) \/ RegisterCommit(t)
      BY <2>5, IdleType DEF RegisterConflict, RegisterCommit
    <2> QED BY <2>1, <2>2, <2>3, <2>4, <2>5 DEF Register
<1>3. /\ \A q \in Procs : q # t => job'[q] = job[q]
      /\ job'[t].todo \subseteq job[t].todo
  BY <1>1, <1>2, JobAfter
<1>4. reg'.log = reg.log /\ regSaved'.log \in {reg.log, regSaved.log}
  BY <1>1 DEF Register, RegisterEntity, RegisterGroup, RegisterDelete, RegisterInsert,
              RegisterConflict, RegisterCommit, CommitRegistry, Group
<1>5. Safe' = Safe /\ ByDay' /\ AcceptedSafe' /\ PartsDone'
  BY <1>1, <1>2, <1>3, IngestUntouched
<1> QED BY <1>2, <1>3, <1>4, <1>5, AheadKept

LEMMA MaterializeAheadStep ==
  ASSUME TypeOK, AheadInv, NEW t \in Threads, Materialize(t)
  PROVE  AheadInv'
<1> USE DEF offlineVars, onlineVars, marks, regVars
<1>1. t \in Procs /\ t # Loop /\ Loop \in Procs /\ job[t] \in Jobs(job[t].arg)
  BY ProcAssumption DEF TypeOK, Procs
<1>2. UNCHANGED <<offline, torn, onlineOnly, online, onlineSaved, reg, regSaved>>
  BY DEF Materialize, MaterializeStart, MaterializeFeatures, MaterializeRead, MaterializeFails
<1>3. /\ \A q \in Procs : q # t => job'[q] = job[q]
      /\ \A w \in job'[t].todo : w \in job[t].todo \/ w[2] \in Safe
  <2>1. CASE MaterializeStart(t)
    <3> DEFINE next == [Idle EXCEPT !.at = "mat_feats", !.row = reg.row]
    <3>1. job' = [job EXCEPT ![t] = next] /\ next.todo = {}
      BY <2>1, IdleType DEF MaterializeStart, Idle
    <3> HIDE DEF next
    <3> QED BY <1>1, <3>1 DEF TypeOK
  <2>2. CASE MaterializeFeatures(t)
    <3> DEFINE next == [job[t] EXCEPT !.at = "mat_read", !.feats = reg.feats]
    <3>1. Step(t, "mat_feats", next) /\ next.todo = job[t].todo
      BY <2>2, <1>1 DEF MaterializeFeatures, Jobs
    <3> HIDE DEF next
    <3> QED BY <1>1, <3>1, JobAfter
  <2>3. CASE MaterializeRead(t)
    <3>1. PICK S \in LatestRows(Stored) :
            Step(t, "mat_read", [job[t] EXCEPT !.at = "write", !.todo = Writes(S, job[t].feats)])
      BY <2>3 DEF MaterializeRead
    <3> DEFINE todo == Writes(S, job[t].feats)
               next == [job[t] EXCEPT !.at = "write", !.todo = todo]
    <3>2. S \subseteq Safe /\ S \subseteq Row
      BY <3>1, StoredType, LatestAreRows DEF Safe
    <3>3. \A w \in todo : w[2] \in Safe
      BY <1>1, <3>2, JobFields, WritesType
    <3> HIDE DEF todo
    <3>4. next.todo = todo
      BY <1>1 DEF Jobs
    <3>5. Step(t, "mat_read", next)
      BY <3>1 DEF todo
    <3> HIDE DEF next
    <3>6. job'[t] = next /\ \A q \in Procs : q # t => job'[q] = job[q]
      BY <1>1, <3>5, JobAfter
    <3> QED BY <3>3, <3>4, <3>6
  <2>4. CASE MaterializeFails(t)
    <3>1. job'[t] = Idle /\ \A q \in Procs : q # t => job'[q] = job[q]
      BY <1>1, <2>4, JobAfter DEF MaterializeFails
    <3> QED BY <3>1, IdleType
  <2> QED BY <2>1, <2>2, <2>3, <2>4 DEF Materialize
<1>4. Safe' = Safe /\ ByDay' /\ AcceptedSafe' /\ PartsDone'
  BY <1>1, <1>2, <1>3, IngestUntouched
<1> QED BY <1>2, <1>3, <1>4, AheadKept

LEMMA WriteAheadStep ==
  ASSUME TypeOK, AheadInv, NEW p \in Procs, WriteCell(p) \/ WriteCommit(p)
  PROVE  AheadInv'
<1> USE DEF offlineVars, onlineVars, marks, regVars
<1>1. Loop \in Procs /\ job[p] \in Jobs(job[p].arg)
  BY DEF TypeOK, Procs
<1>2. UNCHANGED <<offline, torn, onlineOnly, reg, regSaved>>
  BY DEF WriteCell, WriteCommit
<1>3. CASE WriteCell(p)
  <2>1. PICK c \in job[p].todo :
          /\ Step(p, "write", [job[p] EXCEPT !.todo = @ \ {c}])
          /\ online' = [online EXCEPT ![c[1]] = c[2]]
    BY <1>3 DEF WriteCell
  <2> DEFINE next == [job[p] EXCEPT !.todo = @ \ {c}]
  <2>2. /\ next.todo \subseteq job[p].todo /\ next.at = job[p].at /\ next.parts = job[p].parts
        /\ next.arg = job[p].arg /\ job[p].at = "write"
    BY <1>1, <2>1 DEF Jobs, Step
  <2> HIDE DEF next
  <2>3. job'[p] = next /\ \A q \in Procs : q # p => job'[q] = job[q]
    BY <2>1, JobAfter DEF next
  <2>4. Rewriting' = Rewriting
    BY <1>1, <2>2, <2>3 DEF Rewriting, First
  <2>5. Safe' = Safe
    BY <1>2, <2>4 DEF Safe, Stored
  <2>6. ByDay' /\ AcceptedSafe' /\ PartsDone'
    BY <1>1, <1>2, <2>2, <2>3, <2>5 DEF AheadInv, ByDay, AcceptedSafe, PartsDone
  <2>7. onlineSaved' = onlineSaved /\ \A d \in Cells : online'[d] \in {online[d]} \union Safe
    <3>1. c[2] \in Safe
      BY <2>1 DEF AheadInv, TodoSafe
    <3> QED BY <1>3, <2>1, <3>1 DEF WriteCell, TypeOK
  <2> QED BY <1>2, <2>2, <2>3, <2>5, <2>6, <2>7, AheadKept
<1>4. CASE WriteCommit(p)
  <2> DEFINE next == IF p = Loop THEN [job[p] EXCEPT !.at = "in_log"] ELSE Idle
  <2>1. Step(p, "write", next) /\ online' = online /\ onlineSaved' = online
    BY <1>4 DEF WriteCommit
  <2>2. next.todo \subseteq job[p].todo
    BY <1>1, IdleType DEF Jobs
  <2>3. p = Loop => next.at = "in_log" /\ next.parts = job[p].parts /\ next.arg = job[p].arg
    BY <1>1 DEF Jobs
  <2> HIDE DEF next
  <2>4. job[p].at = "write" /\ job'[p] = next /\ \A q \in Procs : q # p => job'[q] = job[q]
    BY <2>1, JobAfter
  <2>5. Rewriting' = Rewriting
    BY <1>1, <2>3, <2>4 DEF Rewriting, First
  <2>6. Safe' = Safe
    BY <1>2, <2>5 DEF Safe, Stored
  <2>7. ByDay' /\ AcceptedSafe' /\ PartsDone'
    BY <1>1, <1>2, <2>3, <2>4, <2>6 DEF AheadInv, ByDay, AcceptedSafe, PartsDone
  <2> QED BY <1>2, <2>1, <2>2, <2>4, <2>6, <2>7, AheadKept
<1> QED BY <1>3, <1>4

(* An ingest that stops, or looks at its batch, writes nothing.            *)
LEMMA IngestEdgeStep ==
  ASSUME TypeOK, AheadInv,
         (\E b \in Batches : IngestStart(b)) \/ IngestRejects \/ WriteFails \/ IngestLog
  PROVE  AheadInv'
<1> USE DEF offlineVars, onlineVars, marks, regVars
<1>1. Loop \in Procs /\ reg \in Group /\ job[Loop] \in Jobs(job[Loop].arg)
  BY DEF TypeOK, Procs
<1>2. /\ UNCHANGED <<offline, torn, onlineOnly, online, onlineSaved>>
      /\ \E from \in {"idle", "in_check", "in_offline", "in_log"} : \E next :
           Step(Loop, from, next) /\ next.todo = {} /\ next.at \in {"idle", "in_check"}
  <2>1. ASSUME NEW b \in Batches, IngestStart(b) PROVE <1>2
    <3> DEFINE next == [Idle EXCEPT !.at = "in_check", !.arg = b, !.row = reg.row]
    <3>1. next.todo = {} /\ next.at = "in_check"
      BY DEF Idle
    <3>2. Step(Loop, "idle", next) /\ UNCHANGED <<offline, torn, onlineOnly, online, onlineSaved>>
      BY <2>1 DEF IngestStart
    <3> HIDE DEF next
    <3> QED BY <3>1, <3>2
  <2>2. CASE IngestRejects \/ WriteFails \/ IngestLog
    BY <2>2, IdleType DEF IngestRejects, WriteFails, IngestLog
  <2> QED BY <2>1, <2>2
<1>3. /\ job[Loop].at \in {"idle", "in_check", "in_offline", "in_log"}
      /\ job'[Loop].todo = {} /\ job'[Loop].at \in {"idle", "in_check"}
      /\ \A q \in Procs : q # Loop => job'[q] = job[q]
  BY <1>1, <1>2, JobAfter
<1>4. Rewriting' = {}
  BY <1>3 DEF Rewriting
<1>5. Safe \subseteq Safe'
  BY <1>2, <1>4, SafeIfUntouched
<1>6. ByDay' /\ AcceptedSafe' /\ PartsDone'
  BY <1>2, <1>3 DEF AheadInv, ByDay, AcceptedSafe, PartsDone
<1>7. \A b \in reg'.log \union regSaved'.log : b \in reg.log \union regSaved.log \/ b \subseteq Safe
  <2>1. CASE IngestLog
    <3>1. job[Loop].at = "in_log" /\ reg' = [reg EXCEPT !.log = @ \union {job[Loop].arg}] /\ regSaved' = reg'
      BY <2>1 DEF IngestLog, Step, CommitRegistry
    <3>2. job[Loop].arg \subseteq Safe
      BY <3>1 DEF AheadInv, AcceptedSafe, PartsDone
    <3>3. reg'.log = reg.log \union {job[Loop].arg}
      BY <1>1, <3>1 DEF Group
    <3> QED BY <3>1, <3>2, <3>3
  <2>2. CASE ~IngestLog
    BY <2>2 DEF IngestStart, IngestRejects, WriteFails
  <2> QED BY <2>1, <2>2
<1>8. \A p \in Procs : job'[p].todo \subseteq job[p].todo
  BY <1>3
<1> QED BY <1>2, <1>5, <1>6, <1>7, <1>8, AheadKept

(* The steps of an ingest that has been accepted, up to its online rows.   *)
LEMMA IngestCoreStep ==
  ASSUME TypeOK, AheadInv, IngestAccepts \/ WriteBegin \/ WriteEnd \/ IngestOnline
  PROVE  AheadInv'
<1> USE DEF offlineVars, onlineVars, marks, regVars
<1> DEFINE L == job[Loop]
<1>1. Loop \in Procs /\ L \in Jobs(L.arg) /\ (L.at # "idle" => L.arg \in Batches /\ L.arg \subseteq Row)
  BY RowsOfBatch DEF TypeOK, Procs
<1>2. UNCHANGED <<online, onlineSaved, reg, regSaved>>
  BY DEF IngestAccepts, WriteBegin, WriteEnd, IngestOnline
<1>3. ASSUME NEW from, NEW next, Step(Loop, from, next), Safe \subseteq Safe', ByDay',
             \A w \in next.todo : w \in L.todo \/ w[2] \in Safe,
             next.at \in {"in_offline", "in_rewrite", "write", "in_log"} =>
               \A r \in next.arg : r \in Safe' \/ Day(r.ts) \in next.parts,
             next.at \in {"write", "in_log"} => next.parts = {}
      PROVE  AheadInv'
  <2>1. job'[Loop] = next /\ \A q \in Procs : q # Loop => job'[q] = job[q]
    BY <1>1, <1>3, JobAfter
  <2>2. AcceptedSafe' /\ PartsDone'
    BY <1>3, <2>1 DEF AcceptedSafe, PartsDone
  <2> QED BY <1>2, <1>3, <2>1, <2>2, AheadKept
<1>4. CASE IngestAccepts
  <2> DEFINE parts == IF L.row.offline THEN {Day(r.ts) : r \in L.arg} ELSE {}
             next == [L EXCEPT !.at = "in_offline", !.feats = reg.feats, !.parts = parts]
  <2>1. /\ Step(Loop, "in_check", next) /\ UNCHANGED <<offline, torn>>
        /\ onlineOnly' = IF L.row.offline THEN onlineOnly ELSE onlineOnly \union L.arg
    BY <1>4 DEF IngestAccepts
  <2>2. next.todo = L.todo /\ next.at = "in_offline" /\ next.arg = L.arg /\ next.parts = parts
    BY <1>1 DEF Jobs
  <2>3. L.at = "in_check" /\ job'[Loop] = next
    BY <1>1, <2>1, JobAfter
  <2>4. Safe \subseteq Safe'
    <3>1. Rewriting' = {}
      BY <2>2, <2>3 DEF Rewriting
    <3> QED BY <2>1, <3>1, SafeIfUntouched
  <2>5. \A r \in L.arg : r \in Safe' \/ Day(r.ts) \in parts
    <3>1. CASE L.row.offline
      BY <3>1
    <3>2. CASE ~L.row.offline
      BY <1>1, <2>1, <2>3, <3>2 DEF Safe
    <3> QED BY <3>1, <3>2
  <2>6. ByDay'
    BY <2>1 DEF AheadInv, ByDay
  <2> HIDE DEF next, parts
  <2> QED BY <1>3, <2>1, <2>2, <2>4, <2>5, <2>6
<1>5. CASE WriteBegin
  <2>1. PICK d \in L.parts \ torn :
          First(d) /\ Step(Loop, "in_offline", [L EXCEPT !.at = "in_rewrite"]) /\ torn' = torn \union {d}
    BY <1>5 DEF WriteBegin
  <2> DEFINE next == [L EXCEPT !.at = "in_rewrite"]
  <2>2. next.todo = L.todo /\ next.at = "in_rewrite" /\ next.arg = L.arg /\ next.parts = L.parts
    BY <1>1 DEF Jobs
  <2>3. L.at = "in_offline" /\ job'[Loop] = next
    BY <1>1, <2>1, JobAfter
  <2>4. Rewriting' = {d} /\ Rewriting = {}
    <3>1. \A e \in L.parts : First(e)' <=> First(e)
      BY <2>2, <2>3 DEF First
    <3> QED BY <2>1, <2>2, <2>3, <3>1, FirstIsOne DEF Rewriting
  <2>5. offline' = offline /\ onlineOnly' = onlineOnly
    BY <1>5 DEF WriteBegin
  <2>6. Safe \subseteq Safe'
    BY <2>1, <2>4, <2>5 DEF Safe, Stored
  <2>7. ByDay'
    BY <2>5 DEF AheadInv, ByDay
  <2>8. \A r \in next.arg : r \in Safe' \/ Day(r.ts) \in next.parts
    BY <2>2, <2>3, <2>6 DEF AheadInv, AcceptedSafe
  <2> HIDE DEF next
  <2> QED BY <1>3, <2>1, <2>2, <2>6, <2>7, <2>8 DEF next
<1>6. CASE WriteEnd
  <2>1. PICK d \in L.parts :
          /\ First(d) /\ Step(Loop, "in_rewrite", [L EXCEPT !.at = "in_offline", !.parts = @ \ {d}])
          /\ offline' = [offline EXCEPT ![d] = Rewritten(d)] /\ torn' = torn \ {d}
    BY <1>6 DEF WriteEnd
  <2>2. onlineOnly' = onlineOnly
    BY <1>6 DEF WriteEnd
  <2> DEFINE next == [L EXCEPT !.at = "in_offline", !.parts = @ \ {d}]
  <2>3. next.todo = L.todo /\ next.at = "in_offline" /\ next.arg = L.arg /\ next.parts = L.parts \ {d}
    BY <1>1 DEF Jobs
  <2> HIDE DEF next
  <2>4. L.at = "in_rewrite" /\ job'[Loop] = next
    BY <1>1, <2>1, JobAfter DEF next
  <2>5. Rewriting = {d} /\ Rewriting' = {}
    BY <2>1, <2>3, <2>4, FirstIsOne DEF Rewriting
  <2>6. /\ d \in Days /\ offline'[d] = offline[d] \union {r \in L.arg : Day(r.ts) = d}
        /\ \A e \in Days : e # d => offline'[e] = offline[e]
    BY <1>1, <2>1 DEF TypeOK, Jobs, Rewritten
  <2>7. Stored \subseteq Stored' /\ {r \in L.arg : Day(r.ts) = d} \subseteq Stored'
    BY <2>6, StoredGrows DEF Stored
  <2>8. Safe \subseteq Safe'
    BY <2>1, <2>2, <2>5, <2>7 DEF Safe
  <2>9. ByDay'
    BY <2>6 DEF AheadInv, ByDay
  <2>10. \A r \in next.arg : r \in Safe' \/ Day(r.ts) \in next.parts
    <3> SUFFICES ASSUME NEW r \in L.arg PROVE r \in Safe' \/ Day(r.ts) \in L.parts \ {d}
      BY <2>3
    <3>1. r \in Row /\ (r \in Safe \/ Day(r.ts) \in L.parts)
      BY <1>1, <2>4 DEF AheadInv, AcceptedSafe
    <3>2. CASE Day(r.ts) = d
      <4>1. r \in Stored'
        BY <2>7, <3>2
      <4> QED BY <3>1, <4>1 DEF Safe
    <3> QED BY <2>8, <3>1, <3>2
  <2> QED BY <1>3, <2>1, <2>3, <2>8, <2>9, <2>10 DEF next
<1>7. CASE IngestOnline
  <2>1. UNCHANGED <<offline, torn, onlineOnly>> /\ L.at = "in_offline" /\ L.parts = {}
    BY <1>7 DEF IngestOnline
  <2>2. L.arg \subseteq Safe
    BY <1>1, <2>1 DEF AheadInv, AcceptedSafe
  <2>3. ASSUME NEW next, Step(Loop, "in_offline", next), next.at \in {"write", "in_log"},
               next.parts = L.parts, next.arg = L.arg,
               \A w \in next.todo : w \in L.todo \/ w[2] \in Safe
        PROVE  AheadInv'
    <3>1. job'[Loop] = next
      BY <1>1, <2>3, JobAfter
    <3>2. Rewriting' = {}
      BY <2>3, <3>1 DEF Rewriting
    <3>3. Safe \subseteq Safe' /\ ByDay'
      BY <2>1, <3>2, SafeIfUntouched DEF AheadInv, ByDay
    <3> QED BY <1>3, <2>1, <2>2, <2>3, <3>3
  <2>4. ASSUME NEW S \in LatestRows(L.arg),
               Step(Loop, "in_offline", [L EXCEPT !.at = "write", !.todo = Writes(S, L.feats)])
        PROVE  AheadInv'
    <3> DEFINE todo == Writes(S, L.feats)
               next == [L EXCEPT !.at = "write", !.todo = todo]
    <3>1. S \subseteq Safe /\ S \subseteq Row
      BY <1>1, <2>1, <2>2, LatestAreRows
    <3>2. \A w \in todo : w[2] \in Safe
      BY <1>1, <3>1, JobFields, WritesType
    <3> HIDE DEF todo
    <3>3. next.todo = todo /\ next.at = "write" /\ next.parts = L.parts /\ next.arg = L.arg
      BY <1>1 DEF Jobs
    <3>4. Step(Loop, "in_offline", next)
      BY <2>4 DEF todo
    <3> HIDE DEF next
    <3> QED BY <2>3, <3>2, <3>3, <3>4
  <2>5. ASSUME Step(Loop, "in_offline", [L EXCEPT !.at = "in_log"]) PROVE AheadInv'
    <3> DEFINE next == [L EXCEPT !.at = "in_log"]
    <3>1. next.todo = L.todo /\ next.at = "in_log" /\ next.parts = L.parts /\ next.arg = L.arg
      BY <1>1 DEF Jobs
    <3>2. Step(Loop, "in_offline", next)
      BY <2>5
    <3> HIDE DEF next
    <3> QED BY <2>3, <3>1, <3>2
  <2> QED BY <1>7, <2>4, <2>5 DEF IngestOnline
<1> QED BY <1>4, <1>5, <1>6, <1>7

LEMMA CrashAheadStep ==
  ASSUME TypeOK, AheadInv, Crash
  PROVE  AheadInv'
<1>1. /\ reg' = regSaved /\ online' = onlineSaved
      /\ offline' = [d \in Days |-> IF d \in torn THEN {} ELSE offline[d]]
      /\ UNCHANGED <<regSaved, onlineSaved, torn, onlineOnly>>
      /\ \A p \in Procs : job'[p] = Idle
  BY DEF Crash
<1>2. Rewriting' = {} /\ job'[Loop].at = "idle"
  BY <1>1, IdleType DEF Rewriting, Procs
<1>3. Safe \subseteq Safe'
  <2> SUFFICES ASSUME NEW r \in Safe PROVE r \in Safe'
    OBVIOUS
  <2>1. CASE r \in onlineOnly \/ Day(r.ts) \in torn
    BY <1>1, <1>2, <2>1 DEF Safe
  <2>2. CASE r \in Stored /\ Day(r.ts) \notin torn
    <3>1. PICK d \in Days : r \in offline[d]
      BY <2>2 DEF Stored
    <3>2. Day(r.ts) = d
      BY <3>1 DEF AheadInv, ByDay
    <3>3. r \in offline'[d]
      BY <1>1, <2>2, <3>1, <3>2
    <3> QED BY <3>1, <3>3 DEF Safe, Stored
  <2> QED BY <2>1, <2>2 DEF Safe
<1>4. ByDay' /\ AcceptedSafe' /\ PartsDone'
  BY <1>1, <1>2 DEF AheadInv, ByDay, AcceptedSafe, PartsDone
<1>5. \A p \in Procs : job'[p].todo = {}
  BY <1>1, IdleType
<1> QED BY <1>1, <1>3, <1>4, <1>5, AheadKept

LEMMA AheadStep == TypeOK /\ AheadInv /\ [Next]_vars => AheadInv'
<1> SUFFICES ASSUME TypeOK, AheadInv, [Next]_vars PROVE AheadInv'
  OBVIOUS
<1> USE DEF offlineVars, onlineVars, marks, regVars
<1>1. ASSUME NEW e \in Entity, NEW r \in Row, Expire(e, r) PROVE AheadInv'
  <2>1. /\ UNCHANGED <<offline, torn, onlineOnly, job, reg, regSaved>>
        /\ \A c \in Cells : online'[c] \in {online[c], None} /\ onlineSaved'[c] \in {onlineSaved[c], None}
    BY <1>1 DEF Expire
  <2>2. Safe' = Safe /\ ByDay' /\ AcceptedSafe' /\ PartsDone'
    BY <2>1, IngestUntouched
  <2> QED BY <2>1, <2>2, AheadKept
<1>2. CASE UNCHANGED vars
  <2>1. UNCHANGED <<offline, torn, onlineOnly, job, reg, regSaved, online, onlineSaved>>
    BY <1>2 DEF vars
  <2>2. Safe' = Safe /\ ByDay' /\ AcceptedSafe' /\ PartsDone'
    BY <2>1, IngestUntouched
  <2> QED BY <2>1, <2>2, AheadKept
<1>3. ASSUME Ingest PROVE AheadInv'
  BY <1>3, IngestEdgeStep, IngestCoreStep DEF Ingest
<1> QED BY <1>1, <1>2, <1>3, RegisterAheadStep, MaterializeAheadStep, WriteAheadStep,
           CrashAheadStep DEF Next

LEMMA AheadInit == Init => AheadInv
<1> SUFFICES ASSUME Init PROVE AheadInv
  OBVIOUS
<1>1. job[Loop].at = "idle" /\ \A p \in Procs : job[p].todo = {}
  BY IdleType DEF Init, Procs
<1> QED BY <1>1 DEF Init, AheadInv, ByDay, AcceptedSafe, PartsDone, TodoSafe, ServedSafe, LogSafe

(* What is served online or logged as ingested is in a partition, or was   *)
(* never meant to be, or its partition was half written by a crash: ingest *)
(* writes offline, online, log in this order (feature_store.py:107-113).   *)
THEOREM OfflineGoesFirst == Spec => []NothingRunsAhead
<1>1. AheadInv => NothingRunsAhead
  <2>1. \A r \in Safe : Kept(r)
    BY DEF Safe, Kept
  <2> QED BY <2>1 DEF AheadInv, ServedSafe, LogSafe, NothingRunsAhead
<1> QED BY <1>1, AheadInit, AheadStep, TypeInit, TypeStep, PTL DEF Spec

(* Every non-empty set of naturals has a least one.                        *)
LEMMA LeastNatural ==
  ASSUME NEW T, T \subseteq Nat, T # {}
  PROVE  \E x \in T : \A y \in T : x <= y
<1> DEFINE R == OpToRel(<, Nat)
<1>1. IsWellFoundedOn(R, Nat)
  BY NatLessThanWellFounded
<1> HIDE DEF R
<1>2. PICK x \in T : \A y \in T : ~ (<<y, x>> \in R)
  BY <1>1, WFMin
<1>3. ASSUME NEW y \in T PROVE x <= y
  <2>1. x \in Nat /\ y \in Nat /\ <<y, x>> \notin R
    BY <1>2
  <2>2. ~ (y < x)
    BY <2>1 DEF R, OpToRel
  <2> QED BY <2>1, <2>2
<1> QED BY <1>2, <1>3

\* The newest rows of e that are not later than t.
NewestUpTo(rows, e, t) ==
  {r \in rows : r.entity = e /\ r.ts <= t /\ \A q \in rows : q.entity = e /\ q.ts <= t => q.ts <= r.ts}

(* The one pass of the as-of join remembers exactly those.                 *)
LEMMA LastKnownIsNewest ==
  ASSUME NEW rows, \A r \in rows : r.ts \in Nat, NEW e, NEW n \in Nat
  PROVE  LastKnown(rows, e)[n] = NewestUpTo(rows, e, n)
<1> DEFINE at(t) == {r \in rows : r.entity = e /\ r.ts = t}
           next(k, t) == IF at(t) # {} THEN at(t) ELSE IF t = 0 THEN {} ELSE k[t - 1]
           Fits(k) == k = [t \in Nat |-> next(k, t)]
           newest == [t \in Nat |-> NewestUpTo(rows, e, t)]
<1>1. Fits(newest)
  <2>1. ASSUME NEW t \in Nat, at(t) # {} PROVE NewestUpTo(rows, e, t) = at(t)
    <3>1. PICK r \in rows : r.entity = e /\ r.ts = t
      BY <2>1
    <3> QED BY <3>1 DEF NewestUpTo
  <2>2. ASSUME at(0) = {} PROVE NewestUpTo(rows, e, 0) = {}
    BY <2>2 DEF NewestUpTo
  <2>3. ASSUME NEW t \in Nat, at(t) = {}, t # 0
        PROVE  NewestUpTo(rows, e, t) = NewestUpTo(rows, e, t - 1)
    <3>1. \A r \in rows : r.entity = e => (r.ts <= t <=> r.ts <= t - 1)
      BY <2>3
    <3> QED BY <3>1 DEF NewestUpTo
  <2>4. \A t \in Nat : newest[t] = next(newest, t)
    <3> SUFFICES ASSUME NEW t \in Nat PROVE newest[t] = next(newest, t)
      OBVIOUS
    <3>1. t # 0 => t - 1 \in Nat /\ newest[t - 1] = NewestUpTo(rows, e, t - 1)
      OBVIOUS
    <3> QED BY <2>1, <2>2, <2>3, <3>1
  <2> QED BY <2>4
<1>2. LastKnown(rows, e) = CHOOSE k : Fits(k)
  BY DEF LastKnown
<1> DEFINE known == LastKnown(rows, e)
<1> HIDE DEF newest
<1>3. Fits(known)
  BY <1>1, <1>2
<1>4. newest = [t \in Nat |-> next(newest, t)] /\ known = [t \in Nat |-> next(known, t)]
  BY <1>1, <1>3
<1> HIDE DEF known
<1>5. \A t \in Nat : newest[t] = next(newest, t) /\ known[t] = next(known, t)
  BY <1>4
<1> DEFINE T == {t \in Nat : known[t] # newest[t]}
<1>6. T = {}
  <2> SUFFICES ASSUME T # {} PROVE FALSE
    OBVIOUS
  <2>1. PICK t \in T : \A s \in T : t <= s
    BY LeastNatural
  <2>2. t # 0 => t - 1 \in Nat /\ t - 1 \notin T
    BY <2>1
  <2>3. next(known, t) = next(newest, t)
    BY <2>2
  <2> QED BY <1>5, <2>3
<1> QED BY <1>6 DEF newest, known

(* Both backends match the newest row that is not later than the label.    *)
LEMMA BackendsAgree ==
  ASSUME NEW rows, \A r \in rows : r.ts \in Nat, NEW e, NEW ts \in Nat
  PROVE  LET label == [entity |-> e, ts |-> ts]
         IN  /\ AsofMatch(rows, label) = NewestUpTo(rows, e, ts)
             /\ SqlMatch(rows, label) = NewestUpTo(rows, e, ts)
<1> DEFINE label == [entity |-> e, ts |-> ts]
<1>1. label.entity = e /\ label.ts = ts
  OBVIOUS
<1> HIDE DEF label
<1>2. AsofMatch(rows, label) = NewestUpTo(rows, e, ts)
  BY <1>1, LastKnownIsNewest DEF AsofMatch
<1>3. SqlMatch(rows, label) = NewestUpTo(rows, e, ts)
  BY <1>1 DEF SqlMatch, NewestUpTo
<1> QED BY <1>2, <1>3 DEF label

(* A label that no row precedes leaves its entity without coverage.        *)
LEMMA NoRowNoCoverage ==
  ASSUME NEW rows, NEW label, AsofMatch(rows, label) = {}
  PROVE  label.entity \in Uncovered(rows, {label})
<1> DEFINE v == [f \in Columns(rows) |-> Filled(Null, "none")]
<1>1. v \in Joined(rows, AsofMatch(rows, label), "none") /\ \A f \in DOMAIN v : v[f] = Null
  BY DEF Joined, Filled
<1> HIDE DEF v
<1> QED BY <1>1 DEF Uncovered

(* A training frame never holds a value from after its label, nor an older *)
(* one than the newest before it (pit_join.py:32-60, duckdb_store.py).     *)
THEOREM TrainingNeverLooksAhead == Spec => []TrainingIsPast
<1>1. TypeOK => TrainingIsPast
  <2> SUFFICES ASSUME TypeOK, NEW e \in Entity, NEW ts \in {r.ts : r \in Row} \union {0}
               PROVE  LET label == [entity |-> e, ts |-> ts]
                          known == {r \in Stored : r.entity = e /\ r.ts <= ts}
                          newest == {r \in known : ~\E q \in known : q.ts > r.ts}
                      IN /\ AsofMatch(Stored, label) = newest
                         /\ SqlMatch(Stored, label) = newest
                         /\ known = {} => e \in Uncovered(Stored, {label})
    BY DEF TrainingIsPast
  <2> DEFINE label == [entity |-> e, ts |-> ts]
             known == {r \in Stored : r.entity = e /\ r.ts <= ts}
             newest == {r \in known : ~\E q \in known : q.ts > r.ts}
  <2>1. ts \in Nat /\ \A r \in Stored : r.ts \in Nat
    BY StoredType, BatchAssumption
  <2>2. newest = NewestUpTo(Stored, e, ts)
    BY <2>1 DEF NewestUpTo
  <2>3. AsofMatch(Stored, label) = newest /\ SqlMatch(Stored, label) = newest
    BY <2>1, <2>2, BackendsAgree
  <2>4. known = {} => e \in Uncovered(Stored, {label})
    <3>1. label.entity = e
      OBVIOUS
    <3> HIDE DEF label
    <3> QED BY <2>3, <3>1, NoRowNoCoverage
  <2> QED BY <2>3, <2>4
<1> QED BY <1>1, TypeCorrect, PTL

-----------------------------------------------------------------------------
(* What an ingest accepts                                                  *)

LEMMA AcceptStep ==
  ASSUME TypeOK, RegInv, job[Loop].at # "idle" => reg.row # None, [Next]_vars,
         job[Loop].at = "in_check", job'[Loop].at = "in_offline"
  PROVE  \/ Columns(job[Loop].arg) \in {s.feats : s \in Specs}
         \/ mixed \/ Registering # {}
<1>1. IngestAccepts
  <2>1. Loop \in Procs /\ job[Loop] \in Jobs(job[Loop].arg)
    BY DEF TypeOK, Procs
  <2>2. ASSUME NEW from, NEW next, Step(Loop, from, next) PROVE from = "in_check" /\ next.at = "in_offline"
    BY <2>1, <2>2, JobAfter
  <2>3. ASSUME NEW t \in Procs, t # Loop, NEW from, NEW next, Step(t, from, next) PROVE FALSE
    BY <2>1, <2>3, JobAfter
  <2>4. Idle.at # "in_offline"
    BY DEF Idle
  <2>5. ASSUME NEW t \in Threads PROVE ~Register(t) /\ ~Materialize(t)
    <3>1. t \in Procs /\ t # Loop
      BY ProcAssumption DEF Procs
    <3>2. ~MaterializeStart(t)
      <4>1. MaterializeStart(t) => job'[Loop] = job[Loop]
        BY <2>1, <3>1 DEF MaterializeStart, TypeOK
      <4> QED BY <4>1
    <3> QED BY <2>3, <3>1, <3>2 DEF Register, RegisterEntity, RegisterGroup, RegisterDelete, RegisterInsert,
           RegisterConflict, RegisterCommit, Materialize, MaterializeFeatures, MaterializeRead, MaterializeFails
  <2>6. ASSUME NEW p \in Procs, WriteCell(p) \/ WriteCommit(p) PROVE FALSE
    <3>1. \E next : Step(p, "write", next)
      BY <2>6 DEF WriteCell, WriteCommit
    <3> QED BY <2>2, <2>3, <3>1
  <2>7. ~Crash
    BY <2>1, <2>4 DEF Crash
  <2>8. \A e \in Entity, r \in Row : ~Expire(e, r)
    BY DEF Expire
  <2>9. ~UNCHANGED vars
    BY DEF vars
  <2>10. Ingest
    BY <2>5, <2>6, <2>7, <2>8, <2>9 DEF Next
  <2>11. ~IngestRejects /\ ~WriteFails /\ ~IngestLog /\ ~\E b \in Batches : IngestStart(b)
    <3>1. IngestRejects => Step(Loop, "in_check", Idle)
      BY DEF IngestRejects
    <3>2. WriteFails \/ IngestLog \/ (\E b \in Batches : IngestStart(b)) =>
            \E from \in {"in_offline", "in_log", "idle"} : \E next : Step(Loop, from, next)
      BY DEF WriteFails, IngestLog, IngestStart
    <3> QED BY <2>2, <2>4, <3>1, <3>2
  <2>12. ~WriteBegin /\ ~WriteEnd
    <3>1. WriteBegin \/ WriteEnd => \E from \in {"in_offline", "in_rewrite"} : \E next : Step(Loop, from, next)
      BY DEF WriteBegin, WriteEnd
    <3> QED BY <2>2, <3>1
  <2>13. ~IngestOnline
    BY DEF IngestOnline
  <2> QED BY <2>10, <2>11, <2>12, <2>13 DEF Ingest
<1>2. Columns(job[Loop].arg) = reg.feats
  BY <1>1 DEF IngestAccepts, SchemaOK
<1> SUFFICES ASSUME ~mixed, Registering = {} PROVE Columns(job[Loop].arg) \in {s.feats : s \in Specs}
  OBVIOUS
<1>3. [row |-> reg.row, feats |-> reg.feats] \in Specs
  BY DEF RegInv, Whole
<1> QED BY <1>2, <1>3

(* An ingest that is under way has found its group, and no group is ever   *)
(* deleted.                                                                *)
Found == job[Loop].at # "idle" => reg.row # None

LEMMA FoundStep == TypeOK /\ Found /\ [Next]_vars => Found'
<1> SUFFICES ASSUME TypeOK, Found, [Next]_vars PROVE Found'
  OBVIOUS
<1> USE DEF regVars, vars
<1>1. Loop \in Procs /\ reg \in Group /\ job[Loop] \in Jobs(job[Loop].arg) /\ None \notin Flags
  BY NoneAssumption DEF TypeOK, Procs
<1>2. ASSUME NEW t \in Threads, Register(t) \/ Materialize(t) PROVE Found'
  <2>1. t \in Procs /\ t # Loop
    BY ProcAssumption DEF Procs
  <2>2. job'[Loop] = job[Loop]
    <3>1. MaterializeStart(t) => job'[Loop] = job[Loop]
      BY <1>1, <2>1 DEF MaterializeStart, TypeOK
    <3>2. (\E from, next : Step(t, from, next)) => job'[Loop] = job[Loop]
      BY <1>1, <2>1, JobAfter
    <3>3. MaterializeStart(t) \/ \E from, next : Step(t, from, next)
      BY <1>2 DEF Register, RegisterEntity, RegisterGroup, RegisterDelete, RegisterInsert,
         RegisterConflict, RegisterCommit, Materialize, MaterializeFeatures, MaterializeRead, MaterializeFails
    <3> QED BY <3>1, <3>2, <3>3
  <2>3. reg'.row = reg.row \/ reg'.row \in Flags
    <3>1. RegisterGroup(t) => reg'.row \in Flags
      <4>1. RegisterGroup(t) => job[t].arg \in Specs
        BY DEF RegisterGroup, Step, TypeOK
      <4> QED BY <1>1, <4>1, SpecAssumption DEF RegisterGroup, Group
    <3>2. Register(t) /\ ~RegisterGroup(t) => reg'.row = reg.row
      BY <1>1 DEF Register, RegisterEntity, RegisterDelete, RegisterInsert, RegisterConflict,
                  RegisterCommit, Group
    <3>3. Materialize(t) => reg'.row = reg.row
      BY DEF Materialize, MaterializeStart, MaterializeFeatures, MaterializeRead, MaterializeFails
    <3> QED BY <1>2, <3>1, <3>2, <3>3
  <2> QED BY <1>1, <2>2, <2>3 DEF Found
<1>3. ASSUME Ingest PROVE Found'
  <2>1. reg'.row = reg.row
    BY <1>1, <1>3 DEF Ingest, IngestStart, IngestAccepts, IngestRejects, WriteBegin, WriteEnd,
       WriteFails, IngestOnline, IngestLog, Group
  <2>2. (\E b \in Batches : IngestStart(b)) \/ job[Loop].at # "idle"
    BY <1>3 DEF Ingest, IngestAccepts, IngestRejects, WriteBegin, WriteEnd, WriteFails,
                IngestOnline, IngestLog, Step
  <2> QED BY <2>1, <2>2 DEF Found, IngestStart
<1>4. ASSUME NEW p \in Procs, WriteCell(p) \/ WriteCommit(p) PROVE Found'
  <2>1. job[p].at = "write" /\ reg' = reg
    BY <1>4 DEF WriteCell, WriteCommit, Step
  <2>2. \A q \in Procs : q # p => job'[q] = job[q]
    BY <1>4, JobAfter DEF WriteCell, WriteCommit
  <2> QED BY <1>1, <2>1, <2>2 DEF Found
<1>5. CASE Crash
  BY <1>1, <1>5, IdleType DEF Crash, Found
<1>6. ASSUME NEW e \in Entity, NEW r \in Row, Expire(e, r) PROVE Found'
  BY <1>6 DEF Expire, Found
<1>7. CASE UNCHANGED vars
  BY <1>7 DEF Found
<1> QED BY <1>2, <1>3, <1>4, <1>5, <1>6, <1>7 DEF Next

(* What validate_schema lets in has the columns of a registered group, as  *)
(* long as no register is half done (feature_store.py:92-97).              *)
THEOREM IngestFitsItsGroup == Spec => AcceptedFitsASpec
<1>1. Init => Found
  BY IdleType DEF Init, Found, Procs
<1>2. TypeOK /\ RegInv /\ Found /\ [Next]_vars =>
        [job[Loop].at = "in_check" /\ job'[Loop].at = "in_offline"
           => \/ Columns(job[Loop].arg) \in {s.feats : s \in Specs}
              \/ mixed \/ Registering # {}]_vars
  BY AcceptStep DEF Found
<1> QED BY <1>1, <1>2, FoundStep, RegInit, RegStep, TypeInit, TypeStep, PTL DEF Spec, AcceptedFitsASpec

-----------------------------------------------------------------------------
(* A materialize that has the store to itself                              *)

LEMMA LatestWritten ==
  \A rows, feats, S : S \in LatestRows(rows) =>
    /\ \A x \in Writes(S, feats) : x[2] \in LatestOf(rows, x[1][1])
    /\ \A r \in rows, f \in feats : \E x \in Writes(S, feats) : x[1] = <<r.entity, f>>
<1> SUFFICES ASSUME NEW rows, NEW S \in LatestRows(rows), NEW feats
             PROVE  /\ \A x \in Writes(S, feats) : x[2] \in LatestOf(rows, x[1][1])
                    /\ \A r \in rows, f \in feats : \E x \in Writes(S, feats) : x[1] = <<r.entity, f>>
  OBVIOUS
<1>1. ASSUME NEW x \in Writes(S, feats) PROVE x[2] \in LatestOf(rows, x[1][1])
  <2>1. PICK r \in S, f \in feats : x = <<<<r.entity, f>>, r>>
    BY DEF Writes
  <2>2. r \in LatestOf(rows, r.entity)
    BY DEF LatestRows
  <2> QED BY <2>1, <2>2
<1>2. ASSUME NEW r \in rows, NEW f \in feats PROVE \E x \in Writes(S, feats) : x[1] = <<r.entity, f>>
  <2>1. PICK q \in S : {x \in S : x.entity = r.entity} = {q}
    BY DEF LatestRows
  <2>2. q \in S /\ q.entity = r.entity
    BY <2>1
  <2>3. <<<<q.entity, f>>, q>> \in Writes(S, feats)
    BY DEF Writes
  <2> QED BY <2>2, <2>3
<1> QED BY <1>1, <1>2

Reads == {"mat_feats", "mat_read", "write"}

\* What p still has to write is the newest there is.
NewestToDo(p) == \A x \in job[p].todo : x[2] \in LatestOf(Stored, x[1][1])
Pending(p, c) == \E x \in job[p].todo : x[1] = c

\* The quiet one works on the features registered, and has written or will
\* write every cell of them.
QuietAlone ==
  \A t \in quiet :
    /\ Others(t) = {} /\ job[t].at \in Reads
    /\ job[t].at # "mat_feats" => job[t].feats = reg.feats
    /\ job[t].at = "write" =>
         /\ torn = {} /\ NewestToDo(t)
         /\ \A r \in Stored, f \in reg.feats : Newest(<<r.entity, f>>) \/ Pending(t, <<r.entity, f>>)

\* From its end until the next ingest or register there are only others that
\* write what it has written.
SyncedStays ==
  synced => /\ torn = {} /\ job[Loop].at = "idle"
            /\ \A t \in Threads : job[t].at \in Reads \union {"idle"} /\ NewestToDo(t)
            /\ MaterializeRepairs

RepairInv == QuietAlone /\ SyncedStays

(* No register and no ingest leaves a materialize alone.                   *)
LEMMA OthersDisturb ==
  ASSUME TypeOK, RepairInv,
         (\E t \in Threads : Register(t)) \/ Ingest \/ \E e \in Entity, r \in Row : Expire(e, r)
  PROVE  RepairInv'
<1> SUFFICES quiet' = {} /\ ~synced'
  BY DEF RepairInv, QuietAlone, SyncedStays
<1>1. ASSUME NEW e \in Entity, NEW r \in Row, Expire(e, r) PROVE quiet' = {} /\ ~synced'
  BY <1>1 DEF Expire
<1>2. ASSUME NEW t \in Threads, Register(t) PROVE quiet' = {} /\ ~synced'
  <2>1. /\ (\E s \in Specs : RegisterEntity(t, s)) \/ job[t].at \in {"reg_group", "reg_delete", "reg_insert"}
        /\ \E from \in {"idle", "reg_group", "reg_delete", "reg_insert"} : \E next : Step(t, from, next)
    BY <1>2 DEF Register, RegisterEntity, RegisterGroup, RegisterDelete, RegisterInsert,
                RegisterConflict, RegisterCommit, Step
  <2>2. t \notin quiet
    BY <2>1 DEF RepairInv, QuietAlone, Reads, Step
  <2>3. quiet' = {}
    BY <2>1, <2>2 DEF Step
  <2>4. (\E q \in Specs : RegisterEntity(t, q)) => ~synced'
    BY DEF RegisterEntity
  <2>6. ~(\E q \in Specs : RegisterEntity(t, q)) => synced' = synced
    BY <1>2 DEF Register, RegisterGroup, RegisterDelete, RegisterInsert, RegisterConflict,
                RegisterCommit, marks
  <2>5. synced => job[t].at \in Reads \union {"idle"}
    BY DEF RepairInv, SyncedStays
  <2> QED BY <2>1, <2>3, <2>4, <2>5, <2>6 DEF Reads
<1>3. ASSUME Ingest PROVE quiet' = {} /\ ~synced'
  <2>1. \E from, next : Step(Loop, from, next)
    <3>1. CASE \/ \E b \in Batches : IngestStart(b)
               \/ IngestRejects \/ WriteFails \/ IngestLog
      BY <3>1 DEF IngestStart, IngestRejects, WriteFails, IngestLog
    <3>2. CASE IngestAccepts
      BY <3>2 DEF IngestAccepts
    <3>3. CASE WriteBegin \/ WriteEnd
      BY <3>3 DEF WriteBegin, WriteEnd
    <3>4. CASE IngestOnline
      BY <3>4 DEF IngestOnline
    <3> QED BY <1>3, <3>1, <3>2, <3>3, <3>4 DEF Ingest
  <2>2. quiet' = {}
    BY <2>1, ProcAssumption DEF Step, TypeOK
  <2>3. ASSUME NEW b \in Batches, IngestStart(b) PROVE ~synced'
    BY <2>3 DEF IngestStart
  <2>4. ASSUME ~\E b \in Batches : IngestStart(b) PROVE ~synced'
    <3>1. job[Loop].at \in {"in_check", "in_offline", "in_rewrite", "in_log"}
      BY <1>3, <2>4 DEF Ingest, IngestAccepts, IngestRejects, WriteBegin, WriteEnd, WriteFails,
                        IngestOnline, IngestLog, Step
    <3>2. synced' = synced
      BY <1>3, <2>4 DEF Ingest, IngestAccepts, IngestRejects, WriteBegin, WriteEnd, WriteFails,
                        IngestOnline, IngestLog, marks
    <3> QED BY <3>1, <3>2 DEF RepairInv, SyncedStays
  <2> QED BY <2>2, <2>3, <2>4
<1> QED BY <1>1, <1>2, <1>3

(* What was synced stays so when the newest rows are written again.        *)
LEMMA SyncedKept ==
  ASSUME TypeOK, SyncedStays, synced' = synced, NEW t \in Threads,
         UNCHANGED <<offline, torn>>, reg'.feats = reg.feats,
         \A q \in Procs : q # t => job'[q] = job[q],
         job'[t].at \in Reads \union {"idle"}, synced => NewestToDo(t)',
         \A c \in Cells : /\ online'[c] = online[c] \/ (synced => online'[c] \in LatestOf(Stored, c[1]))
                          /\ onlineSaved'[c] \in {onlineSaved[c], online[c]}
  PROVE  SyncedStays'
<1> SUFFICES ASSUME synced, synced' PROVE SyncedStays'
  BY DEF SyncedStays
<1>1. Stored' = Stored /\ t # Loop /\ Threads \subseteq Procs /\ Loop \in Procs
  BY ProcAssumption DEF Stored, Procs
<1>2. \A s \in Threads : job'[s].at \in Reads \union {"idle"} /\ NewestToDo(s)'
  <2> SUFFICES ASSUME NEW s \in Threads, s # t PROVE job'[s].at \in Reads \union {"idle"} /\ NewestToDo(s)'
    OBVIOUS
  <2> QED BY <1>1 DEF SyncedStays, NewestToDo
<1>3. ASSUME NEW r \in Stored, NEW f \in reg.feats
      PROVE  /\ online'[<<r.entity, f>>] \in LatestOf(Stored, r.entity)
             /\ onlineSaved'[<<r.entity, f>>] \in LatestOf(Stored, r.entity)
  <2> DEFINE c == <<r.entity, f>>
  <2>1. c \in Cells /\ c[1] = r.entity
    BY StoredType, BatchAssumption DEF TypeOK, Group, Cells
  <2>2. online[c] \in LatestOf(Stored, r.entity) /\ onlineSaved[c] \in LatestOf(Stored, r.entity)
    BY <2>1 DEF SyncedStays, MaterializeRepairs, Newest
  <2> HIDE DEF c
  <2>3. online'[c] \in LatestOf(Stored, r.entity) /\ onlineSaved'[c] \in LatestOf(Stored, r.entity)
    BY <2>1, <2>2
  <2> QED BY <2>3 DEF c
<1>4. MaterializeRepairs'
  BY <1>1, <1>3 DEF MaterializeRepairs, Newest
<1> QED BY <1>1, <1>2, <1>4 DEF SyncedStays

LEMMA MaterializeRepairStep ==
  ASSUME TypeOK, RepairInv, NEW t \in Threads, Materialize(t)
  PROVE  RepairInv'
<1> USE DEF offlineVars, onlineVars, marks, regVars
<1>1. t \in Procs /\ t # Loop /\ job[t] \in Jobs(job[t].arg) /\ Threads \subseteq Procs
  BY ProcAssumption DEF TypeOK, Procs
<1>2. UNCHANGED <<offline, torn, online, onlineSaved, reg, regSaved, synced>> /\ Stored' = Stored
  BY DEF Materialize, MaterializeStart, MaterializeFeatures, MaterializeRead, MaterializeFails, Stored
<1>3. ASSUME NEW next, job' = [job EXCEPT ![t] = next], next.at \in Reads \union {"idle"},
             \A x \in next.todo : x[2] \in LatestOf(Stored, x[1][1]) \/ x \in job[t].todo,
             quiet' \subseteq {t},
             t \in quiet' => /\ Others(t) = {} /\ next.at \in Reads
                             /\ next.at # "mat_feats" => next.feats = reg.feats
                             /\ next.at = "write" =>
                                  /\ torn = {} /\ \A x \in next.todo : x[2] \in LatestOf(Stored, x[1][1])
                                  /\ \A r \in Stored, f \in reg.feats :
                                       \E x \in next.todo : x[1] = <<r.entity, f>>
      PROVE  RepairInv'
  <2>1. job'[t] = next /\ \A q \in Procs : q # t => job'[q] = job[q]
    BY <1>1, <1>3 DEF TypeOK
  <2>2. synced => NewestToDo(t)'
    BY <1>2, <1>3, <2>1 DEF RepairInv, SyncedStays, NewestToDo
  <2>3. SyncedStays'
    BY <1>2, <1>3, <2>1, <2>2, SyncedKept DEF RepairInv
  <2>4. Others(t)' = Others(t)
    BY <2>1 DEF Others
  <2>5. QuietAlone'
    BY <1>2, <1>3, <2>1, <2>4 DEF QuietAlone, NewestToDo, Pending
  <2> QED BY <2>3, <2>5 DEF RepairInv
<1>4. CASE MaterializeStart(t)
  <2> DEFINE next == [Idle EXCEPT !.at = "mat_feats", !.row = reg.row]
  <2>1. next.at = "mat_feats" /\ next.todo = {}
    BY DEF Idle
  <2>2. job' = [job EXCEPT ![t] = next] /\ quiet' = IF Others(t) = {} THEN {t} ELSE {}
    BY <1>4 DEF MaterializeStart
  <2> HIDE DEF next
  <2> QED BY <1>3, <2>1, <2>2 DEF Reads
<1>5. CASE MaterializeFeatures(t)
  <2> DEFINE next == [job[t] EXCEPT !.at = "mat_read", !.feats = reg.feats]
  <2>1. next.at = "mat_read" /\ next.todo = job[t].todo /\ next.feats = reg.feats
    BY <1>1 DEF Jobs
  <2>2. Step(t, "mat_feats", next)
    BY <1>5 DEF MaterializeFeatures
  <2> HIDE DEF next
  <2>3. job' = [job EXCEPT ![t] = next] /\ quiet' \subseteq quiet \intersect {t}
    BY <2>2 DEF Step
  <2> QED BY <1>3, <2>1, <2>3 DEF Reads, RepairInv, QuietAlone
<1>6. CASE MaterializeRead(t)
  <2>1. PICK S \in LatestRows(Stored) :
          Step(t, "mat_read", [job[t] EXCEPT !.at = "write", !.todo = Writes(S, job[t].feats)])
    BY <1>6 DEF MaterializeRead
  <2> DEFINE todo == Writes(S, job[t].feats)
             next == [job[t] EXCEPT !.at = "write", !.todo = todo]
  <2>2. /\ \A x \in todo : x[2] \in LatestOf(Stored, x[1][1])
        /\ \A r \in Stored, f \in job[t].feats : \E x \in todo : x[1] = <<r.entity, f>>
    BY <2>1, LatestWritten
  <2> HIDE DEF todo
  <2>3. next.at = "write" /\ next.todo = todo /\ next.feats = job[t].feats
    BY <1>1 DEF Jobs
  <2>4. Step(t, "mat_read", next) /\ torn = {}
    BY <1>6, <2>1 DEF todo, MaterializeRead, CanMaterialize
  <2> HIDE DEF next
  <2>5. job[t].at = "mat_read" /\ job' = [job EXCEPT ![t] = next] /\ quiet' \subseteq quiet \intersect {t}
    BY <2>4 DEF Step
  <2>6. t \in quiet => Others(t) = {} /\ job[t].feats = reg.feats
    BY <2>5 DEF RepairInv, QuietAlone
  <2> QED BY <1>3, <2>2, <2>3, <2>4, <2>5, <2>6 DEF Reads
<1>7. CASE MaterializeFails(t)
  <2>1. job' = [job EXCEPT ![t] = Idle] /\ quiet' = {}
    BY <1>7 DEF MaterializeFails, Step
  <2> QED BY <1>3, <2>1, IdleType
<1> QED BY <1>4, <1>5, <1>6, <1>7 DEF Materialize

LEMMA WriteRepairStep ==
  ASSUME TypeOK, RepairInv, NEW p \in Procs, WriteCell(p) \/ WriteCommit(p)
  PROVE  RepairInv'
<1> USE DEF offlineVars, onlineVars, marks, regVars
<1>1. /\ job[p] \in Jobs(job[p].arg) /\ job[p].at = "write" /\ Threads \subseteq Procs
      /\ UNCHANGED <<offline, torn, reg, regSaved>> /\ Stored' = Stored
  BY DEF TypeOK, Procs, WriteCell, WriteCommit, Step, Stored
<1>2. CASE p = Loop
  <2>1. ~synced
    BY <1>1, <1>2 DEF RepairInv, SyncedStays
  <2>2. p \notin quiet
    BY <1>2, ProcAssumption DEF TypeOK
  <2>3. quiet' = {} /\ ~synced'
    <3>1. \E next : Step(p, "write", next)
      BY DEF WriteCell, WriteCommit
    <3>2. quiet' = {}
      BY <2>2, <3>1 DEF Step
    <3>3. synced' => synced \/ p \in quiet
      BY DEF WriteCell, WriteCommit
    <3> QED BY <2>1, <2>2, <3>2, <3>3
  <2> QED BY <2>3 DEF RepairInv, QuietAlone, SyncedStays
<1> SUFFICES ASSUME p \in Threads PROVE RepairInv'
  BY <1>2 DEF Procs
<1>3. CASE WriteCell(p)
  <2>1. PICK c \in job[p].todo :
          /\ Step(p, "write", [job[p] EXCEPT !.todo = @ \ {c}])
          /\ online' = [online EXCEPT ![c[1]] = c[2]]
    BY <1>3 DEF WriteCell
  <2> DEFINE next == [job[p] EXCEPT !.todo = @ \ {c}]
  <2>2. next.todo = job[p].todo \ {c} /\ next.at = "write" /\ next.feats = job[p].feats
    BY <1>1 DEF Jobs
  <2> HIDE DEF next
  <2>3. /\ job'[p] = next /\ \A q \in Procs : q # p => job'[q] = job[q]
        /\ quiet' \subseteq quiet \intersect {p}
    BY <2>1, JobAfter DEF next, Step
  <2>4. synced' = synced /\ onlineSaved' = onlineSaved
    BY <1>3 DEF WriteCell
  <2>5. c[1] \in Cells /\ online'[c[1]] = c[2] /\ \A d \in Cells : d # c[1] => online'[d] = online[d]
    BY <1>1, <2>1 DEF Jobs, TypeOK
  <2>6. NewestToDo(p) => c[2] \in LatestOf(Stored, c[1][1]) /\ NewestToDo(p)'
    BY <1>1, <2>1, <2>2, <2>3 DEF NewestToDo
  <2>7. synced => NewestToDo(p)
    BY DEF RepairInv, SyncedStays
  <2>8. SyncedStays'
    <3>1. job'[p].at \in Reads \union {"idle"} /\ reg'.feats = reg.feats
      BY <1>1, <2>2, <2>3 DEF Reads
    <3>2. \A d \in Cells : /\ online'[d] = online[d] \/ (synced => online'[d] \in LatestOf(Stored, d[1]))
                           /\ onlineSaved'[d] \in {onlineSaved[d], online[d]}
      BY <2>4, <2>5, <2>6, <2>7
    <3> QED BY <1>1, <2>3, <2>4, <2>6, <2>7, <3>1, <3>2, SyncedKept DEF RepairInv
  <2>9. QuietAlone'
    <3> SUFFICES ASSUME p \in quiet
                 PROVE  /\ Others(p)' = {} /\ job'[p].at \in Reads
                        /\ job'[p].feats = reg.feats
                        /\ torn = {} /\ NewestToDo(p)'
                        /\ \A r \in Stored, f \in reg.feats :
                             Newest(<<r.entity, f>>)' \/ Pending(p, <<r.entity, f>>)'
      BY <1>1, <2>3 DEF QuietAlone
    <3>1. /\ Others(p) = {} /\ job[p].feats = reg.feats /\ torn = {} /\ NewestToDo(p)
          /\ \A r \in Stored, f \in reg.feats : Newest(<<r.entity, f>>) \/ Pending(p, <<r.entity, f>>)
      BY <1>1 DEF RepairInv, QuietAlone
    <3>2. Others(p)' = Others(p)
      BY <2>3 DEF Others
    <3>3. ASSUME NEW r \in Stored, NEW f \in reg.feats
          PROVE  Newest(<<r.entity, f>>)' \/ Pending(p, <<r.entity, f>>)'
      <4>1. <<r.entity, f>> \in Cells
        BY StoredType, BatchAssumption DEF TypeOK, Group, Cells
      <4>2. ASSUME NEW d \in Cells, Newest(d) \/ Pending(p, d) PROVE Newest(d)' \/ Pending(p, d)'
        <5>1. CASE d = c[1]
          BY <1>1, <2>5, <2>6, <3>1, <5>1 DEF Newest
        <5>2. CASE d # c[1] /\ Newest(d)
          BY <1>1, <2>5, <5>2 DEF Newest
        <5>3. CASE d # c[1] /\ Pending(p, d)
          BY <2>2, <2>3, <5>3 DEF Pending
        <5> QED BY <4>2, <5>1, <5>2, <5>3
      <4> QED BY <3>1, <4>1, <4>2
    <3> QED BY <2>2, <2>3, <2>6, <3>1, <3>2, <3>3 DEF Reads
  <2> QED BY <2>8, <2>9 DEF RepairInv
<1>4. CASE WriteCommit(p)
  <2>1. /\ job[p].todo = {} /\ Step(p, "write", Idle) /\ online' = online /\ onlineSaved' = online
        /\ synced' = (synced \/ p \in quiet)
    BY <1>4, ProcAssumption DEF WriteCommit
  <2>2. job'[p] = Idle /\ (\A q \in Procs : q # p => job'[q] = job[q]) /\ quiet' = {}
    BY <2>1, JobAfter DEF Step
  <2>3. QuietAlone'
    BY <2>2 DEF QuietAlone
  <2>4. CASE p \notin quiet
    <3>1. synced' = synced
      BY <2>1, <2>4 DEF TypeOK
    <3>2. job'[p].at \in Reads \union {"idle"} /\ NewestToDo(p)' /\ reg'.feats = reg.feats
      BY <1>1, <2>2, IdleType DEF NewestToDo
    <3> QED BY <1>1, <2>1, <2>2, <2>3, <3>1, <3>2, SyncedKept DEF RepairInv
  <2>5. CASE p \in quiet
    <3>1. /\ Others(p) = {} /\ torn = {}
          /\ \A r \in Stored, f \in reg.feats : Newest(<<r.entity, f>>) \/ Pending(p, <<r.entity, f>>)
      BY <1>1, <2>5 DEF RepairInv, QuietAlone
    <3>2. \A q \in Procs : job'[q] = Idle
      BY <2>2, <3>1 DEF Others
    <3>3. \A r \in Stored, f \in reg.feats : Newest(<<r.entity, f>>)
      BY <2>1, <3>1 DEF Pending
    <3>4. MaterializeRepairs'
      BY <1>1, <2>1, <3>3 DEF MaterializeRepairs, Newest
    <3>5. torn' = {} /\ Loop \in Procs /\ \A q \in Procs : job'[q].at = "idle" /\ job'[q].todo = {}
      BY <1>1, <3>1, <3>2, IdleType DEF Procs
    <3>6. SyncedStays'
      BY <1>1, <3>4, <3>5 DEF SyncedStays, NewestToDo
    <3> QED BY <2>3, <3>6 DEF RepairInv
  <2> QED BY <2>4, <2>5
<1> QED BY <1>3, <1>4

LEMMA CrashRepairStep ==
  ASSUME TypeOK, RepairInv, Crash
  PROVE  RepairInv'
<1>1. /\ reg' = regSaved /\ online' = onlineSaved /\ torn' = torn /\ onlineSaved' = onlineSaved /\ quiet' = {}
      /\ offline' = [d \in Days |-> IF d \in torn THEN {} ELSE offline[d]]
      /\ \A p \in Procs : job'[p] = Idle
      /\ synced' = (synced /\ regSaved.feats = reg.feats)
  BY DEF Crash
<1>2. QuietAlone'
  BY <1>1 DEF QuietAlone
<1>3. SyncedStays'
  <2> SUFFICES ASSUME synced' PROVE SyncedStays'
    BY DEF SyncedStays
  <2>1. synced /\ regSaved.feats = reg.feats /\ torn = {} /\ MaterializeRepairs
    BY <1>1 DEF RepairInv, SyncedStays
  <2>2. offline' = offline /\ Stored' = Stored
    BY <1>1, <2>1 DEF TypeOK, Stored
  <2>3. MaterializeRepairs'
    BY <1>1, <2>1, <2>2 DEF MaterializeRepairs, Newest
  <2>4. Loop \in Procs /\ Threads \subseteq Procs
    BY DEF Procs
  <2> QED BY <1>1, <2>1, <2>3, <2>4, IdleType DEF SyncedStays, NewestToDo
<1> QED BY <1>2, <1>3 DEF RepairInv

LEMMA RepairStep == TypeOK /\ RepairInv /\ [Next]_vars => RepairInv'
<1> SUFFICES ASSUME TypeOK, RepairInv, [Next]_vars PROVE RepairInv'
  OBVIOUS
<1>1. CASE UNCHANGED vars
  <2>1. UNCHANGED <<reg, regSaved, offline, torn, online, onlineSaved, job, quiet, synced>> /\ Stored' = Stored
    BY <1>1 DEF vars, regVars, offlineVars, onlineVars, marks, Stored
  <2>2. MaterializeRepairs => MaterializeRepairs'
    BY <2>1 DEF MaterializeRepairs, Newest
  <2>3. SyncedStays'
    BY <2>1, <2>2 DEF RepairInv, SyncedStays, NewestToDo
  <2>4. QuietAlone'
    BY <2>1 DEF RepairInv, QuietAlone, Others, NewestToDo, Pending, Newest
  <2> QED BY <2>3, <2>4 DEF RepairInv
<1> QED BY <1>1, OthersDisturb, MaterializeRepairStep, WriteRepairStep, CrashRepairStep DEF Next

(* Whatever the stores held, a materialize that ran alone leaves them as   *)
(* the newest offline rows say, also for a later restart, until an ingest, *)
(* a register or an expiry (materializer.py:9-39).                         *)
THEOREM MaterializeHeals == Spec => []MaterializeRepairs
<1>1. Init => RepairInv
  BY DEF Init, RepairInv, QuietAlone, SyncedStays
<1>2. RepairInv => MaterializeRepairs
  BY DEF RepairInv, SyncedStays, MaterializeRepairs
<1> QED BY <1>1, <1>2, RepairStep, TypeInit, TypeStep, PTL DEF Spec

-----------------------------------------------------------------------------
(* Batches in order, one call at a time                                    *)

IdleIsIdle == \A p \in Procs : /\ job[p].at = "idle" => job[p] = Idle
                               /\ job[p].at # "write" => job[p].todo = {}

InCall(t) == job[t].at \in {"reg_group", "reg_delete", "reg_insert"}
Solo == \A p, q \in Procs : job[p] # Idle /\ job[q] # Idle => p = q

\* The group stays the one that was registered first, and no cell is of
\* another feature than its.
OneGroup ==
  /\ \A t \in Threads : InCall(t) =>
       /\ reg.row \in {None, job[t].arg.row}
       /\ \A c \in Cells : online[c] # None => c[2] \in job[t].arg.feats
  /\ (\A t \in Threads : ~InCall(t)) =>
       /\ regSaved.row = reg.row /\ regSaved.feats = reg.feats
       /\ \A c \in Cells : online[c] # None => c[2] \in reg.feats
OneStore ==
  /\ reg.row = None => Stored = {} /\ onlineOnly = {} /\ \A c \in Cells : online[c] = None
  /\ reg.row # None => IF reg.row.offline THEN onlineOnly = {} ELSE Stored = {}
LocalsCurrent ==
  /\ job[Loop].at # "idle" =>
       /\ reg.row # None /\ job[Loop].row = reg.row
       /\ job[Loop].at # "in_check" => job[Loop].feats = reg.feats
       /\ job[Loop].parts # {} => reg.row.offline
       /\ job[Loop].at # "in_check" /\ ~reg.row.offline => job[Loop].arg \subseteq onlineOnly
  /\ \A t \in Threads : job[t].at \in Reads =>
       /\ reg.row # None
       /\ job[t].at # "mat_feats" => job[t].feats = reg.feats

\* Every stored row that is not of the batch is older than those that are.
InOrder ==
  /\ torn \subseteq Rewriting
  /\ job[Loop].at = "in_check" => job[Loop].arg \intersect Stored = {}
  /\ job[Loop].at \in {"in_check", "in_offline", "in_rewrite"} =>
       \A r \in job[Loop].arg, q \in Stored \ job[Loop].arg : q.entity = r.entity => q.ts < r.ts

\* What the store held before the batch in hand, of which it may hold a part.
Before == IF job[Loop].at \in {"in_offline", "in_rewrite"} THEN Stored \ job[Loop].arg ELSE Stored
Good(r, e) == r \in onlineOnly \union LatestOf(Stored, e)
GoodToDo == \A p \in Procs : \A x \in job[p].todo : Good(x[2], x[1][1]) /\ x[1][2] \in reg.feats
GoodCells ==
  reg.row = None \/ reg.row.online =>
    \A c \in Cells : \/ online[c] \in {None} \union onlineOnly \union LatestOf(Before, c[1])
                     \/ Pending(Loop, c)
GoodSaved == (\A p \in Procs : job[p].at # "write") => onlineSaved = online

OrderlyBody == /\ ~mixed /\ Solo /\ OneGroup /\ OneStore /\ LocalsCurrent /\ InOrder
               /\ GoodToDo /\ GoodCells /\ GoodSaved
OrderlyInv == orderly => OrderlyBody

(* The locals of a call that is over are gone, and only a write has cells  *)
(* to write.                                                               *)
LEMMA IdleStep == TypeOK /\ IdleIsIdle /\ [Next]_vars => IdleIsIdle'
<1> SUFFICES ASSUME TypeOK, IdleIsIdle, [Next]_vars PROVE IdleIsIdle'
  OBVIOUS
<1>1. ASSUME NEW p \in Procs, NEW from, NEW next, Step(p, from, next),
             next = Idle \/ (next.at # "idle" /\ (next.at = "write" \/ next.todo = {}))
      PROVE  IdleIsIdle'
  <2>1. job'[p] = next /\ \A q \in Procs : q # p => job'[q] = job[q]
    BY <1>1, JobAfter
  <2> QED BY <1>1, <2>1, IdleType DEF IdleIsIdle
<1>2. \A p \in Procs : job[p] \in Jobs(job[p].arg)
  BY DEF TypeOK
<1>e. ASSUME NEW p \in Procs, \E from : Step(p, from, Idle) PROVE IdleIsIdle'
  <2>1. job'[p] = Idle /\ \A q \in Procs : q # p => job'[q] = job[q]
    BY <1>e, JobAfter
  <2> QED BY <2>1, IdleType DEF IdleIsIdle
<1>3. ASSUME NEW t \in Threads, Register(t) PROVE IdleIsIdle'
  <2>1. t \in Procs /\ job[t] \in Jobs(job[t].arg) /\ (job[t].at # "write" => job[t].todo = {})
    BY <1>2 DEF Procs, IdleIsIdle
  <2>2. ASSUME NEW s \in Specs, RegisterEntity(t, s) PROVE IdleIsIdle'
    <3> DEFINE next == [Idle EXCEPT !.at = "reg_group", !.arg = s]
    <3>1. next.at = "reg_group" /\ next.todo = {}
      BY DEF Idle
    <3>2. Step(t, "idle", next)
      BY <2>2 DEF RegisterEntity
    <3> HIDE DEF next
    <3> QED BY <1>1, <2>1, <3>1, <3>2
  <2>3. CASE RegisterGroup(t)
    <3> DEFINE next == [job[t] EXCEPT !.at = "reg_delete"]
    <3>1. Step(t, "reg_group", next)
      BY <2>3 DEF RegisterGroup
    <3>2. next.at = "reg_delete" /\ next.todo = {}
      BY <2>1, <3>1 DEF Jobs, Step
    <3> HIDE DEF next
    <3> QED BY <1>1, <2>1, <3>1, <3>2
  <2>4. CASE RegisterDelete(t)
    <3> DEFINE next == [job[t] EXCEPT !.at = "reg_insert"]
    <3>1. Step(t, "reg_delete", next)
      BY <2>4 DEF RegisterDelete
    <3>2. next.at = "reg_insert" /\ next.todo = {}
      BY <2>1, <3>1 DEF Jobs, Step
    <3> HIDE DEF next
    <3> QED BY <1>1, <2>1, <3>1, <3>2
  <2>5. CASE RegisterInsert(t)
    <3>1. PICK f \in Uninserted(t) \ reg.feats :
            Step(t, "reg_insert", [job[t] EXCEPT !.feats = @ \union {f}])
      BY <2>5 DEF RegisterInsert
    <3> DEFINE next == [job[t] EXCEPT !.feats = @ \union {f}]
    <3>2. next.at = "reg_insert" /\ next.todo = {}
      BY <2>1, <3>1 DEF Jobs, Step
    <3> HIDE DEF next
    <3> QED BY <1>1, <2>1, <3>1, <3>2 DEF next
  <2>6. CASE RegisterConflict(t) \/ RegisterCommit(t)
    BY <1>e, <2>1, <2>6 DEF RegisterConflict, RegisterCommit
  <2> QED BY <1>3, <2>2, <2>3, <2>4, <2>5, <2>6 DEF Register
<1>4. ASSUME NEW t \in Threads, Materialize(t) PROVE IdleIsIdle'
  <2>1. t \in Procs /\ job[t] \in Jobs(job[t].arg) /\ (job[t].at # "write" => job[t].todo = {})
    BY <1>2 DEF Procs, IdleIsIdle
  <2>2. CASE MaterializeStart(t)
    <3> DEFINE next == [Idle EXCEPT !.at = "mat_feats", !.row = reg.row]
    <3>1. next.at = "mat_feats" /\ next.todo = {} /\ next.at # "idle"
      BY DEF Idle
    <3>2. job' = [job EXCEPT ![t] = next]
      BY <2>2 DEF MaterializeStart
    <3> HIDE DEF next
    <3>3. job'[t] = next /\ \A q \in Procs : q # t => job'[q] = job[q]
      BY <2>1, <3>2 DEF TypeOK
    <3> QED BY <3>1, <3>3 DEF IdleIsIdle
  <2>3. CASE MaterializeFeatures(t)
    <3> DEFINE next == [job[t] EXCEPT !.at = "mat_read", !.feats = reg.feats]
    <3>1. Step(t, "mat_feats", next)
      BY <2>3 DEF MaterializeFeatures
    <3>2. next.at = "mat_read" /\ next.todo = {}
      BY <2>1, <3>1 DEF Jobs, Step
    <3> HIDE DEF next
    <3> QED BY <1>1, <2>1, <3>1, <3>2
  <2>4. CASE MaterializeRead(t)
    <3>1. PICK S \in LatestRows(Stored) :
            Step(t, "mat_read", [job[t] EXCEPT !.at = "write", !.todo = Writes(S, job[t].feats)])
      BY <2>4 DEF MaterializeRead
    <3> DEFINE next == [job[t] EXCEPT !.at = "write", !.todo = Writes(S, job[t].feats)]
    <3>2. next.at = "write"
      BY <2>1 DEF Jobs
    <3> HIDE DEF next
    <3> QED BY <1>1, <2>1, <3>1, <3>2 DEF next
  <2>5. CASE MaterializeFails(t)
    BY <1>e, <2>1, <2>5 DEF MaterializeFails
  <2> QED BY <1>4, <2>2, <2>3, <2>4, <2>5 DEF Materialize
<1>5. ASSUME Ingest PROVE IdleIsIdle'
  <2> DEFINE L == job[Loop]
  <2>1. Loop \in Procs /\ L \in Jobs(L.arg) /\ (L.at # "write" => L.todo = {})
    BY <1>2 DEF Procs, IdleIsIdle
  <2>2. ASSUME NEW b \in Batches, IngestStart(b) PROVE IdleIsIdle'
    <3> DEFINE next == [Idle EXCEPT !.at = "in_check", !.arg = b, !.row = reg.row]
    <3>1. next.at = "in_check" /\ next.todo = {}
      BY DEF Idle
    <3>2. Step(Loop, "idle", next)
      BY <2>2 DEF IngestStart
    <3> HIDE DEF next
    <3> QED BY <1>1, <2>1, <3>1, <3>2
  <2>3. CASE IngestAccepts
    <3> DEFINE parts == IF L.row.offline THEN {Day(r.ts) : r \in L.arg} ELSE {}
               next == [L EXCEPT !.at = "in_offline", !.feats = reg.feats, !.parts = parts]
    <3>1. Step(Loop, "in_check", next)
      BY <2>3 DEF IngestAccepts
    <3> HIDE DEF parts
    <3>2. next.at = "in_offline" /\ next.todo = {}
      BY <2>1, <3>1 DEF Jobs, Step
    <3> HIDE DEF next
    <3> QED BY <1>1, <2>1, <3>1, <3>2
  <2>4. CASE IngestRejects \/ WriteFails \/ IngestLog
    BY <1>e, <2>1, <2>4 DEF IngestRejects, WriteFails, IngestLog
  <2>5. CASE WriteBegin
    <3> DEFINE next == [L EXCEPT !.at = "in_rewrite"]
    <3>1. Step(Loop, "in_offline", next)
      BY <2>5 DEF WriteBegin
    <3>2. next.at = "in_rewrite" /\ next.todo = {}
      BY <2>1, <3>1 DEF Jobs, Step
    <3> HIDE DEF next
    <3> QED BY <1>1, <2>1, <3>1, <3>2
  <2>6. CASE WriteEnd
    <3>1. PICK d \in L.parts : Step(Loop, "in_rewrite", [L EXCEPT !.at = "in_offline", !.parts = @ \ {d}])
      BY <2>6 DEF WriteEnd
    <3> DEFINE next == [L EXCEPT !.at = "in_offline", !.parts = @ \ {d}]
    <3>2. next.at = "in_offline" /\ next.todo = {}
      BY <2>1, <3>1 DEF Jobs, Step
    <3> HIDE DEF next
    <3> QED BY <1>1, <2>1, <3>1, <3>2 DEF next
  <2>7. CASE IngestOnline
    <3>1. ASSUME NEW todo, Step(Loop, "in_offline", [L EXCEPT !.at = "write", !.todo = todo]) PROVE IdleIsIdle'
      <4> DEFINE next == [L EXCEPT !.at = "write", !.todo = todo]
      <4>1. next.at = "write"
        BY <2>1 DEF Jobs
      <4> HIDE DEF next
      <4> QED BY <1>1, <2>1, <3>1, <4>1 DEF next
    <3>2. ASSUME Step(Loop, "in_offline", [L EXCEPT !.at = "in_log"]) PROVE IdleIsIdle'
      <4> DEFINE next == [L EXCEPT !.at = "in_log"]
      <4>1. next.at = "in_log" /\ next.todo = {}
        BY <2>1, <3>2 DEF Jobs, Step
      <4> HIDE DEF next
      <4> QED BY <1>1, <2>1, <3>2, <4>1 DEF next
    <3> QED BY <2>7, <3>1, <3>2 DEF IngestOnline
  <2> QED BY <1>5, <2>2, <2>3, <2>4, <2>5, <2>6, <2>7 DEF Ingest
<1>6. ASSUME NEW p \in Procs, WriteCell(p) \/ WriteCommit(p) PROVE IdleIsIdle'
  <2>1. job[p] \in Jobs(job[p].arg)
    BY <1>2
  <2>2. CASE WriteCell(p)
    <3>1. PICK c \in job[p].todo : Step(p, "write", [job[p] EXCEPT !.todo = @ \ {c}])
      BY <2>2 DEF WriteCell
    <3> DEFINE next == [job[p] EXCEPT !.todo = @ \ {c}]
    <3>2. next.at = "write"
      BY <2>1, <3>1 DEF Jobs, Step
    <3> HIDE DEF next
    <3> QED BY <1>1, <3>1, <3>2 DEF next
  <2>3. CASE WriteCommit(p)
    <3>1. /\ p = Loop => Step(p, "write", [job[p] EXCEPT !.at = "in_log"])
          /\ p # Loop => Step(p, "write", Idle)
          /\ job[p].todo = {}
      BY <2>3 DEF WriteCommit
    <3> DEFINE next == [job[p] EXCEPT !.at = "in_log"]
    <3>2. next.at = "in_log" /\ next.todo = {}
      BY <2>1, <3>1 DEF Jobs
    <3>3. CASE p = Loop
      <4>1. Step(p, "write", next)
        BY <3>1, <3>3
      <4> HIDE DEF next
      <4> QED BY <1>1, <3>2, <4>1
    <3>4. CASE p # Loop
      BY <1>e, <3>1, <3>4
    <3> QED BY <3>3, <3>4
  <2> QED BY <1>6, <2>2, <2>3
<1>7. CASE Crash
  BY <1>7, IdleType DEF Crash, IdleIsIdle
<1>8. CASE UNCHANGED vars \/ \E e \in Entity, r \in Row : Expire(e, r)
  BY <1>8 DEF vars, Expire, IdleIsIdle
<1> QED BY <1>3, <1>4, <1>5, <1>6, <1>7, <1>8 DEF Next

(* Whoever takes a step of an orderly run takes it alone.                  *)
LEMMA AloneStep ==
  ASSUME TypeOK, Solo, NEW p \in Procs, NEW next, job' = [job EXCEPT ![p] = next],
         Others(p) = {} \/ job[p].at # "idle"
  PROVE  /\ Solo' /\ job'[p] = next
         /\ \A q \in Procs : q # p => job[q] = Idle /\ job'[q] = Idle
<1>1. job'[p] = next /\ \A q \in Procs : q # p => job'[q] = job[q]
  BY DEF TypeOK
<1>2. \A q \in Procs : q # p => job[q] = Idle
  BY IdleType DEF Solo, Others
<1> QED BY <1>1, <1>2 DEF Solo

LEMMA RegisterOrderlyStep ==
  ASSUME TypeOK, IdleIsIdle, IdleIsIdle', RegInv, OrderlyBody, orderly', NEW t \in Threads, Register(t)
  PROVE  OrderlyBody'
<1> USE DEF offlineVars, onlineVars, marks, regVars
<1> DEFINE Steps4 == {"idle", "reg_group", "reg_delete", "reg_insert"}
<1>1. /\ t \in Procs /\ t # Loop /\ Loop \in Procs /\ Threads \subseteq Procs
      /\ reg \in Group /\ job[t] \in Jobs(job[t].arg) /\ None \notin Flags
      /\ (InCall(t) => job[t].arg \in Specs /\ job[t].arg.row \in Flags /\ job[t].arg.feats \subseteq Feature)
  BY ProcAssumption, NoneAssumption, SpecAssumption DEF TypeOK, Procs, InCall
<1>2. /\ UNCHANGED <<offline, torn, onlineOnly, online, onlineSaved>> /\ Stored' = Stored
      /\ ~mixed /\ Solo /\ OneGroup /\ OneStore /\ LocalsCurrent /\ InOrder /\ GoodToDo /\ GoodCells /\ GoodSaved
  BY DEF Register, RegisterEntity, RegisterGroup, RegisterDelete, RegisterInsert, RegisterConflict,
         RegisterCommit, OrderlyBody, Stored
<1>3. ASSUME NEW from, NEW next, Step(t, from, next), from \in Steps4, next.at \in Steps4,
             Others(t) = {} \/ from # "idle",
             reg'.row = reg.row \/ (reg.row = None /\ reg'.row \in Flags),
             Registering \subseteq {t} /\ (\A q \in Procs : q # t => job[q] = Idle) => ~mixed',
             InCall(t)' => /\ reg'.row \in {None, next.arg.row}
                           /\ \A c \in Cells : online[c] # None => c[2] \in next.arg.feats,
             ~InCall(t)' => /\ regSaved'.row = reg'.row /\ regSaved'.feats = reg'.feats
                            /\ \A c \in Cells : online[c] # None => c[2] \in reg'.feats
      PROVE  OrderlyBody'
  <2>1. job' = [job EXCEPT ![t] = next] /\ job[t].at = from
    BY <1>3 DEF Step
  <2>2. Solo' /\ job'[t] = next /\ \A q \in Procs : q # t => job[q] = Idle /\ job'[q] = Idle
    BY <1>1, <1>2, <1>3, <2>1, AloneStep
  <2>3. \A p \in Procs : /\ job[p].at \in Steps4 /\ job'[p].at \in Steps4
                         /\ job[p].todo = {} /\ job'[p].todo = {}
    <3>1. \A p \in Procs : job[p].at \in Steps4 /\ job'[p].at \in Steps4
      BY <1>3, <2>1, <2>2, IdleType
    <3> QED BY <3>1 DEF IdleIsIdle
  <2>4. job[Loop] = Idle /\ job'[Loop] = Idle
    BY <1>1, <2>2
  <2>5. torn = {} /\ Before = Stored /\ Before' = Stored
    <3>1. Rewriting = {}
      BY <2>4, IdleType DEF Rewriting
    <3> QED BY <1>2, <2>4, <3>1, IdleType DEF InOrder, Before
  <2>6. InOrder' /\ GoodToDo'
    BY <1>2, <2>3, <2>4, <2>5, IdleType DEF InOrder, GoodToDo
  <2>7. LocalsCurrent'
    BY <1>1, <2>3, <2>4, IdleType DEF LocalsCurrent, Reads
  <2>8. GoodSaved'
    BY <1>2, <2>3 DEF GoodSaved
  <2>9. OneStore'
    BY <1>1, <1>2, <1>3 DEF OneStore
  <2>10. GoodCells'
    <3>1. ASSUME NEW c \in Cells, reg'.row = None \/ reg'.row.online
          PROVE  online[c] \in {None} \union onlineOnly \union LatestOf(Stored, c[1])
      <4>1. CASE reg.row = None
        BY <1>2, <4>1 DEF OneStore
      <4>2. CASE reg.row # None
        BY <1>1, <1>2, <1>3, <2>3, <2>5, <3>1, <4>2 DEF GoodCells, Pending
      <4> QED BY <4>1, <4>2
    <3> QED BY <1>2, <2>5, <3>1 DEF GoodCells
  <2>11. OneGroup'
    <3>1. \A s \in Threads : s # t => ~InCall(s)'
      BY <1>1, <2>2, IdleType DEF InCall
    <3> QED BY <1>2, <1>3, <2>2, <3>1 DEF OneGroup
  <2>12. ~mixed'
    <3>1. Registering \subseteq {t}
      BY <1>1, <2>2, IdleType DEF Registering
    <3> QED BY <1>3, <2>2, <3>1
  <2> QED BY <2>2, <2>6, <2>7, <2>8, <2>9, <2>10, <2>11, <2>12 DEF OrderlyBody
<1>4. (job[t].at # "idle" => \A q \in Procs : q # t => job[q] = Idle)
  BY <1>1, <1>2, IdleType DEF Solo
<1>5. ASSUME job[t].at \in {"reg_delete", "reg_insert"}
      PROVE  /\ reg.row = job[t].arg.row
             /\ job[t].at = "reg_insert" => reg.feats = job[t].feats /\ job[t].feats \subseteq job[t].arg.feats
  <2>1. Registering \subseteq {t}
    BY <1>1, <1>4, <1>5, IdleType DEF Registering
  <2> QED BY <1>2, <1>5, <2>1 DEF RegInv, RegisterAlone, InRegister
<1>6. ASSUME NEW s \in Specs, RegisterEntity(t, s) PROVE OrderlyBody'
  <2> DEFINE next == [Idle EXCEPT !.at = "reg_group", !.arg = s]
  <2>1. next.at = "reg_group" /\ next.arg = s
    BY DEF Idle
  <2>2. /\ Step(t, "idle", next) /\ reg' = reg /\ mixed' = (mixed \/ Registering \ {t} # {})
        /\ Others(t) = {} /\ (reg.row = None \/ s = [row |-> reg.row, feats |-> reg.feats])
    BY <1>6 DEF RegisterEntity, CommitRegistry
  <2> HIDE DEF next
  <2>3. InCall(t)'
    BY <1>1, <2>1, <2>2, JobAfter DEF InCall
  <2>4. \A q \in Threads : ~InCall(q)
    BY <1>1, <2>2, IdleType DEF Others, InCall, Step
  <2>5. reg'.row \in {None, next.arg.row} /\ \A c \in Cells : online[c] # None => c[2] \in next.arg.feats
    BY <1>2, <2>1, <2>2, <2>4 DEF OneGroup, OneStore
  <2>6. Registering \subseteq {t} => ~mixed'
    BY <1>2, <2>2
  <2> QED BY <1>3, <2>1, <2>2, <2>3, <2>5, <2>6
<1>7. CASE RegisterGroup(t)
  <2> DEFINE next == [job[t] EXCEPT !.at = "reg_delete"]
  <2>1. next.at = "reg_delete" /\ next.arg = job[t].arg
    BY <1>1 DEF Jobs
  <2>2. /\ Step(t, "reg_group", next) /\ reg' = [reg EXCEPT !.row = job[t].arg.row] /\ mixed' = mixed
    BY <1>7 DEF RegisterGroup
  <2> HIDE DEF next
  <2>3. InCall(t)' /\ InCall(t)
    BY <1>1, <2>1, <2>2, JobAfter DEF InCall
  <2>4. reg'.row = job[t].arg.row /\ reg'.row \in Flags /\ reg.row \in {None, job[t].arg.row}
    BY <1>1, <1>2, <2>2, <2>3 DEF Group, OneGroup
  <2>5. \A c \in Cells : online[c] # None => c[2] \in next.arg.feats
    BY <1>2, <2>1, <2>3 DEF OneGroup
  <2> QED BY <1>2, <1>3, <2>1, <2>2, <2>3, <2>4, <2>5
<1>8. CASE RegisterDelete(t)
  <2> DEFINE next == [job[t] EXCEPT !.at = "reg_insert"]
  <2>1. next.at = "reg_insert" /\ next.arg = job[t].arg
    BY <1>1 DEF Jobs
  <2>2. /\ Step(t, "reg_delete", next) /\ reg' = [reg EXCEPT !.feats = {}] /\ mixed' = mixed
    BY <1>8 DEF RegisterDelete
  <2> HIDE DEF next
  <2>3. InCall(t)' /\ InCall(t)
    BY <1>1, <2>1, <2>2, JobAfter DEF InCall
  <2>4. reg'.row = reg.row
    BY <1>1, <2>2 DEF Group
  <2>5. /\ reg'.row \in {None, next.arg.row}
        /\ \A c \in Cells : online[c] # None => c[2] \in next.arg.feats
    BY <1>2, <2>1, <2>3, <2>4 DEF OneGroup
  <2> QED BY <1>2, <1>3, <2>1, <2>2, <2>3, <2>4, <2>5
<1>9. CASE RegisterInsert(t)
  <2>1. PICK f \in Uninserted(t) \ reg.feats :
          /\ Step(t, "reg_insert", [job[t] EXCEPT !.feats = @ \union {f}])
          /\ reg' = [reg EXCEPT !.feats = @ \union {f}]
    BY <1>9 DEF RegisterInsert
  <2> DEFINE next == [job[t] EXCEPT !.feats = @ \union {f}]
  <2>2. next.at = "reg_insert" /\ next.arg = job[t].arg
    BY <1>1, <2>1 DEF Jobs, Step
  <2>3. Step(t, "reg_insert", next) /\ mixed' = mixed
    BY <1>9, <2>1 DEF RegisterInsert
  <2> HIDE DEF next
  <2>4. InCall(t)' /\ InCall(t)
    BY <1>1, <2>2, <2>3, JobAfter DEF InCall
  <2>5. reg'.row = reg.row
    BY <1>1, <2>1 DEF Group
  <2>6. /\ reg'.row \in {None, next.arg.row}
        /\ \A c \in Cells : online[c] # None => c[2] \in next.arg.feats
    BY <1>2, <2>2, <2>4, <2>5 DEF OneGroup
  <2> QED BY <1>2, <1>3, <2>2, <2>3, <2>4, <2>5, <2>6
<1>10. CASE RegisterConflict(t)
  <2>1. job[t].at = "reg_insert" /\ Uninserted(t) \intersect reg.feats # {}
    BY <1>10 DEF RegisterConflict, Step
  <2>2. reg.feats = job[t].feats
    BY <1>5, <2>1
  <2> QED BY <2>1, <2>2 DEF Uninserted
<1>11. CASE RegisterCommit(t)
  <2>1. /\ Step(t, "reg_insert", Idle) /\ Uninserted(t) = {} /\ reg' = reg /\ regSaved' = reg
        /\ mixed' = (mixed \/ Registering \ {t} # {})
    BY <1>11 DEF RegisterCommit, CommitRegistry
  <2>2. job[t].at = "reg_insert" /\ InCall(t) /\ ~InCall(t)'
    BY <1>1, <2>1, JobAfter, IdleType DEF InCall
  <2>3. reg.feats = job[t].arg.feats
    BY <1>5, <2>1, <2>2 DEF Uninserted
  <2>4. \A c \in Cells : online[c] # None => c[2] \in reg'.feats
    BY <1>2, <2>1, <2>2, <2>3 DEF OneGroup
  <2>5. Registering \subseteq {t} => ~mixed'
    BY <1>2, <2>1
  <2> QED BY <1>3, <2>1, <2>2, <2>4, <2>5, IdleType
<1> QED BY <1>6, <1>7, <1>8, <1>9, <1>10, <1>11 DEF Register

LEMMA MaterializeOrderlyStep ==
  ASSUME TypeOK, IdleIsIdle, IdleIsIdle', OrderlyBody, orderly', NEW t \in Threads, Materialize(t)
  PROVE  OrderlyBody'
<1> USE DEF offlineVars, onlineVars, marks, regVars
<1>1. /\ t \in Procs /\ t # Loop /\ Loop \in Procs /\ Threads \subseteq Procs
      /\ job[t] \in Jobs(job[t].arg)
  BY ProcAssumption DEF TypeOK, Procs
<1>2. /\ UNCHANGED <<offline, torn, onlineOnly, online, onlineSaved, reg, regSaved, mixed>> /\ Stored' = Stored
      /\ ~mixed /\ Solo /\ OneGroup /\ OneStore /\ LocalsCurrent /\ InOrder /\ GoodToDo /\ GoodCells /\ GoodSaved
  BY DEF Materialize, MaterializeStart, MaterializeFeatures, MaterializeRead, MaterializeFails, OrderlyBody, Stored
<1>3. ASSUME NEW next, job' = [job EXCEPT ![t] = next], next.at \in Reads \union {"idle"},
             job[t].at \in {"idle", "mat_feats", "mat_read"}, Others(t) = {} \/ job[t].at # "idle",
             reg.row # None, next.at \in {"mat_read", "write"} => next.feats = reg.feats,
             \A x \in next.todo : x[2] \in LatestOf(Stored, x[1][1]) /\ x[1][2] \in reg.feats
      PROVE  OrderlyBody'
  <2>1. Solo' /\ job'[t] = next /\ \A q \in Procs : q # t => job[q] = Idle /\ job'[q] = Idle
    BY <1>1, <1>2, <1>3, AloneStep
  <2>2. job[Loop] = Idle /\ job'[Loop] = Idle
    BY <1>1, <2>1
  <2>3. torn = {} /\ Before = Stored /\ Before' = Stored
    <3>1. Rewriting = {}
      BY <2>2, IdleType DEF Rewriting
    <3> QED BY <1>2, <2>2, <3>1, IdleType DEF InOrder, Before
  <2>4. \A p \in Procs : job[p].todo = {} /\ job[p].at # "write"
    BY <1>3, <2>1, IdleType DEF IdleIsIdle
  <2>5. GoodToDo'
    BY <1>2, <1>3, <2>1, IdleType DEF GoodToDo, Good
  <2>6. InOrder'
    BY <1>2, <2>2, <2>3, IdleType DEF InOrder
  <2>7. LocalsCurrent'
    BY <1>1, <1>2, <1>3, <2>1, <2>2, IdleType DEF LocalsCurrent, Reads
  <2>8. GoodSaved'
    BY <1>2, <2>4 DEF GoodSaved
  <2>9. OneStore'
    BY <1>2 DEF OneStore
  <2>10. GoodCells'
    <3>1. \A c \in Cells : ~Pending(Loop, c)
      BY <1>1, <2>4 DEF Pending
    <3> QED BY <1>2, <2>3, <3>1 DEF GoodCells
  <2>11. OneGroup'
    <3>1. \A s \in Threads : ~InCall(s) /\ ~InCall(s)'
      BY <1>1, <1>3, <2>1, IdleType DEF InCall, Reads
    <3> QED BY <1>2, <3>1 DEF OneGroup
  <2> QED BY <1>2, <2>1, <2>5, <2>6, <2>7, <2>8, <2>9, <2>10, <2>11 DEF OrderlyBody
<1>4. CASE MaterializeStart(t)
  <2> DEFINE next == [Idle EXCEPT !.at = "mat_feats", !.row = reg.row]
  <2>1. next.at = "mat_feats" /\ next.todo = {}
    BY DEF Idle
  <2>2. job' = [job EXCEPT ![t] = next] /\ Others(t) = {} /\ job[t].at = "idle" /\ reg.row # None
    BY <1>4, IdleType DEF MaterializeStart
  <2> HIDE DEF next
  <2> QED BY <1>3, <2>1, <2>2 DEF Reads
<1>5. CASE MaterializeFeatures(t)
  <2> DEFINE next == [job[t] EXCEPT !.at = "mat_read", !.feats = reg.feats]
  <2>1. Step(t, "mat_feats", next)
    BY <1>5 DEF MaterializeFeatures
  <2>2. next.at = "mat_read" /\ next.todo = job[t].todo /\ next.feats = reg.feats
    BY <1>1 DEF Jobs
  <2> HIDE DEF next
  <2>3. job' = [job EXCEPT ![t] = next] /\ job[t].at = "mat_feats" /\ job[t].todo = {} /\ reg.row # None
    BY <1>1, <1>2, <2>1 DEF Step, IdleIsIdle, LocalsCurrent, Reads
  <2> QED BY <1>3, <2>2, <2>3 DEF Reads
<1>6. CASE MaterializeRead(t)
  <2>1. PICK S \in LatestRows(Stored) :
          Step(t, "mat_read", [job[t] EXCEPT !.at = "write", !.todo = Writes(S, job[t].feats)])
    BY <1>6 DEF MaterializeRead
  <2> DEFINE todo == Writes(S, job[t].feats)
             next == [job[t] EXCEPT !.at = "write", !.todo = todo]
  <2>2. \A x \in todo : x[2] \in LatestOf(Stored, x[1][1])
    BY <2>1, LatestWritten
  <2>3. \A x \in todo : x[1][2] \in job[t].feats
    BY DEF Writes
  <2> HIDE DEF todo
  <2>4. next.at = "write" /\ next.todo = todo /\ next.feats = job[t].feats
    BY <1>1 DEF Jobs
  <2>5. Step(t, "mat_read", next)
    BY <2>1 DEF todo
  <2> HIDE DEF next
  <2>6. job[t].at = "mat_read" /\ job' = [job EXCEPT ![t] = next] /\ reg.row # None /\ job[t].feats = reg.feats
    BY <1>2, <2>5 DEF Step, LocalsCurrent, Reads
  <2> QED BY <1>3, <2>2, <2>3, <2>4, <2>6 DEF Reads
<1>7. CASE MaterializeFails(t)
  <2>1. job' = [job EXCEPT ![t] = Idle] /\ job[t].at = "mat_read" /\ reg.row # None
    BY <1>2, <1>7 DEF MaterializeFails, Step, LocalsCurrent, Reads
  <2> QED BY <1>3, <2>1, IdleType
<1> QED BY <1>4, <1>5, <1>6, <1>7 DEF Materialize

LEMMA WriteOrderlyStep ==
  ASSUME TypeOK, IdleIsIdle, OrderlyBody, NEW p \in Procs, WriteCell(p) \/ WriteCommit(p)
  PROVE  OrderlyBody'
<1> USE DEF offlineVars, onlineVars, marks, regVars
<1>1. /\ Loop \in Procs /\ Threads \subseteq Procs /\ Loop \notin Threads
      /\ job[p] \in Jobs(job[p].arg) /\ job[p].at = "write"
  <2>1. \E next : Step(p, "write", next)
    BY DEF WriteCell, WriteCommit
  <2> QED BY <2>1, ProcAssumption DEF TypeOK, Procs, Step
<1>2. /\ UNCHANGED <<offline, torn, onlineOnly, reg, regSaved, mixed>> /\ Stored' = Stored
      /\ ~mixed /\ Solo /\ OneGroup /\ OneStore /\ LocalsCurrent /\ InOrder /\ GoodToDo /\ GoodCells /\ GoodSaved
  BY DEF WriteCell, WriteCommit, OrderlyBody, Stored
<1>3. ASSUME NEW next, job' = [job EXCEPT ![p] = next],
             \/ next.at = "write" /\ next.feats = job[p].feats
             \/ next.at = "in_log" /\ p = Loop /\ next.feats = job[p].feats
             \/ next = Idle /\ p # Loop,
             p = Loop => next.row = job[p].row /\ next.parts = job[p].parts /\ next.arg = job[p].arg,
             \A x \in next.todo : x \in job[p].todo,
             \A c \in Cells : \/ online'[c] = online[c] /\ (Pending(p, c) => \E x \in next.todo : x[1] = c)
                              \/ Good(online'[c], c[1]) /\ c[2] \in reg.feats,
             next.at # "write" => onlineSaved' = online'
      PROVE  OrderlyBody'
  <2>1. Solo' /\ job'[p] = next /\ \A q \in Procs : q # p => job[q] = Idle /\ job'[q] = Idle
    BY <1>1, <1>2, <1>3, AloneStep
  <2>2. torn = {} /\ Before = Stored /\ Before' = Stored
    <3>1. Rewriting = {} /\ job[Loop].at \in {"write", "idle"} /\ job'[Loop].at \in {"write", "in_log", "idle"}
      BY <1>1, <1>3, <2>1, IdleType DEF Rewriting
    <3> QED BY <1>2, <3>1 DEF InOrder, Before
  <2>3. GoodToDo'
    BY <1>2, <1>3, <2>1, IdleType DEF GoodToDo, Good
  <2>4. InOrder'
    <3>1. job'[Loop].at \in {"write", "in_log", "idle"}
      BY <1>1, <1>3, <2>1, IdleType
    <3> QED BY <1>2, <2>2, <3>1 DEF InOrder
  <2>5. LocalsCurrent'
    <3>1. CASE p = Loop
      <4>1. \A t \in Threads : job'[t].at = "idle"
        BY <1>1, <2>1, <3>1, IdleType
      <4>2. /\ reg.row # None /\ next.row = reg.row /\ next.feats = reg.feats
            /\ next.parts # {} => reg.row.offline
            /\ ~reg.row.offline => next.arg \subseteq onlineOnly
        BY <1>1, <1>2, <1>3, <3>1, IdleType DEF LocalsCurrent
      <4> QED BY <1>2, <2>1, <3>1, <4>1, <4>2 DEF LocalsCurrent, Reads
    <3>2. CASE p # Loop
      <4>1. job'[Loop].at = "idle" /\ p \in Threads
        BY <1>1, <2>1, <3>2, IdleType DEF Procs
      <4>2. \A t \in Threads : t # p => job'[t].at = "idle"
        BY <1>1, <2>1, IdleType
      <4>3. reg.row # None /\ (job'[p].at \in Reads => job'[p].feats = reg.feats)
        BY <1>1, <1>2, <1>3, <2>1, <4>1, IdleType DEF LocalsCurrent, Reads
      <4> QED BY <1>2, <4>1, <4>2, <4>3 DEF LocalsCurrent, Reads
    <3> QED BY <3>1, <3>2
  <2>6. GoodSaved'
    BY <1>3, <2>1 DEF GoodSaved
  <2>7. reg.row # None
    BY <1>1, <1>2, IdleType DEF LocalsCurrent, Reads, Procs
  <2>8. OneStore'
    BY <1>2, <2>7 DEF OneStore
  <2>9. GoodCells'
    <3> SUFFICES ASSUME NEW c \in Cells, reg.row.online
                 PROVE  \/ online'[c] \in {None} \union onlineOnly \union LatestOf(Stored, c[1])
                        \/ Pending(Loop, c)'
      BY <1>2, <2>2, <2>7 DEF GoodCells
    <3>1. CASE Good(online'[c], c[1])
      BY <3>1 DEF Good
    <3>2. CASE online'[c] = online[c] /\ (Pending(p, c) => \E x \in next.todo : x[1] = c)
      <4>1. Pending(Loop, c) => p = Loop
        BY <1>1, <2>1, IdleType DEF Pending
      <4>2. online[c] \in {None} \union onlineOnly \union LatestOf(Stored, c[1]) \/ Pending(Loop, c)
        BY <1>2, <2>2, <2>7 DEF GoodCells
      <4>3. p = Loop /\ (\E x \in next.todo : x[1] = c) => Pending(Loop, c)'
        BY <2>1 DEF Pending
      <4> QED BY <3>2, <4>1, <4>2, <4>3
    <3> QED BY <1>3, <3>1, <3>2
  <2>10. OneGroup'
    <3>1. \A s \in Threads : ~InCall(s) /\ ~InCall(s)'
      BY <1>1, <1>3, <2>1, IdleType DEF InCall
    <3> QED BY <1>2, <1>3, <3>1 DEF OneGroup
  <2> QED BY <1>2, <2>1, <2>3, <2>4, <2>5, <2>6, <2>8, <2>9, <2>10 DEF OrderlyBody
<1>4. CASE WriteCell(p)
  <2>1. PICK x \in job[p].todo :
          /\ Step(p, "write", [job[p] EXCEPT !.todo = @ \ {x}])
          /\ online' = [online EXCEPT ![x[1]] = x[2]]
    BY <1>4 DEF WriteCell
  <2> DEFINE next == [job[p] EXCEPT !.todo = @ \ {x}]
  <2>2. /\ next.todo = job[p].todo \ {x} /\ next.at = "write" /\ next.feats = job[p].feats
        /\ next.row = job[p].row /\ next.parts = job[p].parts /\ next.arg = job[p].arg
    BY <1>1 DEF Jobs
  <2> HIDE DEF next
  <2>3. job' = [job EXCEPT ![p] = next]
    BY <2>1 DEF next, Step
  <2>4. online'[x[1]] = x[2] /\ \A c \in Cells : c # x[1] => online'[c] = online[c]
    BY <1>1, <2>1 DEF Jobs, TypeOK
  <2>5. Good(x[2], x[1][1]) /\ x[1][2] \in reg.feats
    BY <1>2, <2>1 DEF GoodToDo
  <2>6. ASSUME NEW c \in Cells
        PROVE  \/ online'[c] = online[c] /\ (Pending(p, c) => \E y \in next.todo : y[1] = c)
               \/ Good(online'[c], c[1]) /\ c[2] \in reg.feats
    <3>1. CASE c = x[1]
      BY <2>4, <2>5, <3>1
    <3>2. CASE c # x[1]
      BY <2>2, <2>4, <3>2 DEF Pending
    <3> QED BY <3>1, <3>2
  <2> QED BY <1>3, <2>2, <2>3, <2>6
<1>5. CASE WriteCommit(p)
  <2>1. job[p].todo = {} /\ online' = online /\ onlineSaved' = online /\ \A c : ~Pending(p, c)
    BY <1>5 DEF WriteCommit, Pending
  <2>2. CASE p = Loop
    <3> DEFINE next == [job[p] EXCEPT !.at = "in_log"]
    <3>1. job' = [job EXCEPT ![p] = next]
      BY <1>5, <2>2 DEF WriteCommit, Step
    <3>2. /\ next.todo = job[p].todo /\ next.at = "in_log" /\ next.feats = job[p].feats
          /\ next.row = job[p].row /\ next.parts = job[p].parts /\ next.arg = job[p].arg
      BY <1>1 DEF Jobs
    <3> HIDE DEF next
    <3> QED BY <1>3, <2>1, <2>2, <3>1, <3>2
  <2>3. CASE p # Loop
    <3>1. job' = [job EXCEPT ![p] = Idle]
      BY <1>5, <2>3 DEF WriteCommit, Step
    <3> QED BY <1>3, <2>1, <2>3, <3>1, IdleType
  <2> QED BY <2>2, <2>3
<1> QED BY <1>4, <1>5

LEMMA CrashOrderlyStep ==
  ASSUME TypeOK, IdleIsIdle, OrderlyBody, orderly', Crash
  PROVE  OrderlyBody'
<1>1. /\ reg' = regSaved /\ online' = onlineSaved /\ torn' = torn /\ onlineSaved' = onlineSaved
      /\ offline' = [d \in Days |-> IF d \in torn THEN {} ELSE offline[d]]
      /\ regSaved' = regSaved /\ onlineOnly' = onlineOnly /\ mixed' = mixed
      /\ \A p \in Procs : job[p] = Idle /\ job'[p] = Idle
  BY DEF Crash
<1>2. /\ Loop \in Procs /\ Threads \subseteq Procs
      /\ ~mixed /\ Solo /\ OneGroup /\ OneStore /\ LocalsCurrent /\ InOrder /\ GoodToDo /\ GoodCells /\ GoodSaved
  BY DEF OrderlyBody, Procs
<1>3. \A p \in Procs : job[p].at = "idle" /\ job'[p].at = "idle" /\ job[p].todo = {} /\ job'[p].todo = {}
  BY <1>1, IdleType
<1>4. torn = {} /\ online' = online /\ \A t \in Threads : ~InCall(t) /\ ~InCall(t)'
  <2>1. Rewriting = {}
    BY <1>2, <1>3 DEF Rewriting
  <2> QED BY <1>1, <1>2, <1>3, <2>1 DEF InOrder, GoodSaved, InCall
<1>5. Stored' = Stored /\ Before = Stored /\ Before' = Stored
  <2>1. offline' = offline
    BY <1>1, <1>4 DEF TypeOK
  <2> QED BY <1>2, <1>3, <2>1 DEF Stored, Before
<1>6. reg'.row = reg.row /\ reg'.feats = reg.feats /\ regSaved'.row = reg'.row /\ regSaved'.feats = reg'.feats
  BY <1>1, <1>2, <1>4 DEF OneGroup
<1>7. OneGroup'
  BY <1>1, <1>2, <1>4, <1>6 DEF OneGroup
<1>8. OneStore'
  BY <1>1, <1>2, <1>4, <1>5, <1>6 DEF OneStore
<1>9. GoodCells'
  BY <1>1, <1>2, <1>3, <1>4, <1>5, <1>6 DEF GoodCells, Pending
<1>10. Solo' /\ LocalsCurrent' /\ GoodToDo' /\ GoodSaved'
  BY <1>1, <1>2, <1>3, <1>4 DEF Solo, LocalsCurrent, GoodToDo, GoodSaved, Reads
<1>11. InOrder'
  BY <1>1, <1>2, <1>3, <1>4 DEF InOrder
<1> QED BY <1>1, <1>2, <1>7, <1>8, <1>9, <1>10, <1>11 DEF OrderlyBody

LEMMA ExpireOrderlyStep ==
  ASSUME TypeOK, OrderlyBody, NEW e \in Entity, NEW r \in Row, Expire(e, r)
  PROVE  OrderlyBody'
<1> USE DEF offlineVars, regVars
<1>1. /\ UNCHANGED <<reg, regSaved, offline, torn, job, onlineOnly, mixed>>
      /\ \A c \in Cells : online'[c] \in {online[c], None}
      /\ onlineSaved = online => onlineSaved' = online'
  BY DEF Expire
<1>2. /\ Stored' = Stored /\ Before' = Before /\ Rewriting' = Rewriting
      /\ ~mixed /\ Solo /\ OneGroup /\ OneStore /\ LocalsCurrent /\ InOrder /\ GoodToDo /\ GoodCells /\ GoodSaved
  BY <1>1 DEF OrderlyBody, Stored, Before, Rewriting, First
<1>3. OneGroup' /\ OneStore'
  BY <1>1, <1>2 DEF OneGroup, OneStore, InCall
<1>4. GoodCells'
  BY <1>1, <1>2 DEF GoodCells, Pending
<1>5. Solo' /\ LocalsCurrent' /\ InOrder' /\ GoodToDo' /\ GoodSaved'
  BY <1>1, <1>2 DEF Solo, LocalsCurrent, InOrder, GoodToDo, GoodSaved, Good
<1> QED BY <1>1, <1>2, <1>3, <1>4, <1>5 DEF OrderlyBody

(* The newest rows of a batch in order are the newest of the store.        *)
LEMMA NewestOfBatch ==
  ASSUME NEW rows, NEW arg, \A r \in rows \union arg : r.ts \in Nat,
         \A r \in arg, q \in rows \ arg : q.entity = r.entity => q.ts < r.ts, NEW e
  PROVE  /\ \A r \in LatestOf(arg, e) \intersect rows : r \in LatestOf(rows, e)
         /\ (~\E r \in arg : r.entity = e) => LatestOf(rows \ arg, e) \subseteq LatestOf(rows, e)
<1>1. ASSUME NEW r \in LatestOf(arg, e) \intersect rows PROVE r \in LatestOf(rows, e)
  <2>1. ASSUME NEW q \in rows, q.entity = e PROVE q.ts <= r.ts
    BY <1>1, <2>1 DEF LatestOf
  <2> QED BY <1>1, <2>1 DEF LatestOf
<1>2. ASSUME ~\E r \in arg : r.entity = e PROVE LatestOf(rows \ arg, e) \subseteq LatestOf(rows, e)
  BY <1>2 DEF LatestOf
<1> QED BY <1>1, <1>2

LEMMA IngestOrderlyStep ==
  ASSUME TypeOK, IdleIsIdle, IdleIsIdle', AheadInv, OrderlyBody, orderly', Ingest
  PROVE  OrderlyBody'
<1> USE DEF offlineVars, onlineVars, marks, regVars
<1> DEFINE L == job[Loop]
           LoopSteps == {"idle", "in_check", "in_offline", "in_rewrite", "in_log", "write"}
<1>1. /\ Loop \in Procs /\ Threads \subseteq Procs /\ Loop \notin Threads
      /\ reg \in Group /\ L \in Jobs(L.arg) /\ (L.at # "idle" => L.arg \in Batches /\ L.arg \subseteq Row)
      /\ Stored \subseteq Row /\ \A r \in Row : r.ts \in Nat
  BY ProcAssumption, RowsOfBatch, StoredType, BatchAssumption DEF TypeOK, Procs
<1>2. /\ UNCHANGED <<online, onlineSaved>>
      /\ ~mixed /\ Solo /\ OneGroup /\ OneStore /\ LocalsCurrent /\ InOrder /\ GoodToDo /\ GoodCells /\ GoodSaved
  BY DEF Ingest, IngestStart, IngestAccepts, IngestRejects, WriteBegin, WriteEnd, WriteFails,
         IngestOnline, IngestLog, OrderlyBody
<1>3. /\ L.at \in {"idle", "in_check", "in_offline", "in_rewrite", "in_log"} /\ L.todo = {}
      /\ \A c : ~Pending(Loop, c)
      /\ L.at # "in_rewrite" => torn = {}
      /\ L.at # "idle" => reg.row # None
      /\ Others(Loop) = {} /\ \A q \in Procs : q # Loop => job[q] = Idle
  <2>1. L.at \in {"idle", "in_check", "in_offline", "in_rewrite", "in_log"}
    BY DEF Ingest, IngestStart, IngestAccepts, IngestRejects, WriteBegin, WriteEnd, WriteFails,
           IngestOnline, IngestLog, Step
  <2>2. L.todo = {}
    BY <1>1, <2>1 DEF IdleIsIdle
  <2>3. \A c : ~Pending(Loop, c)
    BY <2>2 DEF Pending
  <2>4. L.at # "in_rewrite" => torn = {}
    BY <1>2 DEF InOrder, Rewriting
  <2>5. Others(Loop) = {}
    <3>1. CASE L.at = "idle"
      <4>1. \E b \in Batches : IngestStart(b)
        BY <3>1 DEF Ingest, IngestAccepts, IngestRejects, WriteBegin, WriteEnd, WriteFails,
                    IngestOnline, IngestLog, Step
      <4> QED BY <4>1 DEF IngestStart
    <3>2. CASE L.at # "idle"
      BY <1>1, <1>2, <3>2, IdleType DEF Solo, Others
    <3> QED BY <3>1, <3>2
  <2>6. L.at # "idle" => reg.row # None
    BY <1>2 DEF LocalsCurrent
  <2>7. \A q \in Procs : q # Loop => job[q] = Idle
    BY <2>5 DEF Others
  <2> QED BY <2>1, <2>2, <2>3, <2>4, <2>5, <2>6, <2>7
<1>4. /\ \A t \in Threads : job[t].at = "idle" /\ ~InCall(t)
      /\ regSaved.row = reg.row /\ regSaved.feats = reg.feats /\ onlineSaved = online
      /\ \A c \in Cells : online[c] # None => c[2] \in reg.feats
      /\ Registering = {}
  <2>1. \A t \in Threads : job[t].at = "idle" /\ ~InCall(t)
    BY <1>1, <1>3, IdleType DEF InCall
  <2>2. \A p \in Procs : job[p].at # "write"
    BY <1>3, IdleType
  <2> QED BY <1>2, <2>1, <2>2 DEF OneGroup, GoodSaved, Registering
<1>5. ASSUME NEW next, job' = [job EXCEPT ![Loop] = next], next.at \in LoopSteps, reg.row # None,
             reg'.row = reg.row, reg'.feats = reg.feats,
             regSaved'.row = reg.row, regSaved'.feats = reg.feats, ~mixed',
             next.at # "idle" =>
               /\ next.row = reg.row /\ (next.at # "in_check" => next.feats = reg.feats)
               /\ next.parts # {} => reg.row.offline
               /\ next.at # "in_check" /\ ~reg.row.offline => next.arg \subseteq onlineOnly',
             IF reg.row.offline THEN onlineOnly' = {} ELSE Stored' = {},
             \A x \in next.todo : Good(x[2], x[1][1])' /\ x[1][2] \in reg.feats,
             job'[Loop] = next => InOrder' /\ GoodCells'
      PROVE  OrderlyBody'
  <2>1. Solo' /\ job'[Loop] = next /\ \A q \in Procs : q # Loop => job'[q] = Idle
    BY <1>1, <1>2, <1>3, <1>5, AloneStep
  <2>2. \A t \in Threads : job'[t].at = "idle" /\ ~InCall(t)'
    BY <1>1, <2>1, IdleType DEF InCall
  <2>3. OneGroup'
    BY <1>2, <1>4, <1>5, <2>2 DEF OneGroup
  <2>4. OneStore'
    BY <1>5 DEF OneStore
  <2>5. LocalsCurrent'
    BY <1>5, <2>1, <2>2 DEF LocalsCurrent, Reads
  <2>6. GoodToDo'
    BY <1>5, <2>1, IdleType DEF GoodToDo
  <2>7. GoodSaved'
    BY <1>2, <1>4 DEF GoodSaved
  <2> QED BY <1>5, <2>1, <2>3, <2>4, <2>5, <2>6, <2>7 DEF OrderlyBody
<1>6. ASSUME NEW b \in Batches, IngestStart(b) PROVE OrderlyBody'
  <2> DEFINE next == [Idle EXCEPT !.at = "in_check", !.arg = b, !.row = reg.row]
  <2>1. next.at = "in_check" /\ next.arg = b /\ next.row = reg.row /\ next.parts = {} /\ next.todo = {}
    BY DEF Idle
  <2>2. /\ Step(Loop, "idle", next) /\ reg.row # None
        /\ \A r \in b : ~\E q \in Stored : q.entity = r.entity /\ q.ts >= r.ts
        /\ UNCHANGED <<reg, regSaved, offline, torn, onlineOnly, mixed>>
    BY <1>6 DEF IngestStart
  <2> HIDE DEF next
  <2>3. job' = [job EXCEPT ![Loop] = next] /\ L.at = "idle" /\ Stored' = Stored
    BY <2>2 DEF Step, Stored
  <2>4. b \subseteq Row /\ \A r \in b, q \in Stored : q.entity = r.entity => q.ts < r.ts
    <3>1. b \subseteq Row
      BY RowsOfBatch
    <3>2. ASSUME NEW r \in b, NEW q \in Stored, q.entity = r.entity PROVE q.ts < r.ts
      <4>1. r.ts \in Nat /\ q.ts \in Nat /\ ~(q.ts >= r.ts)
        BY <1>1, <2>2, <3>1, <3>2
      <4> QED BY <4>1
    <3> QED BY <3>1, <3>2
  <2>5. b \intersect Stored = {}
    <3>1. \A r \in b : r.ts \in Nat
      BY <1>1, <2>4
    <3> QED BY <2>4, <3>1
  <2>6. job'[Loop] = next => InOrder' /\ GoodCells'
    <3> SUFFICES ASSUME job'[Loop] = next PROVE InOrder' /\ GoodCells'
      OBVIOUS
    <3>1. InOrder'
      BY <1>3, <2>1, <2>2, <2>3, <2>4, <2>5 DEF InOrder
    <3>2. Before' = Stored /\ Before = Stored
      BY <2>1, <2>3 DEF Before
    <3> QED BY <1>2, <1>3, <2>2, <2>3, <3>1, <3>2 DEF GoodCells
  <2> QED BY <1>2, <1>4, <1>5, <2>1, <2>2, <2>3, <2>6 DEF OneStore
<1>7. CASE IngestAccepts
  <2> DEFINE parts == IF L.row.offline THEN {Day(r.ts) : r \in L.arg} ELSE {}
             next == [L EXCEPT !.at = "in_offline", !.feats = reg.feats, !.parts = parts]
  <2>1. /\ Step(Loop, "in_check", next) /\ UNCHANGED <<reg, regSaved, offline, torn, mixed>>
        /\ onlineOnly' = IF L.row.offline THEN onlineOnly ELSE onlineOnly \union L.arg
    BY <1>7 DEF IngestAccepts
  <2>2. L.row = reg.row /\ L.at = "in_check" /\ reg.row # None
    BY <1>2, <1>3, <2>1 DEF Step, LocalsCurrent
  <2>3. parts # {} => reg.row.offline
    BY <2>2
  <2> HIDE DEF parts
  <2>4. /\ next.at = "in_offline" /\ next.arg = L.arg /\ next.row = L.row /\ next.feats = reg.feats
        /\ next.parts = parts /\ next.todo = {}
    BY <1>1, <1>3 DEF Jobs
  <2> HIDE DEF next
  <2>5. job' = [job EXCEPT ![Loop] = next] /\ Stored' = Stored
    BY <2>1 DEF Step, Stored
  <2>6. IF reg.row.offline THEN onlineOnly' = {} ELSE Stored' = {} /\ L.arg \subseteq onlineOnly'
    BY <1>2, <2>1, <2>2, <2>5 DEF OneStore
  <2>7. job'[Loop] = next => InOrder' /\ GoodCells'
    <3> SUFFICES ASSUME job'[Loop] = next PROVE InOrder' /\ GoodCells'
      OBVIOUS
    <3>1. InOrder'
      <4>1. torn' = {} /\ \A r \in L.arg, q \in Stored \ L.arg : q.entity = r.entity => q.ts < r.ts
        BY <1>2, <1>3, <2>1, <2>2 DEF InOrder
      <4> QED BY <2>4, <2>5, <4>1 DEF InOrder
    <3>2. Before' = Before
      <4>1. L.arg \intersect Stored = {}
        BY <1>2, <2>2 DEF InOrder
      <4> QED BY <2>2, <2>4, <2>5, <4>1 DEF Before
    <3>3. onlineOnly \subseteq onlineOnly'
      BY <2>1
    <3> QED BY <1>2, <1>3, <2>1, <3>1, <3>2, <3>3 DEF GoodCells
  <2> QED BY <1>2, <1>4, <1>5, <2>1, <2>2, <2>3, <2>4, <2>5, <2>6, <2>7
<1>8. CASE IngestRejects \/ IngestLog
  <2>1. /\ job' = [job EXCEPT ![Loop] = Idle] /\ L.at \in {"in_check", "in_log"}
        /\ UNCHANGED <<offline, torn, onlineOnly>> /\ Stored' = Stored
    <3>1. CASE IngestRejects
      <4>1. Step(Loop, "in_check", Idle) /\ UNCHANGED <<offline, torn, onlineOnly>>
        BY <3>1 DEF IngestRejects
      <4> QED BY <4>1 DEF Step, Stored
    <3>2. CASE IngestLog
      <4>1. Step(Loop, "in_log", Idle) /\ UNCHANGED <<offline, torn, onlineOnly>>
        BY <3>2 DEF IngestLog
      <4> QED BY <4>1 DEF Step, Stored
    <3> QED BY <1>8, <3>1, <3>2
  <2>2. reg'.row = reg.row /\ reg'.feats = reg.feats /\ regSaved'.row = reg.row /\ regSaved'.feats = reg.feats /\ ~mixed'
    <3>1. CASE IngestRejects
      BY <1>2, <1>4, <3>1 DEF IngestRejects
    <3>2. CASE IngestLog
      BY <1>1, <1>2, <1>4, <3>2 DEF IngestLog, CommitRegistry, Group
    <3> QED BY <1>8, <3>1, <3>2
  <2>3. job'[Loop] = Idle => InOrder' /\ GoodCells'
    <3> SUFFICES ASSUME job'[Loop] = Idle PROVE InOrder' /\ GoodCells'
      OBVIOUS
    <3>1. InOrder'
      BY <1>3, <2>1, IdleType DEF InOrder
    <3>2. Before' = Before
      BY <2>1, IdleType DEF Before
    <3> QED BY <1>2, <1>3, <2>1, <2>2, <3>1, <3>2 DEF GoodCells
  <2>4. Idle.at \in LoopSteps /\ reg.row # None /\ Idle.todo = {}
    BY <1>3, <2>1, IdleType
  <2>5. IF reg.row.offline THEN onlineOnly' = {} ELSE Stored' = {}
    BY <1>2, <2>1, <2>4 DEF OneStore
  <2> QED BY <1>5, <2>1, <2>2, <2>3, <2>4, <2>5, IdleType
<1>9. CASE WriteBegin
  <2> DEFINE next == [L EXCEPT !.at = "in_rewrite"]
  <2>1. PICK d \in L.parts \ torn : First(d) /\ Step(Loop, "in_offline", next) /\ torn' = torn \union {d}
    BY <1>9 DEF WriteBegin
  <2>2. /\ next.at = "in_rewrite" /\ next.arg = L.arg /\ next.row = L.row /\ next.feats = L.feats
        /\ next.parts = L.parts /\ next.todo = {}
    BY <1>1, <1>3 DEF Jobs
  <2> HIDE DEF next
  <2>3. /\ job' = [job EXCEPT ![Loop] = next] /\ L.at = "in_offline" /\ Stored' = Stored
        /\ UNCHANGED <<reg, regSaved, onlineOnly, mixed, offline>>
    <3>1. UNCHANGED <<reg, regSaved, onlineOnly, mixed, offline>>
      BY <1>9 DEF WriteBegin
    <3> QED BY <2>1, <3>1 DEF Step, Stored
  <2>4. job'[Loop] = next => InOrder' /\ GoodCells'
    <3> SUFFICES ASSUME job'[Loop] = next PROVE InOrder' /\ GoodCells'
      OBVIOUS
    <3>1. torn' = {d} /\ d \in Rewriting'
      BY <1>3, <2>1, <2>2, <2>3 DEF Rewriting, First
    <3>2. InOrder'
      BY <1>2, <2>2, <2>3, <3>1 DEF InOrder
    <3>3. Before' = Before
      BY <2>2, <2>3 DEF Before
    <3> QED BY <1>2, <1>3, <2>3, <3>2, <3>3 DEF GoodCells
  <2>5. /\ reg.row # None /\ L.row = reg.row /\ L.feats = reg.feats /\ (L.parts # {} => reg.row.offline)
        /\ (~reg.row.offline => L.arg \subseteq onlineOnly)
    BY <1>2, <2>3 DEF LocalsCurrent
  <2>6. IF reg.row.offline THEN onlineOnly' = {} ELSE Stored' = {}
    BY <1>2, <2>3, <2>5 DEF OneStore
  <2> QED BY <1>2, <1>4, <1>5, <2>2, <2>3, <2>4, <2>5, <2>6
<1>10. CASE WriteEnd
  <2>1. PICK d \in L.parts :
          /\ First(d) /\ Step(Loop, "in_rewrite", [L EXCEPT !.at = "in_offline", !.parts = @ \ {d}])
          /\ offline' = [offline EXCEPT ![d] = Rewritten(d)] /\ torn' = torn \ {d}
    BY <1>10 DEF WriteEnd
  <2> DEFINE next == [L EXCEPT !.at = "in_offline", !.parts = @ \ {d}]
  <2>2. /\ next.at = "in_offline" /\ next.arg = L.arg /\ next.row = L.row /\ next.feats = L.feats
        /\ next.parts \subseteq L.parts /\ next.todo = {}
    BY <1>1, <1>3 DEF Jobs
  <2>3. job' = [job EXCEPT ![Loop] = next] /\ L.at = "in_rewrite"
    BY <2>1 DEF Step
  <2> HIDE DEF next
  <2>4. UNCHANGED <<reg, regSaved, onlineOnly, mixed>>
    BY <1>10 DEF WriteEnd
  <2>5. torn' = {}
    <3>1. Rewriting \subseteq {d}
      BY <2>1, FirstIsOne DEF Rewriting
    <3> QED BY <1>2, <2>1, <3>1 DEF InOrder
  <2>6. Stored \subseteq Stored' /\ Stored' \subseteq Stored \union L.arg
    <3>1. d \in Days /\ DOMAIN offline = Days
      BY <1>1 DEF Jobs, TypeOK
    <3>2. offline'[d] = offline[d] \union {r \in L.arg : Day(r.ts) = d}
      BY <2>1, <3>1 DEF Rewritten
    <3>3. \A x \in Days : x # d => offline'[x] = offline[x]
      BY <2>1, <3>1
    <3> QED BY <3>1, <3>2, <3>3 DEF Stored
  <2>7. Stored' \ L.arg = Stored \ L.arg
    BY <2>6
  <2>8. job'[Loop] = next => InOrder' /\ GoodCells'
    <3> SUFFICES ASSUME job'[Loop] = next PROVE InOrder' /\ GoodCells'
      OBVIOUS
    <3>1. InOrder'
      BY <1>2, <2>2, <2>3, <2>5, <2>7 DEF InOrder
    <3>2. Before' = Before
      BY <2>2, <2>3, <2>7 DEF Before
    <3> QED BY <1>2, <1>3, <2>4, <3>1, <3>2 DEF GoodCells
  <2>9. /\ reg.row # None /\ L.row = reg.row /\ L.feats = reg.feats /\ reg.row.offline
    BY <1>2, <2>1, <2>3 DEF LocalsCurrent
  <2>10. onlineOnly' = {}
    BY <1>2, <2>4, <2>9 DEF OneStore
  <2> QED BY <1>2, <1>4, <1>5, <2>2, <2>3, <2>4, <2>8, <2>9, <2>10
<1>11. CASE IngestOnline
  <2>1. /\ L.at = "in_offline" /\ L.parts = {} /\ UNCHANGED <<reg, regSaved, offline, torn, onlineOnly, mixed>>
        /\ Stored' = Stored
    BY <1>11 DEF IngestOnline, Stored
  <2>2. /\ reg.row # None /\ L.row = reg.row /\ L.feats = reg.feats
        /\ torn = {} /\ IF reg.row.offline THEN onlineOnly = {} ELSE Stored = {}
        /\ (~reg.row.offline => L.arg \subseteq onlineOnly)
    BY <1>2, <1>3, <2>1 DEF LocalsCurrent, OneStore
  <2>3. L.arg \subseteq Stored \union onlineOnly
    BY <2>1, <2>2 DEF AheadInv, AcceptedSafe, Safe
  <2>4. ASSUME NEW e
        PROVE  /\ \A r \in LatestOf(L.arg, e) : Good(r, e)
               /\ (~\E r \in L.arg : r.entity = e) => LatestOf(Stored \ L.arg, e) \subseteq LatestOf(Stored, e)
    <3>1. \A r \in Stored \union L.arg : r.ts \in Nat
      BY <1>1, <2>1
    <3>2. \A r \in L.arg, q \in Stored \ L.arg : q.entity = r.entity => q.ts < r.ts
      BY <1>2, <2>1 DEF InOrder
    <3>3. LatestOf(L.arg, e) \subseteq L.arg
      BY DEF LatestOf
    <3> QED BY <2>3, <3>1, <3>2, <3>3, NewestOfBatch DEF Good
  <2>5. ASSUME NEW next, job' = [job EXCEPT ![Loop] = next], next.at \in {"write", "in_log"},
               next.row = L.row, next.feats = L.feats, next.parts = L.parts, next.arg = L.arg,
               \A x \in next.todo : Good(x[2], x[1][1]) /\ x[1][2] \in reg.feats,
               reg.row.online => \A r \in L.arg, f \in reg.feats : \E x \in next.todo : x[1] = <<r.entity, f>>
        PROVE  OrderlyBody'
    <3>1. job'[Loop] = next => InOrder' /\ GoodCells'
      <4> SUFFICES ASSUME job'[Loop] = next PROVE InOrder' /\ GoodCells'
        OBVIOUS
      <4>1. InOrder'
        BY <2>1, <2>2, <2>5 DEF InOrder
      <4>2. Before' = Stored /\ Before = Stored \ L.arg
        BY <2>1, <2>5 DEF Before
      <4>3. ASSUME NEW c \in Cells, reg.row.online
            PROVE  \/ online[c] \in {None} \union onlineOnly \union LatestOf(Stored, c[1])
                   \/ Pending(Loop, c)'
        <5>1. online[c] \in {None} \union onlineOnly \union LatestOf(Stored \ L.arg, c[1])
          BY <1>2, <1>3, <4>2, <4>3 DEF GoodCells
        <5>2. CASE online[c] # None /\ \E r \in L.arg : r.entity = c[1]
          <6>1. PICK r \in L.arg : r.entity = c[1]
            BY <5>2
          <6>2. c[2] \in reg.feats /\ c = <<r.entity, c[2]>>
            BY <1>4, <5>2, <6>1 DEF Cells
          <6>3. \E x \in next.todo : x[1] = <<r.entity, c[2]>>
            BY <2>5, <4>3, <6>2
          <6> QED BY <6>2, <6>3 DEF Pending
        <5>3. CASE ~\E r \in L.arg : r.entity = c[1]
          BY <2>4, <5>1, <5>3
        <5> QED BY <5>1, <5>2, <5>3
      <4> QED BY <1>2, <2>1, <2>2, <4>1, <4>2, <4>3 DEF GoodCells
    <3>2. \A x \in next.todo : Good(x[2], x[1][1])'
      BY <2>1, <2>5 DEF Good
    <3> QED BY <1>2, <1>4, <1>5, <2>1, <2>2, <2>5, <3>1, <3>2
  <2>6. CASE L.row.online
    <3>1. PICK S \in LatestRows(L.arg) :
            Step(Loop, "in_offline", [L EXCEPT !.at = "write", !.todo = Writes(S, L.feats)])
      BY <1>11, <2>6 DEF IngestOnline
    <3> DEFINE todo == Writes(S, L.feats)
               next == [L EXCEPT !.at = "write", !.todo = todo]
    <3>2. /\ \A x \in todo : x[2] \in LatestOf(L.arg, x[1][1])
          /\ \A r \in L.arg, f \in L.feats : \E x \in todo : x[1] = <<r.entity, f>>
      BY <3>1, LatestWritten
    <3>3. \A x \in todo : x[1][2] \in reg.feats
      BY <2>2 DEF Writes
    <3> HIDE DEF todo
    <3>4. /\ next.at = "write" /\ next.todo = todo /\ next.row = L.row /\ next.feats = L.feats
          /\ next.parts = L.parts /\ next.arg = L.arg
      BY <1>1 DEF Jobs
    <3>5. job' = [job EXCEPT ![Loop] = next]
      BY <3>1 DEF todo, Step
    <3> HIDE DEF next
    <3> QED BY <2>2, <2>4, <2>5, <3>2, <3>3, <3>4, <3>5
  <2>7. CASE ~L.row.online
    <3> DEFINE next == [L EXCEPT !.at = "in_log"]
    <3>1. job' = [job EXCEPT ![Loop] = next]
      BY <1>11, <2>7 DEF IngestOnline, Step
    <3>2. /\ next.at = "in_log" /\ next.todo = {} /\ next.row = L.row /\ next.feats = L.feats
          /\ next.parts = L.parts /\ next.arg = L.arg
      BY <1>1, <1>3 DEF Jobs
    <3> HIDE DEF next
    <3> QED BY <2>2, <2>5, <2>7, <3>1, <3>2
  <2> QED BY <2>6, <2>7
<1>12. ~WriteFails
  BY DEF WriteFails
<1> QED BY <1>6, <1>7, <1>8, <1>9, <1>10, <1>11, <1>12 DEF Ingest

(* What once has been out of order stays so.                               *)
LEMMA OrderlyBefore == TypeOK /\ [Next]_vars /\ orderly' => orderly
<1> SUFFICES ASSUME TypeOK, [Next]_vars, orderly' PROVE orderly
  OBVIOUS
<1> USE DEF marks, vars
<1>1. ASSUME NEW t \in Threads, Register(t) \/ Materialize(t) PROVE orderly
  BY <1>1 DEF Register, RegisterEntity, RegisterGroup, RegisterDelete, RegisterInsert,
     RegisterConflict, RegisterCommit, Materialize, MaterializeStart, MaterializeFeatures,
     MaterializeRead, MaterializeFails
<1>2. CASE Ingest
  BY <1>2 DEF Ingest, IngestStart, IngestAccepts, IngestRejects, WriteBegin, WriteEnd,
     WriteFails, IngestOnline, IngestLog
<1>3. CASE \/ \E p \in Procs : WriteCell(p) \/ WriteCommit(p)
           \/ \E e \in Entity, r \in Row : Expire(e, r)
           \/ Crash \/ UNCHANGED vars
  BY <1>3 DEF WriteCell, WriteCommit, Expire, Crash
<1> QED BY <1>1, <1>2, <1>3 DEF Next

LEMMA OrderlyStep ==
  TypeOK /\ IdleIsIdle /\ RegInv /\ AheadInv /\ OrderlyInv /\ [Next]_vars => OrderlyInv'
<1> SUFFICES ASSUME TypeOK, IdleIsIdle, RegInv, AheadInv, OrderlyInv, [Next]_vars, orderly'
             PROVE  OrderlyBody'
  BY DEF OrderlyInv
<1>1. IdleIsIdle' /\ OrderlyBody
  BY IdleStep, OrderlyBefore DEF OrderlyInv
<1>2. ASSUME NEW t \in Threads, Register(t) \/ Materialize(t) PROVE OrderlyBody'
  BY <1>1, <1>2, RegisterOrderlyStep, MaterializeOrderlyStep
<1>3. CASE Ingest
  BY <1>1, <1>3, IngestOrderlyStep
<1>4. ASSUME NEW p \in Procs, WriteCell(p) \/ WriteCommit(p) PROVE OrderlyBody'
  BY <1>1, <1>4, WriteOrderlyStep
<1>5. ASSUME NEW e \in Entity, NEW r \in Row, Expire(e, r) PROVE OrderlyBody'
  BY <1>1, <1>5, ExpireOrderlyStep
<1>6. CASE Crash
  BY <1>1, <1>6, CrashOrderlyStep
<1>7. CASE UNCHANGED vars
  <2>1. UNCHANGED <<reg, regSaved, offline, torn, online, onlineSaved, job, onlineOnly, mixed>>
    BY <1>7 DEF vars, regVars, offlineVars, onlineVars, marks
  <2>2. /\ Stored' = Stored /\ Before' = Before /\ Rewriting' = Rewriting
        /\ ~mixed /\ Solo /\ OneGroup /\ OneStore /\ LocalsCurrent /\ InOrder /\ GoodToDo /\ GoodCells /\ GoodSaved
    BY <1>1, <2>1 DEF OrderlyBody, Stored, Before, Rewriting, First
  <2>3. OneGroup' /\ OneStore' /\ Solo' /\ LocalsCurrent'
    BY <2>1, <2>2 DEF OneGroup, OneStore, InCall, Solo, LocalsCurrent
  <2>4. InOrder' /\ GoodToDo' /\ GoodCells' /\ GoodSaved'
    BY <2>1, <2>2 DEF InOrder, GoodToDo, Good, GoodCells, Pending, GoodSaved
  <2> QED BY <2>1, <2>2, <2>3, <2>4 DEF OrderlyBody
<1> QED BY <1>2, <1>3, <1>4, <1>5, <1>6, <1>7 DEF Next

LEMMA OrderlyInit == Init => IdleIsIdle /\ OrderlyInv
<1> SUFFICES ASSUME Init PROVE IdleIsIdle /\ OrderlyBody
  BY DEF OrderlyInv
<1>1. /\ \A p \in Procs : job[p] = Idle
      /\ Loop \in Procs /\ Threads \subseteq Procs /\ Stored = {} /\ torn = {} /\ onlineOnly = {}
      /\ reg.row = None /\ regSaved = reg /\ onlineSaved = online /\ ~mixed
      /\ \A c \in Cells : online[c] = None
  BY DEF Init, Procs, Stored
<1>2. \A p \in Procs : job[p].at = "idle" /\ job[p].todo = {}
  BY <1>1, IdleType
<1>3. Solo /\ OneGroup /\ OneStore /\ LocalsCurrent
  BY <1>1, <1>2 DEF Solo, OneGroup, InCall, OneStore, LocalsCurrent, Reads
<1>4. InOrder /\ GoodToDo /\ GoodCells /\ GoodSaved
  BY <1>1, <1>2 DEF InOrder, GoodToDo, GoodCells, GoodSaved
<1> QED BY <1>1, <1>2, <1>3, <1>4 DEF IdleIsIdle, OrderlyBody

(* While batches come in order and calls do not overlap, the online store  *)
(* serves the newest row of the offline store or nothing                   *)
(* (feature_store.py:85-127, materializer.py:9-39).                        *)
THEOREM OrderlyServesNewest == Spec => []ServedIsNewest
<1>1. IdleIsIdle /\ OrderlyInv => ServedIsNewest
  <2> SUFFICES ASSUME IdleIsIdle, OrderlyBody, job[Loop].at \in {"idle", "in_check", "in_log"},
                      reg.row = None \/ reg.row.online,
                      NEW c \in Cells, online[c] \notin onlineOnly \union {None}
               PROVE  Newest(c)
    BY DEF OrderlyInv, ServedIsNewest
  <2>1. ~Pending(Loop, c)
    BY DEF IdleIsIdle, Pending, Procs
  <2>2. Before = Stored
    BY DEF Before
  <2> QED BY <2>1, <2>2 DEF OrderlyBody, GoodCells, Newest
<1> QED BY <1>1, OrderlyInit, OrderlyStep, IdleStep, AheadInit, AheadStep, RegInit, RegStep, TypeInit, TypeStep, PTL DEF Spec
=============================================================================
