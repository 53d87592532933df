----------------------------- MODULE FeatureStore -----------------------------
(***************************************************************************)
(* One feature group of the feature store behind features/api.py.  POST    *)
(* /ingest is a coroutine that never awaits once it has its data: ingests  *)
(* follow one another on the event loop (Loop).  POST /feature-groups and  *)
(* /materialize are plain functions and run on the thread pool (Threads),  *)
(* between any two steps of the loop.                                      *)
(*                                                                         *)
(* The registry and the online store are one sqlite3 connection each,      *)
(* shared by all threads: every statement is seen by all at once, and any  *)
(* commit commits what every thread has pending.  reg and online are what  *)
(* the connections see, regSaved and onlineSaved what a restart finds.     *)
(***************************************************************************)
EXTENDS FiniteSets, PointInTimeJoin

CONSTANTS Loop, Threads, Entity, Feature,
          Specs,         \* what callers register: [row: flags, feats: features]
          Batches,       \* the frames callers ingest: sets of rows
          NullPercent,   \* NULL_RATE_THRESHOLD
          DayLength,     \* timestamps per date partition
          None,
          MaxCalls, MaxCrashes

Procs == Threads \union {Loop}
Flags == [online : BOOLEAN, offline : BOOLEAN]
Row == UNION Batches
Day(ts) == ts \div DayLength
Days == {Day(r.ts) : r \in Row}
Cells == Entity \X Feature

ASSUME ProcAssumption == Loop \notin Threads
ASSUME DayAssumption == DayLength \in Nat \ {0}
ASSUME SpecAssumption == Specs \subseteq [row : Flags, feats : SUBSET Feature]
ASSUME BatchAssumption ==
  \A r \in Row : r.entity \in Entity /\ r.ts \in Nat /\ DOMAIN r.vals \subseteq Feature
ASSUME NoneAssumption == None \notin Flags /\ None \notin Row

VARIABLES
  reg, regSaved,       \* the registry: [row, feats, log]
  offline,             \* the Parquet partitions: rows by date
  torn,                \* partitions being rewritten, or left half written
  online, onlineSaved, \* the online store: the row a cell's value is from
  job,                 \* what each process is doing
  used,                \* calls and crashes so far
  onlineOnly,          \* history: rows ingested while offline was FALSE
  mixed,               \* history: half a register was committed with other work
  quiet,               \* history: the materialize that has had the store to
                       \* itself, without an expiry, since it began
  synced,              \* history: a quiet one has returned since the last
                       \* ingest, register or expiry, or restart into a group
                       \* with other features
  orderly              \* history: no late batch, overlap or failure yet

regVars == <<reg, regSaved>>
offlineVars == <<offline, torn>>
onlineVars == <<online, onlineSaved>>
marks == <<onlineOnly, mixed, synced, orderly>>
vars == <<regVars, offlineVars, onlineVars, job, used, marks, quiet>>

\* The locals of a call: its step, its argument, the group as it read it, the
\* partitions and the <<cell, row>> pairs it has still to write.
Idle == [at |-> "idle", arg |-> None, row |-> None, feats |-> {}, parts |-> {}, todo |-> {}]
Stored == UNION {offline[d] : d \in Days}

Init ==
  /\ reg = [row |-> None, feats |-> {}, log |-> {}]
  /\ regSaved = reg
  /\ offline = [d \in Days |-> {}]
  /\ torn = {}
  /\ online = [c \in Cells |-> None]
  /\ onlineSaved = online
  /\ job = [p \in Procs |-> Idle]
  /\ used = [calls |-> 0, crashes |-> 0]
  /\ onlineOnly = {}
  /\ mixed = FALSE
  /\ quiet = {}
  /\ synced = FALSE
  /\ orderly = TRUE

Others(p) == {q \in Procs \ {p} : job[q] # Idle}
Registering == {t \in Threads : job[t].at \in {"reg_delete", "reg_insert"}}

\* p's locals become next; whoever else materializes is no longer alone.
Step(p, from, next) ==
  /\ job[p].at = from
  /\ job' = [job EXCEPT ![p] = next]
  /\ quiet' = IF next = Idle THEN {} ELSE quiet \intersect {p}

\* registry.conn.commit() by process p, with reg' given.
CommitRegistry(p) ==
  /\ regSaved' = reg'
  /\ mixed' = (mixed \/ Registering \ {p} # {})

-----------------------------------------------------------------------------
(* POST /feature-groups: FeatureStore.register *)

\* register_entity: a statement and a commit of its own.  (orderly: the group
\* is new or stays as it is, and no other call is under way.)
RegisterEntity(t, s) ==
  /\ used.calls < MaxCalls
  /\ Step(t, "idle", [Idle EXCEPT !.at = "reg_group", !.arg = s])
  /\ used' = [used EXCEPT !.calls = @ + 1]
  /\ reg' = reg
  /\ CommitRegistry(t)
  /\ synced' = FALSE
  /\ orderly' = /\ orderly
                /\ Others(t) = {}
                /\ reg.row = None \/ s = [row |-> reg.row, feats |-> reg.feats]
  /\ UNCHANGED <<offlineVars, onlineVars, onlineOnly>>

RegisterGroup(t) ==        \* INSERT OR REPLACE INTO feature_groups
  /\ Step(t, "reg_group", [job[t] EXCEPT !.at = "reg_delete"])
  /\ reg' = [reg EXCEPT !.row = job[t].arg.row]
  /\ UNCHANGED <<regSaved, offlineVars, onlineVars, used, marks>>

\* Mutant: every statement commits by itself.
RegisterDeleteCommits(t) ==
  /\ Step(t, "reg_delete", [job[t] EXCEPT !.at = "reg_insert"])
  /\ reg' = [reg EXCEPT !.feats = {}]
  /\ CommitRegistry(t)
  /\ UNCHANGED <<offlineVars, onlineVars, used, onlineOnly, synced, orderly>>
RegisterDelete(t) ==       \* DELETE FROM features
  /\ Step(t, "reg_delete", [job[t] EXCEPT !.at = "reg_insert"])
  /\ reg' = [reg EXCEPT !.feats = {}]
  /\ UNCHANGED <<regSaved, offlineVars, onlineVars, used, marks>>

\* INSERT INTO features, one by one; job[t].feats is what t has inserted.
Uninserted(t) == job[t].arg.feats \ job[t].feats

RegisterInsert(t) ==
  /\ job[t].at = "reg_insert"
  /\ \E f \in Uninserted(t) \ reg.feats :
       /\ Step(t, "reg_insert", [job[t] EXCEPT !.feats = @ \union {f}])
       /\ reg' = [reg EXCEPT !.feats = @ \union {f}]
  /\ UNCHANGED <<regSaved, offlineVars, onlineVars, used, marks>>

\* Another register has inserted the feature meanwhile: IntegrityError.  No
\* rollback follows, so what t has written stays pending on the connection.
RegisterConflict(t) ==
  /\ Step(t, "reg_insert", Idle)
  /\ Uninserted(t) \intersect reg.feats # {}
  /\ mixed' = TRUE
  /\ UNCHANGED <<regVars, offlineVars, onlineVars, used, onlineOnly, synced, orderly>>

RegisterCommit(t) ==
  /\ Step(t, "reg_insert", Idle)
  /\ Uninserted(t) = {}
  /\ reg' = reg
  /\ CommitRegistry(t)
  /\ UNCHANGED <<offlineVars, onlineVars, used, onlineOnly, synced, orderly>>

Register(t) ==
  \/ \E s \in Specs : RegisterEntity(t, s)
  \/ RegisterGroup(t) \/ RegisterDelete(t) \/ RegisterInsert(t)
  \/ RegisterConflict(t) \/ RegisterCommit(t)

-----------------------------------------------------------------------------
(* POST /ingest/{name}: FeatureStore.ingest *)

\* Mutant: a column may be missing.
SchemaAllowsMissing(b, feats) == Columns(b) \subseteq feats
\* validate_schema: the columns are the registered ones, none more or fewer.
SchemaOK(b, feats) == Columns(b) = feats

\* check_quality: at most NullPercent of a feature's values are null.
QualityOK(b, feats) ==
  \A f \in feats \intersect Columns(b) :
    100 * Cardinality({r \in b : CellValue(r, f) = Null}) <= NullPercent * Cardinality(b)

\* get_feature_group's first SELECT; an unknown group is a ValueError.  A
\* batch is late when the store holds a row of its entity that is not older.
IngestStart(b) ==
  /\ used.calls < MaxCalls
  /\ reg.row # None
  /\ Step(Loop, "idle", [Idle EXCEPT !.at = "in_check", !.arg = b, !.row = reg.row])
  /\ used' = [used EXCEPT !.calls = @ + 1]
  /\ synced' = FALSE
  /\ orderly' = /\ orderly
                /\ Others(Loop) = {}
                /\ \A r \in b : ~\E q \in Stored : q.entity = r.entity /\ q.ts >= r.ts
  /\ UNCHANGED <<regVars, offlineVars, onlineVars, onlineOnly, mixed>>

\* Its second SELECT, then the checks; a batch that fails one gets a 422.
IngestAccepts ==
  LET b == job[Loop].arg
      keep == job[Loop].row.offline
  IN /\ job[Loop].at = "in_check"
     /\ SchemaOK(b, reg.feats) /\ QualityOK(b, reg.feats)
     /\ Step(Loop, "in_check", [job[Loop] EXCEPT
          !.at = "in_offline", !.feats = reg.feats,
          !.parts = IF keep THEN {Day(r.ts) : r \in b} ELSE {}])
     /\ onlineOnly' = IF keep THEN onlineOnly ELSE onlineOnly \union b
     /\ UNCHANGED <<regVars, offlineVars, onlineVars, used, mixed, synced, orderly>>

IngestRejects ==
  /\ job[Loop].at = "in_check"
  /\ ~(SchemaOK(job[Loop].arg, reg.feats) /\ QualityOK(job[Loop].arg, reg.feats))
  /\ Step(Loop, "in_check", Idle)
  /\ UNCHANGED <<regVars, offlineVars, onlineVars, used, marks>>

\* ParquetOfflineStore.write, one date after the other: read the file, then
\* write it again in place.  What a crash has left half written cannot be read.
First(d) == \A q \in job[Loop].parts : d <= q

\* Mutant: the rows the file already has are not read.
RewrittenAlone(d) == {r \in job[Loop].arg : Day(r.ts) = d}
Rewritten(d) == offline[d] \union {r \in job[Loop].arg : Day(r.ts) = d}

WriteBegin ==
  \E d \in job[Loop].parts \ torn :
    /\ First(d)
    /\ Step(Loop, "in_offline", [job[Loop] EXCEPT !.at = "in_rewrite"])
    /\ torn' = torn \union {d}
    /\ UNCHANGED <<regVars, offline, onlineVars, used, marks>>

WriteEnd ==
  \E d \in job[Loop].parts :
    /\ First(d)
    /\ Step(Loop, "in_rewrite", [job[Loop] EXCEPT !.at = "in_offline", !.parts = @ \ {d}])
    /\ offline' = [offline EXCEPT ![d] = Rewritten(d)]
    /\ torn' = torn \ {d}
    /\ UNCHANGED <<regVars, onlineVars, used, marks>>

WriteFails ==
  /\ \E d \in job[Loop].parts \intersect torn : First(d)
  /\ Step(Loop, "in_offline", Idle)
  /\ orderly' = FALSE
  /\ UNCHANGED <<regVars, offlineVars, onlineVars, used, onlineOnly, mixed, synced>>

\* Mutant: the first row of every entity.
FirstRows(rows) == {{r} : r \in {q \in rows : \A x \in rows : x.entity = q.entity => q.ts <= x.ts}}
\* _latest_per_entity: one of the latest rows of every entity.
LatestRows(rows) ==
  {S \in SUBSET {r \in rows : r \in LatestOf(rows, r.entity)} :
     \A r \in rows : \E q \in S : {x \in S : x.entity = r.entity} = {q}}
\* Mutant: feature and entity are swapped in the key.
WritesSwapped(S, feats) == {<<<<f, r.entity>>, r>> : r \in S, f \in feats}
\* The values to write: of every feature the call has seen registered.
Writes(S, feats) == {<<<<r.entity, f>>, r>> : r \in S, f \in feats}

IngestOnline ==
  /\ job[Loop].at = "in_offline" /\ job[Loop].parts = {}
  /\ IF job[Loop].row.online
     THEN \E S \in LatestRows(job[Loop].arg) :
            Step(Loop, "in_offline",
                 [job[Loop] EXCEPT !.at = "write", !.todo = Writes(S, job[Loop].feats)])
     ELSE Step(Loop, "in_offline", [job[Loop] EXCEPT !.at = "in_log"])
  /\ UNCHANGED <<regVars, offlineVars, onlineVars, used, marks>>

\* log_ingestion: INSERT and commit, after everything else.
IngestLog ==
  /\ Step(Loop, "in_log", Idle)
  /\ reg' = [reg EXCEPT !.log = @ \union {job[Loop].arg}]
  /\ CommitRegistry(Loop)
  /\ UNCHANGED <<offlineVars, onlineVars, used, onlineOnly, synced, orderly>>

Ingest ==
  \/ \E b \in Batches : IngestStart(b)
  \/ IngestAccepts \/ IngestRejects
  \/ WriteBegin \/ WriteEnd \/ WriteFails
  \/ IngestOnline \/ IngestLog

-----------------------------------------------------------------------------
(* POST /materialize/{name}: materialize *)

\* get_feature_group's first SELECT; no group, or one without an offline
\* store, is a ValueError.
MaterializeStart(t) ==
  /\ used.calls < MaxCalls
  /\ reg.row # None /\ reg.row.offline
  /\ job[t] = Idle
  /\ job' = [job EXCEPT ![t] = [Idle EXCEPT !.at = "mat_feats", !.row = reg.row]]
  /\ used' = [used EXCEPT !.calls = @ + 1]
  /\ quiet' = IF Others(t) = {} THEN {t} ELSE {}
  /\ orderly' = (orderly /\ Others(t) = {})
  /\ UNCHANGED <<regVars, offlineVars, onlineVars, onlineOnly, mixed, synced>>

MaterializeFeatures(t) ==  \* its second SELECT
  /\ Step(t, "mat_feats", [job[t] EXCEPT !.at = "mat_read", !.feats = reg.feats])
  /\ UNCHANGED <<regVars, offlineVars, onlineVars, used, marks>>

\* A feature that no stored batch had is a KeyError, a partition that cannot
\* be read an error of pyarrow, and an empty store leaves nothing to do.
CanMaterialize(t) == torn = {} /\ Stored # {} /\ job[t].feats \subseteq Columns(Stored)

\* Mutant: only what is missing online is written.
MaterializeMissing(t) ==
  /\ CanMaterialize(t)
  /\ \E S \in LatestRows(Stored) :
       Step(t, "mat_read", [job[t] EXCEPT !.at = "write",
         !.todo = {w \in Writes(S, job[t].feats) : online[w[1]] = None}])
  /\ UNCHANGED <<regVars, offlineVars, onlineVars, used, marks>>
MaterializeRead(t) ==
  /\ CanMaterialize(t)
  /\ \E S \in LatestRows(Stored) :
       Step(t, "mat_read", [job[t] EXCEPT !.at = "write", !.todo = Writes(S, job[t].feats)])
  /\ UNCHANGED <<regVars, offlineVars, onlineVars, used, marks>>

MaterializeFails(t) ==
  /\ ~CanMaterialize(t)
  /\ Step(t, "mat_read", Idle)
  /\ UNCHANGED <<regVars, offlineVars, onlineVars, used, marks>>

Materialize(t) ==
  MaterializeStart(t) \/ MaterializeFeatures(t) \/ MaterializeRead(t) \/ MaterializeFails(t)

-----------------------------------------------------------------------------
(* write_batch of the online store, called by ingest and by materialize *)

\* INSERT OR REPLACE of one feature of one row, in the order of the rows.
WriteCell(p) ==
  \E c \in job[p].todo :
    /\ \A d \in job[p].todo : c[2].ts <= d[2].ts
    /\ Step(p, "write", [job[p] EXCEPT !.todo = @ \ {c}])
    /\ online' = [online EXCEPT ![c[1]] = c[2]]
    /\ UNCHANGED <<regVars, offlineVars, onlineSaved, used, marks>>

WriteCommit(p) ==
  /\ job[p].todo = {}
  /\ Step(p, "write", IF p = Loop THEN [job[p] EXCEPT !.at = "in_log"] ELSE Idle)
  /\ onlineSaved' = online
  /\ synced' = (synced \/ p \in quiet)
  /\ UNCHANGED <<regVars, offlineVars, online, used, onlineOnly, mixed, orderly>>

\* The cells an entity has of one row were written with one expires_at; a
\* reader skips them from then on.
Expire(e, r) ==
  LET Left(store) == [c \in Cells |-> IF c[1] = e /\ store[c] = r THEN None ELSE store[c]]
  IN /\ Left(online) # online
     /\ online' = Left(online)
     /\ onlineSaved' = Left(onlineSaved)
     /\ synced' = FALSE
     /\ quiet' = {}
     /\ UNCHANGED <<regVars, offlineVars, job, used, onlineOnly, mixed, orderly>>

\* The process dies and starts again: open transactions roll back, and the
\* rows of a partition caught in its rewrite are gone.
Crash ==
  /\ used.crashes < MaxCrashes
  /\ used' = [used EXCEPT !.crashes = @ + 1]
  /\ reg' = regSaved
  /\ online' = onlineSaved
  /\ offline' = [d \in Days |-> IF d \in torn THEN {} ELSE offline[d]]
  /\ job' = [p \in Procs |-> Idle]
  /\ quiet' = {}
  /\ orderly' = (orderly /\ \A p \in Procs : job[p] = Idle)
  /\ synced' = (synced /\ regSaved.feats = reg.feats)
  /\ UNCHANGED <<regSaved, onlineSaved, torn, onlineOnly, mixed>>

Next ==
  \/ \E t \in Threads : Register(t) \/ Materialize(t)
  \/ Ingest
  \/ \E p \in Procs : WriteCell(p) \/ WriteCommit(p)
  \/ \E e \in Entity, r \in Row : Expire(e, r)
  \/ Crash

Spec == Init /\ [][Next]_vars

-----------------------------------------------------------------------------
(* Properties *)

Group == [row : Flags \union {None}, feats : SUBSET Feature, log : SUBSET Batches]
Steps == {"idle", "reg_group", "reg_delete", "reg_insert", "in_check", "in_offline",
          "in_rewrite", "in_log", "mat_feats", "mat_read", "write"}
Jobs(arg) == [at : Steps, arg : {arg}, row : Flags \union {None}, feats : SUBSET Feature,
              parts : SUBSET Days, todo : SUBSET (Cells \X Row)]

\* Types, and which argument each process works on: a register on a spec, an
\* ingest on a batch.
TypeOK ==
  /\ reg \in Group /\ regSaved \in Group
  /\ offline \in [Days -> SUBSET Row]
  /\ torn \subseteq Days
  /\ online \in [Cells -> Row \union {None}]
  /\ onlineSaved \in [Cells -> Row \union {None}]
  /\ DOMAIN job = Procs
  /\ \A p \in Procs : job[p] \in Jobs(job[p].arg)
  /\ \A t \in Threads : job[t].at \in {"reg_group", "reg_delete", "reg_insert"} => job[t].arg \in Specs
  /\ job[Loop].at # "idle" => job[Loop].arg \in Batches
  /\ onlineOnly \subseteq Row
  /\ {mixed, synced, orderly} \subseteq BOOLEAN
  /\ quiet \subseteq Threads

\* ingest writes the offline store, then the online store, then the log, so a
\* failure anywhere in between leaves the later ones behind, never ahead: what
\* is served or logged is in a partition (or the partition is half written).
Kept(r) == r \in Stored \union onlineOnly \/ Day(r.ts) \in torn

NothingRunsAhead ==
  /\ \A c \in Cells : online[c] # None => Kept(online[c])
  /\ \A b \in reg.log : \A r \in b : Kept(r)

\* A restart finds a group as somebody registered it, all its features or no
\* group at all: register_feature_group commits once, at its end.  Only the
\* commit of another thread (one connection), or a register that ran into
\* another one, can make half a group last.
RegistryWhole ==
  ~mixed => \/ regSaved.row = None /\ regSaved.feats = {}
            \/ [row |-> regSaved.row, feats |-> regSaved.feats] \in Specs

Newest(c) == online[c] \in LatestOf(Stored, c[1])

\* As long as batches arrive in the order of their timestamps, nothing else
\* runs beside an ingest, and nothing fails (orderly), the online store serves
\* the newest offline row of an entity, or nothing.  Not so for a group with
\* online = FALSE: materialize fills the online store without a look at that
\* flag, and no ingest ever writes there again.
ServedIsNewest ==
  orderly /\ job[Loop].at \in {"idle", "in_check", "in_log"} /\ (reg.row = None \/ reg.row.online)
    => \A c \in Cells : online[c] \notin onlineOnly \union {None} => Newest(c)

\* Whatever has happened before (a late batch, an ingest that died half way,
\* two writers at once), a materialize that ran alone repairs it: until the
\* next ingest, register or expiry, every feature of every stored entity is
\* served from the newest row, and stays so over a crash.  (A crash may bring
\* back other features than it saw: what a register that ran into another one
\* has left pending is lost.)
MaterializeRepairs ==
  synced => \A r \in Stored : \A f \in reg.feats :
              Newest(<<r.entity, f>>) /\ onlineSaved[r.entity, f] \in LatestOf(Stored, r.entity)

\* A training frame holds, for every label, the values of the newest row of
\* its entity that is not later than the label, in both backends, and reports
\* every entity without any such row.
TrainingIsPast ==
  \A e \in Entity, ts \in {r.ts : r \in Row} \union {0} :
    LET label == [entity |-> e, ts |-> ts]
        known == {r \in Stored : r.entity = e /\ r.ts <= ts}
        newest == {r \in known : ~\E q \in known : q.ts > r.ts}
    IN /\ AsofMatch(Stored, label) = newest
       /\ SqlMatch(Stored, label) = newest
       /\ known = {} => e \in Uncovered(Stored, {label})

\* An ingest is accepted only with the columns of a group that somebody has
\* registered, unless a register is half done: get_feature_group's two SELECTs
\* may see the features in the middle of their replacement.
AcceptedFitsASpec ==
  [][job[Loop].at = "in_check" /\ job'[Loop].at = "in_offline"
       => \/ Columns(job[Loop].arg) \in {s.feats : s \in Specs}
          \/ mixed \/ Registering # {}]_vars
=============================================================================
