--------------------------- MODULE ScoringService ---------------------------
(***************************************************************************)
(* The scorer process (src/ml_platform/fraud/api and .../scorer): request  *)
(* threads serving POST /score and one consumer thread reading the         *)
(* transactions topic run the same FraudScorer over the same Redis history *)
(* and insert into the same Postgres table through one small pool, while   *)
(* Redis, Postgres, the broker and the process itself come and go.         *)
(*                                                                         *)
(* Steps are cut where another thread, a backend or a crash can get in     *)
(* between: each Redis round trip, taking a connection, the insert.  The   *)
(* features and the model are a function of the history read, so a score   *)
(* is represented by that history.                                         *)
(***************************************************************************)
EXTENDS FeatureHistory, Integers, FiniteSets

CONSTANTS
  Http,        \* the POST /score requests clients send, one thread each
  Stream,      \* the consumer thread
  Tx,          \* transactions; also their ids and amounts
  User, Device,
  Body,        \* Body[h]: the transaction request h carries
  Log,         \* the transactions the producer publishes, in order
  UserOf, DeviceOf,
  MaxPoll,     \* records one poll may return (max_poll_records)
  MaxConn,     \* maxconn of the pool
  MaxCrashes,  \* bound on the crashes of the process
  MaxEvictions,\* bound on the keys, or the whole of them, Redis drops
  Faults,      \* what may go wrong; see the actions that name them
  NoRow        \* a transaction id that is not in the table

Threads == Http \cup {Stream}

\* A history as score() reads it.
Snapshot == [amounts : Seq(Tx), devices : SUBSET Device]

ASSUME ServiceAssumption ==
  /\ IsFiniteSet(Http)
  /\ Stream \notin Http
  /\ NoRow \notin Snapshot
  /\ Body \in [Http -> Tx]
  /\ Log \in Seq(Tx)
  /\ UserOf \in [Tx -> User]
  /\ DeviceOf \in [Tx -> Device]
  /\ MaxPoll \in Nat \ {0}
  /\ MaxConn \in Nat \ {0}
  /\ MaxCrashes \in Nat
  /\ MaxEvictions \in Nat
  /\ Faults \subseteq {"redis", "evict", "reply", "db", "commit", "broker",
                       "crash", "stop", "slow", "hang"}

VARIABLES
  amounts,    \* user:{id}:amounts, newest first
  devices,    \* user:{id}:devices
  redisState, \* "up", "refused" or "silent"
  rows,       \* scored_transactions: the score kept for a transaction id
  dbState,
  poolOpen,   \* the pool of api/db.py has not been closed
  used,       \* threads that hold one of its connections
  produced,   \* records in the topic
  committed,  \* the offset committed for group "stream-scorer", -1 if none
  position,   \* the consumer's position: the offset after the batch it holds
  cursor,     \* the offset of the record being processed
  pc,         \* per thread, the step it is about to take
  snap,       \* per thread, the history it has read
  outcome,    \* per request, what its client was told
  proc,       \* the process: up, draining, joining, closing, down
  metrics,    \* SCORE_REQUESTS and DB_INSERT_FAILURES, in memory
  crashes,
  \* History variables: no step of the program reads them.
  attempted,  \* offsets the consumer has worked on
  skipped,    \* offsets it passed over when it had no committed offset
  remembered, \* offsets whose transaction went into its user's history
  evictions   \* times Redis has dropped a key, or all of them

redis == <<amounts, devices, redisState, remembered, evictions>>
db == <<rows, dbState, poolOpen, used>>
kafka == <<produced, committed, position, cursor, attempted, skipped>>
threads == <<pc, snap, outcome>>
vars == <<redis, db, kafka, threads, proc, metrics, crashes>>

NoSnap == [amounts |-> <<>>, devices |-> {}]
NoMetrics == [ok_http |-> 0, error_http |-> 0, ok_stream |-> 0, error_stream |-> 0,
              insert_failures |-> 0]

\* The transaction a thread is scoring.
TxOf(t) == IF t = Stream THEN Log[cursor + 1] ELSE Body[t]

redisUp == redisState = "up"
dbUp == dbState = "up"

\* A thread that has called a silent backend.  Neither client has a timeout.
Waits(t) ==
  \/ pc[t] \in {"lrange", "smembers", "update"} /\ redisState = "silent"
  \/ pc[t] = "insert" /\ dbState = "silent"

InFlight(h) == pc[h] \notin {"idle", "done"}
StopEvent == proc \in {"joining", "closing"}

Init ==
  /\ amounts = [u \in User |-> <<>>]
  /\ devices = [u \in User |-> {}]
  /\ redisState = "up"
  /\ rows = [x \in Tx |-> NoRow]
  /\ dbState = "up"
  /\ poolOpen = FALSE
  /\ used = {}
  /\ produced = 0
  /\ committed = -1
  /\ position = 0
  /\ cursor = 0
  /\ pc = [t \in Threads |-> IF t = Stream THEN "connect" ELSE "idle"]
  /\ snap = [t \in Threads |-> NoSnap]
  /\ outcome = [h \in Http |-> "none"]
  /\ proc = "down"
  /\ metrics = NoMetrics
  /\ crashes = 0
  /\ attempted = {}
  /\ skipped = {}
  /\ remembered = {}
  /\ evictions = 0

-----------------------------------------------------------------------------
(* How a thread ends the transaction it is on.  A request answers its      *)
(* client; the consumer goes on to the next record of its batch.           *)

Answer(h, told) ==
  /\ pc' = [pc EXCEPT ![h] = "done"]
  /\ outcome' = [outcome EXCEPT ![h] = told]
  /\ UNCHANGED <<kafka, snap>>

NextRecord ==
  /\ cursor' = cursor + 1
  /\ attempted' = attempted \cup {cursor}
  /\ pc' = [pc EXCEPT ![Stream] = IF cursor + 1 < position THEN "lrange" ELSE "poll"]
  /\ snap' = [snap EXCEPT ![Stream] = NoSnap]
  /\ UNCHANGED <<produced, committed, position, skipped, outcome>>

Finish(t, told) == IF t = Stream THEN NextRecord ELSE Answer(t, told)

Count(field) == metrics' = [metrics EXCEPT ![field] = @ + 1]

\* score() raised: HTTP 500, or the consumer's except.
ScoreFails(t) ==
  /\ Count(IF t = Stream THEN "error_stream" ELSE "error_http")
  /\ Finish(t, "error")

\* Mutant: a row that could not be stored is not counted.
InsertFailsSilently(t) ==
  /\ UNCHANGED metrics
  /\ Finish(t, "answered")

\* insert_score() raised.  The request counts it and still answers 200; the
\* consumer's one except counts the record as a scoring error.
InsertFails(t) ==
  /\ Count(IF t = Stream THEN "error_stream" ELSE "insert_failures")
  /\ Finish(t, "answered")

-----------------------------------------------------------------------------
(* FraudScorer.score: LRANGE, SMEMBERS, one MULTI/EXEC.                    *)

\* RedisFeatureStore.update: both keys of the user, in one transaction.
Remember(t) ==
  LET x == TxOf(t) IN
  /\ amounts' = [amounts EXCEPT ![UserOf[x]] = LpushLtrim(@, x)]
  /\ devices' = [devices EXCEPT ![UserOf[x]] = @ \cup {DeviceOf[x]}]
  /\ remembered' = IF t = Stream THEN remembered \cup {cursor} ELSE remembered

\* Mutant: the history is updated before it is read.
PostRemembersFirst(h) ==
  /\ proc = "up"
  /\ redisUp
  /\ pc[h] = "idle"
  /\ Remember(h)
  /\ pc' = [pc EXCEPT ![h] = "lrange"]
  /\ UNCHANGED <<redisState, evictions, db, kafka, snap, outcome, proc, metrics, crashes>>

Post(h) ==
  /\ proc = "up"
  /\ pc[h] = "idle"
  /\ pc' = [pc EXCEPT ![h] = "lrange"]
  /\ UNCHANGED <<redis, db, kafka, snap, outcome, proc, metrics, crashes>>

GetAmounts(t) ==
  /\ pc[t] = "lrange"
  /\ redisUp
  /\ snap' = [snap EXCEPT ![t].amounts = OldestFirst(amounts[UserOf[TxOf(t)]])]
  /\ pc' = [pc EXCEPT ![t] = "smembers"]
  /\ UNCHANGED <<redis, db, kafka, outcome, proc, metrics, crashes>>

GetDevices(t) ==
  /\ pc[t] = "smembers"
  /\ redisUp
  /\ snap' = [snap EXCEPT ![t].devices = devices[UserOf[TxOf(t)]]]
  /\ pc' = [pc EXCEPT ![t] = "update"]
  /\ UNCHANGED <<redis, db, kafka, outcome, proc, metrics, crashes>>

Update(t) ==
  /\ pc[t] = "update"
  /\ redisUp
  /\ Remember(t)
  /\ Count(IF t = Stream THEN "ok_stream" ELSE "ok_http")
  /\ pc' = [pc EXCEPT ![t] = "getconn"]
  /\ UNCHANGED <<redisState, evictions, db, kafka, snap, outcome, proc, crashes>>

\* "reply": Redis applied the update, and the connection broke before it said so.
UpdateUnconfirmed(t) ==
  /\ "reply" \in Faults
  /\ pc[t] = "update"
  /\ redisUp
  /\ Remember(t)
  /\ ScoreFails(t)
  /\ UNCHANGED <<redisState, evictions, db, proc, crashes>>

\* Mutant: an update that Redis refuses waits for it.
RedisErrorOnRead(t) ==
  /\ pc[t] \in {"lrange", "smembers"}
  /\ ~redisUp
  /\ ScoreFails(t)
  /\ UNCHANGED <<redis, db, proc, crashes>>

\* No except in get_history or update: a Redis that refuses is an exception.  One
\* that is silent is not, until TCP gives the connection up, if it ever does.
RedisError(t) ==
  /\ pc[t] \in {"lrange", "smembers", "update"}
  /\ ~redisUp
  /\ ScoreFails(t)
  /\ UNCHANGED <<redis, db, proc, crashes>>

-----------------------------------------------------------------------------
(* insert_score over the pool.                                             *)

GetConn(t) ==
  /\ pc[t] = "getconn"
  /\ poolOpen
  /\ Cardinality(used) < MaxConn
  /\ used' = used \cup {t}
  /\ pc' = [pc EXCEPT ![t] = "insert"]
  /\ UNCHANGED <<redis, rows, dbState, poolOpen, kafka, snap, outcome, proc, metrics, crashes>>

\* PoolError: the pool does not wait for a connection to come back.
NoConn(t) ==
  /\ pc[t] = "getconn"
  /\ ~poolOpen \/ Cardinality(used) >= MaxConn
  /\ InsertFails(t)
  /\ UNCHANGED <<redis, db, proc, crashes>>

\* Mutant: ON CONFLICT DO UPDATE.
KeepLast(x, score) == rows' = [rows EXCEPT ![x] = score]

\* INSERT ... ON CONFLICT (transaction_id) DO NOTHING; COMMIT.
Keep(x, score) ==
  rows' = IF rows[x] = NoRow THEN [rows EXCEPT ![x] = score] ELSE rows

Insert(t) ==
  /\ pc[t] = "insert"
  /\ poolOpen /\ dbUp
  /\ Keep(TxOf(t), snap[t])
  /\ used' = used \ {t}
  /\ Finish(t, "answered")
  /\ UNCHANGED <<redis, dbState, poolOpen, proc, metrics, crashes>>

\* Mutant: the connection is not given back.
InsertErrorLeaks(t) ==
  /\ pc[t] = "insert"
  /\ ~(poolOpen /\ dbUp)
  /\ InsertFails(t)
  /\ UNCHANGED <<redis, db, proc, crashes>>

\* Postgres refuses, TCP gave up on it, or close_pool() closed the connection under
\* the thread; the finally clause gives it back.
InsertError(t) ==
  /\ pc[t] = "insert"
  /\ ~(poolOpen /\ dbUp)
  /\ used' = used \ {t}
  /\ InsertFails(t)
  /\ UNCHANGED <<redis, rows, dbState, poolOpen, proc, crashes>>

\* The row is committed and insert_score raises all the same: the connection
\* broke before Postgres said so ("commit"), or the pool it goes back to is closed.
InsertUnconfirmed(t) ==
  /\ pc[t] = "insert"
  /\ dbUp
  /\ poolOpen => "commit" \in Faults
  /\ Keep(TxOf(t), snap[t])
  /\ used' = used \ {t}
  /\ InsertFails(t)
  /\ UNCHANGED <<redis, dbState, poolOpen, proc, crashes>>

-----------------------------------------------------------------------------
(* run_stream_consumer                                                     *)

Produce ==
  /\ produced < Len(Log)
  /\ produced' = produced + 1
  /\ UNCHANGED <<redis, db, committed, position, cursor, attempted, skipped,
                 threads, proc, metrics, crashes>>

\* Mutant: the consumer always starts at the end of the topic.
ConnectLatest ==
  /\ proc # "down"
  /\ pc[Stream] = "connect"
  /\ position' = produced
  /\ cursor' = position'
  /\ skipped' = IF committed = -1 THEN skipped \cup (0 .. produced - 1) ELSE skipped
  /\ pc' = [pc EXCEPT ![Stream] = "poll"]
  /\ UNCHANGED <<redis, db, produced, committed, attempted, snap, outcome,
                 proc, metrics, crashes>>

\* _connect, and the first position: the committed offset of the group, or the
\* end of the topic (auto_offset_reset="latest") if it never committed.
Connect ==
  /\ proc # "down"
  /\ pc[Stream] = "connect"
  /\ position' = IF committed = -1 THEN produced ELSE committed
  /\ cursor' = position'
  /\ skipped' = IF committed = -1 THEN skipped \cup (0 .. produced - 1) ELSE skipped
  /\ pc' = [pc EXCEPT ![Stream] = "poll"]
  /\ UNCHANGED <<redis, db, produced, committed, attempted, snap, outcome,
                 proc, metrics, crashes>>

\* Mutant: the commit covers the batch about to be returned.
PollCommitsAhead ==
  /\ proc # "down"
  /\ pc[Stream] = "poll"
  /\ ~StopEvent
  /\ \E n \in 0 .. MaxPoll :
       /\ position + n <= produced
       /\ position' = position + n
       /\ pc' = [pc EXCEPT ![Stream] = IF n > 0 THEN "lrange" ELSE "poll"]
  /\ committed' \in {committed, position'}
  /\ cursor' = position
  /\ UNCHANGED <<redis, db, produced, attempted, skipped, snap, outcome,
                 proc, metrics, crashes>>

\* Automatic commits happen inside poll(), when their interval has passed, and
\* cover what earlier polls returned.
Poll ==
  /\ proc # "down"
  /\ pc[Stream] = "poll"
  /\ ~StopEvent
  /\ committed' \in {committed, position}
  /\ \E n \in 0 .. MaxPoll :
       /\ position + n <= produced
       /\ position' = position + n
       /\ pc' = [pc EXCEPT ![Stream] = IF n > 0 THEN "lrange" ELSE "poll"]
  /\ cursor' = position
  /\ UNCHANGED <<redis, db, produced, attempted, skipped, snap, outcome,
                 proc, metrics, crashes>>

\* stop_event is read between polls only; close() commits the position.
CloseConsumer ==
  /\ proc # "down"
  /\ pc[Stream] = "poll"
  /\ StopEvent
  /\ committed' = position
  /\ pc' = [pc EXCEPT ![Stream] = "closed"]
  /\ UNCHANGED <<redis, db, produced, position, cursor, attempted, skipped,
                 snap, outcome, proc, metrics, crashes>>

\* "broker": poll() or the last attempt to connect raises; nothing restarts the
\* thread.  The finally clause closes, and may or may not get its commit through.
ConsumerDies ==
  /\ "broker" \in Faults
  /\ proc # "down"
  /\ pc[Stream] \in {"connect", "poll"}
  /\ committed' \in IF pc[Stream] = "poll" THEN {committed, position} ELSE {committed}
  /\ pc' = [pc EXCEPT ![Stream] = "closed"]
  /\ UNCHANGED <<redis, db, produced, position, cursor, attempted, skipped,
                 snap, outcome, proc, metrics, crashes>>

-----------------------------------------------------------------------------
(* The process: uvicorn and the lifespan handler of api/main.py.           *)

\* init_pool connects at once, so a process without Postgres does not start.
Boot ==
  /\ proc = "down"
  /\ dbUp
  /\ proc' = "up"
  /\ poolOpen' = TRUE
  /\ metrics' = NoMetrics
  /\ UNCHANGED <<redis, rows, dbState, used, kafka, threads, crashes>>

Sigterm ==
  /\ "stop" \in Faults
  /\ proc = "up"
  /\ proc' = "draining"
  /\ UNCHANGED <<redis, db, kafka, threads, metrics, crashes>>

\* uvicorn lets running requests finish before it leaves the lifespan.
StopConsumer ==
  /\ proc = "draining"
  /\ \A h \in Http : ~InFlight(h)
  /\ proc' = "joining"
  /\ UNCHANGED <<redis, db, kafka, threads, metrics, crashes>>

\* join(timeout=5): "slow" is a batch that takes longer; a hang does that too.
ClosePool ==
  /\ proc = "joining"
  /\ pc[Stream] = "closed" \/ Faults \cap {"slow", "hang"} # {}
  /\ proc' = "closing"
  /\ poolOpen' = FALSE
  /\ UNCHANGED <<redis, rows, dbState, used, kafka, threads, metrics, crashes>>

\* The process is gone: daemon threads, connections and counters with it.
\* "past": the client got no answer from this process that still counts.
Gone ==
  /\ proc' = "down"
  /\ poolOpen' = FALSE
  /\ used' = {}
  /\ pc' = [t \in Threads |-> IF t = Stream THEN "connect"
                              ELSE IF pc[t] = "idle" THEN "idle" ELSE "done"]
  /\ snap' = [t \in Threads |-> NoSnap]
  /\ outcome' = [h \in Http |-> IF pc[h] = "idle" THEN "none" ELSE "past"]
  /\ UNCHANGED <<redis, rows, dbState, kafka, metrics>>

Exit == proc = "closing" /\ Gone /\ UNCHANGED crashes

Crash ==
  /\ "crash" \in Faults
  /\ proc # "down"
  /\ crashes < MaxCrashes
  /\ crashes' = crashes + 1
  /\ Gone

-----------------------------------------------------------------------------
(* The backends.                                                           *)

\* "hang": a backend that is frozen, or cut off, takes calls and answers none.
RedisDown ==
  /\ \/ "redis" \in Faults /\ redisState # "refused" /\ redisState' = "refused"
     \/ "hang" \in Faults /\ redisUp /\ redisState' = "silent"
  /\ UNCHANGED <<amounts, devices, remembered, evictions,
                 db, kafka, threads, proc, metrics, crashes>>

\* compose gives Redis no volume: it comes back as it was, or empty.
RedisUpAgain ==
  /\ ~redisUp
  /\ redisState' = "up"
  /\ \/ UNCHANGED <<amounts, devices, evictions>>
     \/ /\ "evict" \in Faults
        /\ amounts' = [u \in User |-> <<>>]
        /\ devices' = [u \in User |-> {}]
        /\ evictions < MaxEvictions
        /\ evictions' = evictions + 1
  /\ UNCHANGED <<remembered, db, kafka, threads, proc, metrics, crashes>>

\* A key expires or allkeys-lru drops it: one key, not one user.
Evict ==
  /\ "evict" \in Faults
  /\ \E u \in User :
       \/ amounts' = [amounts EXCEPT ![u] = <<>>] /\ UNCHANGED devices
       \/ devices' = [devices EXCEPT ![u] = {}] /\ UNCHANGED amounts
  /\ evictions < MaxEvictions
  /\ evictions' = evictions + 1
  /\ UNCHANGED <<redisState, remembered, db, kafka, threads, proc, metrics, crashes>>

DbDown ==
  /\ \/ "db" \in Faults /\ dbState # "refused" /\ dbState' = "refused"
     \/ "hang" \in Faults /\ dbUp /\ dbState' = "silent"
  /\ UNCHANGED <<redis, rows, poolOpen, used, kafka, threads, proc, metrics, crashes>>

\* pgdata is a volume: rows stay.
DbUpAgain ==
  /\ ~dbUp
  /\ dbState' = "up"
  /\ UNCHANGED <<redis, rows, poolOpen, used, kafka, threads, proc, metrics, crashes>>

-----------------------------------------------------------------------------
\* Mutant: the devices are read before the amounts.
DevicesFirst(t) ==
  /\ pc[t] = "lrange"
  /\ redisUp
  /\ snap' = [snap EXCEPT ![t].devices = devices[UserOf[TxOf(t)]]]
  /\ pc' = [pc EXCEPT ![t] = "smembers"]
  /\ UNCHANGED <<redis, db, kafka, outcome, proc, metrics, crashes>>
AmountsSecond(t) ==
  /\ pc[t] = "smembers"
  /\ redisUp
  /\ snap' = [snap EXCEPT ![t].amounts = OldestFirst(amounts[UserOf[TxOf(t)]])]
  /\ pc' = [pc EXCEPT ![t] = "update"]
  /\ UNCHANGED <<redis, db, kafka, outcome, proc, metrics, crashes>>
ScoreDevicesFirst(t) ==
  \/ DevicesFirst(t) \/ AmountsSecond(t)
  \/ Update(t) \/ UpdateUnconfirmed(t) \/ RedisError(t)

Score(t) ==
  \/ GetAmounts(t) \/ GetDevices(t) \/ Update(t) \/ UpdateUnconfirmed(t) \/ RedisError(t)

Persist(t) ==
  \/ GetConn(t) \/ NoConn(t) \/ Insert(t) \/ InsertError(t) \/ InsertUnconfirmed(t)

Lifecycle == Boot \/ StopConsumer \/ ClosePool \/ Exit

Environment == RedisDown \/ RedisUpAgain \/ Evict \/ DbDown \/ DbUpAgain \/ Produce

Next ==
  \/ \E h \in Http : Post(h)
  \/ \E t \in Threads : Score(t) \/ Persist(t)
  \/ Connect \/ Poll \/ CloseConsumer \/ ConsumerDies
  \/ Lifecycle \/ Sigterm \/ Crash
  \/ Environment

\* Threads are scheduled and a shutdown that began goes on.  Nobody owes a request,
\* a record, a signal, a fault, the end of an outage or a new process; and a silent
\* backend owes its callers neither an answer nor an error.
Fairness ==
  /\ \A t \in Threads : WF_vars(~Waits(t) /\ (Score(t) \/ Persist(t)))
  /\ WF_vars(Connect)
  /\ WF_vars(Poll /\ position' > position)
  /\ WF_vars(CloseConsumer)
  /\ WF_vars(StopConsumer \/ ClosePool \/ Exit)

Spec == Init /\ [][Next]_vars /\ Fairness

-----------------------------------------------------------------------------
(* Properties                                                              *)

TypeOK ==
  /\ amounts \in [User -> Seq(Tx)]
  /\ \A u \in User : Len(amounts[u]) <= HistoryLen
  /\ devices \in [User -> SUBSET Device]
  /\ {redisState, dbState} \subseteq {"up", "refused", "silent"}
  /\ poolOpen \in BOOLEAN
  /\ DOMAIN rows = Tx
  /\ \A x \in Tx : rows[x] = NoRow \/ rows[x] \in Snapshot
  /\ used \subseteq Threads
  /\ produced \in 0 .. Len(Log)
  /\ committed \in -1 .. produced
  /\ position \in 0 .. produced
  /\ cursor \in 0 .. position
  /\ pc \in [Threads -> {"idle", "connect", "poll", "lrange", "smembers", "update",
                         "getconn", "insert", "closed", "done"}]
  /\ snap \in [Threads -> Snapshot]
  /\ outcome \in [Http -> {"none", "answered", "error", "past"}]
  /\ proc \in {"up", "draining", "joining", "closing", "down"}
  /\ metrics \in [DOMAIN NoMetrics -> Nat]
  /\ crashes \in 0 .. MaxCrashes
  /\ attempted \subseteq 0 .. produced - 1
  /\ skipped \subseteq 0 .. produced - 1
  /\ remembered \subseteq 0 .. produced - 1
  /\ evictions \in 0 .. MaxEvictions

(* A card holder's own device is never new to a history that counts its    *)
(* transactions.  get_history is two round trips and other threads update  *)
(* in between (redis_store.py:20-44), but the amounts are read first and   *)
(* both keys are written in one MULTI/EXEC.  It lasts until Redis drops a  *)
(* key: the two expire and are evicted on their own.                       *)
DevicesCoverAmounts ==
  evictions = 0 => \A t \in Threads : pc[t] \in {"update", "getconn", "insert"} =>
    \A i \in DOMAIN snap[t].amounts : DeviceOf[snap[t].amounts[i]] \in snap[t].devices

(* "This transaction only affects rolling stats for transactions that come *)
(* after it, never its own score" (model.py:64-66).                        *)
NeverSeesItself ==
  \A t \in Threads : pc[t] \in {"smembers", "update", "getconn", "insert"} =>
    \A i \in DOMAIN snap[t].amounts : snap[t].amounts[i] # TxOf(t)

(* The audit log is written once: the first score of a transaction stands, *)
(* whoever scores it again, over whatever crash (db.py:47).                *)
FirstScoreStands ==
  [][\A x \in Tx : rows[x] # NoRow => rows'[x] = rows[x]]_vars

(* An offset is committed only after the consumer has worked on every      *)
(* record before it, or passed over them because its group had no offset   *)
(* at all: whatever crashes, redelivers or stops, a committed record has   *)
(* had its try (stream_consumer.py:44-68).                                 *)
CommittedWasAttempted ==
  \A o \in 0 .. committed - 1 : o \in attempted \cup skipped

(* "The score itself is valid and the caller needs it, so this stays a 200 *)
(* - but it is counted" (api/main.py:77-81): the requests this process     *)
(* answered without a row in the table are no more than                    *)
(* fraud_db_insert_failures_total says.                                    *)
UnrecordedIsCounted ==
  Cardinality({h \in Http : outcome[h] = "answered" /\ rows[Body[h]] = NoRow})
    <= metrics.insert_failures

(* A connection is held by a thread that is inserting and by nobody else,  *)
(* so the pool never runs dry for good, whatever raised (db.py:38-56).     *)
PoolIsWhole ==
  proc # "down" => used = {t \in Threads : pc[t] = "insert"}

\* The trainer's replay of the records in the history, in the order of the topic.
Replay[n \in 0 .. Len(Log)] ==
  IF n = 0 THEN [u \in User |-> NoSnap]
  ELSE IF n - 1 \notin remembered THEN Replay[n - 1]
  ELSE [Replay[n - 1] EXCEPT ![UserOf[Log[n]]] =
          [amounts |-> AppendKeepLast(@.amounts, Log[n]),
           devices |-> @.devices \cup {DeviceOf[Log[n]]}]]

(* "There's no train/serve skew" (fraud-README.md:359-361,                 *)
(* redis_store.py:3-4): where only the stream touches a user, Redis drops  *)
(* no key and no batch is delivered twice, a streamed transaction is       *)
(* scored with the history the trainer would have replayed for it, over    *)
(* outages and clean restarts.                                             *)
NoSkew ==
  evictions = 0 /\ pc[Stream] \in {"update", "getconn", "insert"} =>
    LET u == UserOf[TxOf(Stream)] IN
    u \notin {UserOf[Body[h]] : h \in Http} => snap[Stream] = Replay[cursor][u]

NoneSilent == "silent" \notin {redisState, dbState}

(* Every request that got in is answered, through outages that refuse      *)
(* (those may last) and a draining shutdown, unless the process dies under *)
(* it, or a backend falls silent again and again: redis_store.py:17 and    *)
(* db.py:17 set no timeout, so a frozen Redis or Postgres holds a request  *)
(* for as long as it is frozen (main.py:51-82).                            *)
EveryRequestAnswered ==
  \A h \in Http : pc[h] = "lrange" /\ <>[]NoneSilent ~> outcome[h] # "none"

(* Every record published once the group has an offset is worked on in the *)
(* end, crashes and restarts included, as long as the consumer thread      *)
(* survives, the process is up for good and no backend stays silent.       *)
EveryRecordAttempted ==
  \A o \in 0 .. Len(Log) - 1 :
    (produced > o /\ committed >= 0) /\ <>[](proc = "up" /\ NoneSilent)
      ~> o \in attempted \cup skipped
=============================================================================
