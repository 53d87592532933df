------------------------ MODULE ScoringService_proof ------------------------
(***************************************************************************)
(* Proofs about ScoringService, for any requests, any log, any size of the *)
(* pool and of a poll, and every combination of faults.                    *)
(***************************************************************************)
EXTENDS ScoringService, FeatureHistory_proof, FiniteSetTheorems, WellFoundedInduction

Work == {"lrange", "smembers", "update", "getconn", "insert"}

\* The parts of TypeOK a thread moves together when it ends a transaction.
KafkaOK ==
  /\ produced \in 0 .. Len(Log)
  /\ committed \in -1 .. produced
  /\ position \in 0 .. produced
  /\ cursor \in 0 .. position
  /\ attempted \subseteq 0 .. produced - 1
  /\ skipped \subseteq 0 .. produced - 1

ThreadsOK ==
  /\ pc \in [Threads -> {"connect", "poll", "closed", "idle", "done"} \cup Work]
  /\ snap \in [Threads -> Snapshot]
  /\ outcome \in [Http -> {"none", "answered", "error", "past"}]

\* The steps of a request are not those of the consumer, and the consumer works
\* on a record of the batch it holds.
StepsInv ==
  /\ pc[Stream] \notin {"idle", "done"}
  /\ \A h \in Http : pc[h] \notin {"connect", "poll", "closed"}
  /\ pc[Stream] \in Work => cursor < position

TypeInv == TypeOK /\ StepsInv

LEMMA TypeParts == TypeOK => KafkaOK /\ ThreadsOK
BY DEF TypeOK, KafkaOK, ThreadsOK, Work

LEMMA NoSnapType == NoSnap \in Snapshot
BY DEF NoSnap, Snapshot

LEMMA LogType == Len(Log) \in Nat /\ \A i \in 1 .. Len(Log) : Log[i] \in Tx
BY ServiceAssumption

LEMMA TxOfType ==
  ASSUME KafkaOK, StepsInv, NEW t \in Threads, pc[t] \in Work
  PROVE  TxOf(t) \in Tx
<1>1. CASE t = Stream
  <2>1. cursor + 1 \in 1 .. Len(Log)
    BY <1>1, LogType DEF KafkaOK, StepsInv
  <2> QED BY <1>1, <2>1, LogType DEF TxOf
<1>2. CASE t \in Http
  BY <1>2, ServiceAssumption DEF TxOf
<1> QED BY <1>1, <1>2 DEF Threads

LEMMA CountType ==
  ASSUME metrics \in [DOMAIN NoMetrics -> Nat], NEW f \in DOMAIN NoMetrics, Count(f)
  PROVE  metrics' \in [DOMAIN NoMetrics -> Nat]
BY DEF Count

LEMMA MetricFields ==
  {"ok_http", "error_http", "ok_stream", "error_stream", "insert_failures"}
    = DOMAIN NoMetrics
BY DEF NoMetrics

(* What ending a transaction does to the consumer and the requests.        *)
LEMMA FinishStep ==
  ASSUME KafkaOK, ThreadsOK, StepsInv, NEW t \in Threads, pc[t] \in Work,
         NEW told \in {"answered", "error"}, Finish(t, told)
  PROVE  KafkaOK' /\ ThreadsOK' /\ StepsInv'
<1> USE DEF KafkaOK, ThreadsOK, StepsInv, Work
<1>1. CASE t = Stream
  <2>1. NextRecord
    BY <1>1 DEF Finish
  <2>2. cursor < position /\ cursor \in Nat /\ position \in Nat /\ produced \in Nat
    BY <1>1, LogType
  <2>3. cursor' \in 0 .. position' /\ attempted' \subseteq 0 .. produced' - 1
    BY <2>1, <2>2 DEF NextRecord
  <2>4. snap' \in [Threads -> Snapshot]
    BY <2>1, NoSnapType DEF NextRecord
  <2>5. pc' = [pc EXCEPT ![Stream] = IF cursor' < position THEN "lrange" ELSE "poll"]
    BY <2>1 DEF NextRecord
  <2>6. \A h \in Http : pc'[h] = pc[h]
    BY <2>5, ServiceAssumption DEF Threads
  <2> QED BY <2>1, <2>3, <2>4, <2>5, <2>6 DEF NextRecord, Threads
<1>2. CASE t # Stream
  <2>1. Answer(t, told) /\ t \in Http
    BY <1>2 DEF Finish, Threads
  <2>2. pc' = [pc EXCEPT ![t] = "done"] /\ UNCHANGED <<kafka, snap>>
    BY <2>1 DEF Answer
  <2>3. outcome' \in [Http -> {"none", "answered", "error", "past"}]
    BY <2>1 DEF Answer
  <2>4. pc'[Stream] = pc[Stream]
    BY <1>2, <2>2 DEF Threads
  <2> QED BY <2>1, <2>2, <2>3, <2>4 DEF kafka, Threads
<1> QED BY <1>1, <1>2

(* What the two ways of failing add to that: a counter.                    *)
LEMMA FailureStep ==
  ASSUME TypeOK, StepsInv, NEW t \in Threads, pc[t] \in Work,
         ScoreFails(t) \/ InsertFails(t)
  PROVE  KafkaOK' /\ ThreadsOK' /\ StepsInv' /\ metrics' \in [DOMAIN NoMetrics -> Nat]
<1>1. KafkaOK /\ ThreadsOK /\ metrics \in [DOMAIN NoMetrics -> Nat]
  BY TypeParts DEF TypeOK
<1>2. PICK told \in {"answered", "error"} : Finish(t, told)
  BY DEF ScoreFails, InsertFails
<1>3. PICK f \in DOMAIN NoMetrics : Count(f)
  BY MetricFields DEF ScoreFails, InsertFails
<1> QED BY <1>1, <1>2, <1>3, FinishStep, CountType

\* The rest of TypeOK.
BackendsOK ==
  /\ amounts \in [User -> Seq(Tx)]
  /\ \A u \in User : Len(amounts[u]) <= HistoryLen
  /\ devices \in [User -> SUBSET Device]
  /\ redisState \in {"up", "refused", "silent"}
  /\ remembered \subseteq 0 .. produced - 1
  /\ evictions \in 0 .. MaxEvictions

TableOK ==
  /\ DOMAIN rows = Tx
  /\ \A x \in Tx : rows[x] = NoRow \/ rows[x] \in Snapshot
  /\ dbState \in {"up", "refused", "silent"}
  /\ poolOpen \in BOOLEAN
  /\ used \subseteq Threads

ProcessOK ==
  /\ proc \in {"up", "draining", "joining", "closing", "down"}
  /\ metrics \in [DOMAIN NoMetrics -> Nat]
  /\ crashes \in 0 .. MaxCrashes

LEMMA TypeIsItsParts ==
  TypeOK <=> KafkaOK /\ ThreadsOK /\ BackendsOK /\ TableOK /\ ProcessOK
BY DEF TypeOK, KafkaOK, ThreadsOK, BackendsOK, TableOK, ProcessOK, Work

LEMMA PartsAreType ==
  KafkaOK' /\ ThreadsOK' /\ BackendsOK' /\ TableOK' /\ ProcessOK' => TypeOK'
BY DEF TypeOK, KafkaOK, ThreadsOK, BackendsOK, TableOK, ProcessOK, Work

(* One update keeps both keys in their type and the list within its limit. *)
LEMMA RememberStep ==
  ASSUME KafkaOK, BackendsOK, StepsInv, NEW t \in Threads, pc[t] \in Work, Remember(t),
         UNCHANGED <<redisState, evictions>>, produced' = produced
  PROVE  BackendsOK'
<1> DEFINE x == TxOf(t)
<1>1. x \in Tx
  BY TxOfType
<1>2. UserOf[x] \in User /\ DeviceOf[x] \in Device
  BY <1>1, ServiceAssumption
<1>3. /\ amounts' = [amounts EXCEPT ![UserOf[x]] = LpushLtrim(amounts[UserOf[x]], x)]
      /\ devices' = [devices EXCEPT ![UserOf[x]] = devices[UserOf[x]] \cup {DeviceOf[x]}]
      /\ remembered' = IF t = Stream THEN remembered \cup {cursor} ELSE remembered
  BY DEF Remember
<1> HIDE DEF x
<1>4. /\ LpushLtrim(amounts[UserOf[x]], x) \in Seq(Tx)
      /\ Len(LpushLtrim(amounts[UserOf[x]], x)) <= HistoryLen
  BY <1>1, <1>2, OnlineIsOffline DEF BackendsOK
<1>5. t = Stream => cursor \in 0 .. produced - 1
  BY LogType DEF KafkaOK, StepsInv
<1>6. /\ amounts' \in [User -> Seq(Tx)]
      /\ \A u \in User : Len(amounts'[u]) <= HistoryLen
  BY <1>2, <1>3, <1>4 DEF BackendsOK
<1>7. devices' \in [User -> SUBSET Device]
  BY <1>2, <1>3 DEF BackendsOK
<1>8. remembered' \subseteq 0 .. produced' - 1
  BY <1>3, <1>5 DEF BackendsOK
<1> QED BY <1>6, <1>7, <1>8 DEF BackendsOK

(* One insert keeps the table in its type.                                 *)
LEMMA KeepStep ==
  ASSUME TableOK, NEW x, NEW score \in Snapshot, Keep(x, score),
         UNCHANGED <<dbState, poolOpen>>, used' \subseteq used
  PROVE  TableOK'
BY DEF TableOK, Keep

\* A step of a thread that stays on its transaction.
LEMMA StayStep ==
  ASSUME KafkaOK, ThreadsOK, StepsInv, NEW t \in Threads, pc[t] \in Work, NEW p \in Work,
         pc' = [pc EXCEPT ![t] = p], UNCHANGED <<kafka, outcome>>,
         snap' \in [Threads -> Snapshot]
  PROVE  KafkaOK' /\ ThreadsOK' /\ StepsInv'
<1> USE DEF KafkaOK, ThreadsOK, StepsInv, Work, kafka
<1>1. pc' \in [Threads -> {"connect", "poll", "closed", "idle", "done"} \cup Work]
  OBVIOUS
<1>2. \A o \in Threads : pc'[o] = IF o = t THEN p ELSE pc[o]
  OBVIOUS
<1>3. Stream \in Threads /\ Http \subseteq Threads
  BY DEF Threads
<1> QED BY <1>1, <1>2, <1>3

\* A step of the consumer between two batches.
LEMMA ConsumerStep ==
  ASSUME ThreadsOK, StepsInv, NEW p \in {"connect", "poll", "closed"} \cup Work,
         pc' = [pc EXCEPT ![Stream] = p], UNCHANGED <<snap, outcome>>,
         p \in Work => cursor' < position'
  PROVE  ThreadsOK' /\ StepsInv'
<1> USE DEF ThreadsOK, StepsInv, Work
<1>1. pc' \in [Threads -> {"connect", "poll", "closed", "idle", "done"} \cup Work]
  OBVIOUS
<1>2. Stream \in Threads /\ \A h \in Http : h \in Threads /\ h # Stream
  BY ServiceAssumption DEF Threads
<1>3. pc'[Stream] = p /\ \A h \in Http : pc'[h] = pc[h]
  BY <1>2
<1> QED BY <1>1, <1>2, <1>3

LEMMA TypeInit == Init => TypeInv
<1> SUFFICES ASSUME Init PROVE TypeInv
  OBVIOUS
<1>1. KafkaOK
  BY LogType DEF Init, KafkaOK
<1>2. ThreadsOK
  BY NoSnapType DEF Init, ThreadsOK
<1>3. BackendsOK
  BY ServiceAssumption, HistoryAssumption DEF Init, BackendsOK
<1>4. TableOK
  BY DEF Init, TableOK
<1>5. ProcessOK
  <2>1. NoMetrics \in [DOMAIN NoMetrics -> Nat]
    BY DEF NoMetrics
  <2> QED BY <2>1, ServiceAssumption DEF Init, ProcessOK
<1>6. StepsInv
  BY ServiceAssumption DEF Init, StepsInv, Threads, Work
<1> QED BY <1>1, <1>2, <1>3, <1>4, <1>5, <1>6, TypeIsItsParts DEF TypeInv

(* Scoring: what a step of a thread does to the types.                     *)
LEMMA ScoreStep ==
  ASSUME TypeInv, NEW t \in Threads, Score(t)
  PROVE  TypeInv'
<1> USE DEF TypeInv
<1>0. KafkaOK /\ ThreadsOK /\ BackendsOK /\ TableOK /\ ProcessOK
  BY TypeIsItsParts
<1>1. CASE GetAmounts(t)
  <2>1. pc[t] \in Work /\ "smembers" \in Work
    BY <1>1 DEF GetAmounts, Work
  <2>2. amounts[UserOf[TxOf(t)]] \in Seq(Tx)
    BY <1>0, <2>1, TxOfType, ServiceAssumption DEF BackendsOK
  <2>3. OldestFirst(amounts[UserOf[TxOf(t)]]) \in Seq(Tx)
    BY <2>2, OldestFirstIs
  <2>4. snap' \in [Threads -> Snapshot]
    BY <1>0, <1>1, <2>3 DEF GetAmounts, ThreadsOK, Snapshot
  <2>5. KafkaOK' /\ ThreadsOK' /\ StepsInv'
    BY <1>0, <1>1, <2>1, <2>4, StayStep DEF GetAmounts
  <2>6. BackendsOK' /\ TableOK' /\ ProcessOK'
    BY <1>0, <1>1 DEF GetAmounts, BackendsOK, TableOK, ProcessOK, redis, db, kafka
  <2> QED BY <2>5, <2>6, PartsAreType
<1>2. CASE GetDevices(t)
  <2>1. pc[t] \in Work /\ "update" \in Work
    BY <1>2 DEF GetDevices, Work
  <2>2. devices[UserOf[TxOf(t)]] \in SUBSET Device
    BY <1>0, <2>1, TxOfType, ServiceAssumption DEF BackendsOK
  <2>3. snap' \in [Threads -> Snapshot]
    BY <1>0, <1>2, <2>2 DEF GetDevices, ThreadsOK, Snapshot
  <2>4. KafkaOK' /\ ThreadsOK' /\ StepsInv'
    BY <1>0, <1>2, <2>1, <2>3, StayStep DEF GetDevices
  <2>5. BackendsOK' /\ TableOK' /\ ProcessOK'
    BY <1>0, <1>2 DEF GetDevices, BackendsOK, TableOK, ProcessOK, redis, db, kafka
  <2> QED BY <2>4, <2>5, PartsAreType
<1>3. CASE Update(t)
  <2>1. pc[t] \in Work /\ "getconn" \in Work
    BY <1>3 DEF Update, Work
  <2>2. KafkaOK' /\ ThreadsOK' /\ StepsInv'
    BY <1>0, <1>3, <2>1, StayStep DEF Update, ThreadsOK
  <2>3. BackendsOK'
    BY <1>0, <1>3, <2>1, RememberStep DEF Update, kafka
  <2>4. metrics' \in [DOMAIN NoMetrics -> Nat]
    <3>1. PICK f \in DOMAIN NoMetrics : Count(f)
      BY <1>3, MetricFields DEF Update
    <3> QED BY <1>0, <3>1, CountType DEF ProcessOK
  <2>5. TableOK' /\ ProcessOK'
    BY <1>0, <1>3, <2>4 DEF Update, TableOK, ProcessOK, db
  <2> QED BY <2>2, <2>3, <2>5, PartsAreType
<1>4. CASE UpdateUnconfirmed(t)
  <2>1. pc[t] \in Work
    BY <1>4 DEF UpdateUnconfirmed, Work
  <2>2. /\ KafkaOK' /\ ThreadsOK' /\ StepsInv'
        /\ metrics' \in [DOMAIN NoMetrics -> Nat]
    BY <1>4, <2>1, FailureStep DEF UpdateUnconfirmed
  <2>3. produced' = produced
    BY <1>4 DEF UpdateUnconfirmed, ScoreFails, Finish, NextRecord, Answer, kafka
  <2>4. BackendsOK'
    BY <1>0, <1>4, <2>1, <2>3, RememberStep DEF UpdateUnconfirmed
  <2>5. TableOK' /\ ProcessOK'
    BY <1>0, <1>4, <2>2 DEF UpdateUnconfirmed, TableOK, ProcessOK, db
  <2> QED BY <2>2, <2>4, <2>5, PartsAreType
<1>5. CASE RedisError(t)
  <2>1. pc[t] \in Work
    BY <1>5 DEF RedisError, Work
  <2>2. /\ KafkaOK' /\ ThreadsOK' /\ StepsInv'
        /\ metrics' \in [DOMAIN NoMetrics -> Nat]
    BY <1>5, <2>1, FailureStep DEF RedisError
  <2>3. produced' = produced
    BY <1>5 DEF RedisError, ScoreFails, Finish, NextRecord, Answer, kafka
  <2>4. BackendsOK' /\ TableOK' /\ ProcessOK'
    BY <1>0, <1>5, <2>2, <2>3 DEF RedisError, BackendsOK, TableOK, ProcessOK, redis, db
  <2> QED BY <2>2, <2>4, PartsAreType
<1> QED BY <1>1, <1>2, <1>3, <1>4, <1>5 DEF Score

(* Storing: the same for the steps of insert_score.                        *)
LEMMA PersistStep ==
  ASSUME TypeInv, NEW t \in Threads, Persist(t)
  PROVE  TypeInv'
<1> USE DEF TypeInv
<1>0. KafkaOK /\ ThreadsOK /\ BackendsOK /\ TableOK /\ ProcessOK
  BY TypeIsItsParts
<1>1. CASE GetConn(t)
  <2>1. pc[t] \in Work /\ "insert" \in Work
    BY <1>1 DEF GetConn, Work
  <2>2. KafkaOK' /\ ThreadsOK' /\ StepsInv'
    BY <1>0, <1>1, <2>1, StayStep DEF GetConn, ThreadsOK
  <2>3. BackendsOK' /\ TableOK' /\ ProcessOK'
    BY <1>0, <1>1 DEF GetConn, BackendsOK, TableOK, ProcessOK, redis, kafka
  <2> QED BY <2>2, <2>3, PartsAreType
<1>2. CASE NoConn(t) \/ InsertError(t) \/ InsertUnconfirmed(t)
  <2>1. pc[t] \in Work /\ InsertFails(t)
    BY <1>2 DEF NoConn, InsertError, InsertUnconfirmed, Work
  <2>2. /\ KafkaOK' /\ ThreadsOK' /\ StepsInv'
        /\ metrics' \in [DOMAIN NoMetrics -> Nat]
    BY <2>1, FailureStep
  <2>3. produced' = produced
    BY <2>1 DEF InsertFails, Finish, NextRecord, Answer, kafka
  <2>4. BackendsOK' /\ ProcessOK'
    BY <1>0, <1>2, <2>2, <2>3
       DEF NoConn, InsertError, InsertUnconfirmed, BackendsOK, ProcessOK, redis
  <2>5. TableOK'
    <3>1. CASE NoConn(t) \/ InsertError(t)
      BY <1>0, <3>1 DEF NoConn, InsertError, TableOK, db
    <3>2. CASE InsertUnconfirmed(t)
      <4>1. snap[t] \in Snapshot
        BY <1>0 DEF ThreadsOK
      <4> QED BY <1>0, <3>2, <4>1, KeepStep DEF InsertUnconfirmed
    <3> QED BY <1>2, <3>1, <3>2
  <2> QED BY <2>2, <2>4, <2>5, PartsAreType
<1>3. CASE Insert(t)
  <2>1. pc[t] \in Work /\ Finish(t, "answered")
    BY <1>3 DEF Insert, Work
  <2>2. KafkaOK' /\ ThreadsOK' /\ StepsInv'
    BY <1>0, <2>1, FinishStep
  <2>3. produced' = produced
    BY <2>1 DEF Finish, NextRecord, Answer, kafka
  <2>4. BackendsOK' /\ ProcessOK'
    BY <1>0, <1>3, <2>3 DEF Insert, BackendsOK, ProcessOK, redis
  <2>5. snap[t] \in Snapshot
    BY <1>0 DEF ThreadsOK
  <2>6. TableOK'
    BY <1>0, <1>3, <2>5, KeepStep DEF Insert
  <2> QED BY <2>2, <2>4, <2>6, PartsAreType
<1> QED BY <1>1, <1>2, <1>3 DEF Persist

(* The consumer between two batches.                                       *)
LEMMA ConsumeStep ==
  ASSUME TypeInv, Connect \/ Poll \/ CloseConsumer \/ ConsumerDies
  PROVE  TypeInv'
<1> USE DEF TypeInv
<1>0. KafkaOK /\ ThreadsOK /\ BackendsOK /\ TableOK /\ ProcessOK
  BY TypeIsItsParts
<1>1. BackendsOK' /\ TableOK' /\ ProcessOK'
  <2>1. UNCHANGED <<redis, db, proc, metrics, crashes, produced>>
    BY DEF Connect, Poll, CloseConsumer, ConsumerDies
  <2> QED BY <1>0, <2>1 DEF BackendsOK, TableOK, ProcessOK, redis, db
<1>2. CASE Connect
  <2>1. KafkaOK'
    BY <1>0, <1>2, LogType DEF Connect, KafkaOK
  <2>2. ThreadsOK' /\ StepsInv'
    BY <1>0, <1>2, ConsumerStep DEF Connect, Work
  <2> QED BY <1>1, <2>1, <2>2, PartsAreType
<1>3. CASE Poll
  <2>1. PICK n \in 0 .. MaxPoll :
          /\ position + n <= produced
          /\ position' = position + n
          /\ pc' = [pc EXCEPT ![Stream] = IF n > 0 THEN "lrange" ELSE "poll"]
    BY <1>3 DEF Poll
  <2>2. n \in Nat /\ position \in Nat /\ produced \in Nat
    BY <1>0, ServiceAssumption, LogType DEF KafkaOK
  <2>3. KafkaOK'
    BY <1>0, <1>3, <2>1, <2>2 DEF Poll, KafkaOK
  <2>4. n > 0 => cursor' < position'
    BY <1>3, <2>1, <2>2 DEF Poll
  <2>5. CASE ~(n > 0)
    <3>1. ThreadsOK' /\ StepsInv'
      BY <1>0, <1>3, <2>1, <2>5, ConsumerStep DEF Poll, Work
    <3> QED BY <1>1, <2>3, <3>1, PartsAreType
  <2>6. CASE n > 0
    <3>1. ThreadsOK' /\ StepsInv'
      BY <1>0, <1>3, <2>1, <2>4, <2>6, ConsumerStep DEF Poll, Work
    <3> QED BY <1>1, <2>3, <3>1, PartsAreType
  <2> QED BY <2>5, <2>6
<1>4. CASE CloseConsumer \/ ConsumerDies
  <2>1. KafkaOK'
    <3>1. committed' \in {committed, position}
      BY <1>4 DEF CloseConsumer, ConsumerDies
    <3>2. UNCHANGED <<produced, position, cursor, attempted, skipped>>
      BY <1>4 DEF CloseConsumer, ConsumerDies
    <3> QED BY <1>0, <3>1, <3>2, LogType DEF KafkaOK
  <2>2. ThreadsOK' /\ StepsInv'
    BY <1>0, <1>4, ConsumerStep DEF CloseConsumer, ConsumerDies, Work
  <2> QED BY <1>1, <2>1, <2>2, PartsAreType
<1> QED BY <1>2, <1>3, <1>4

(* A request that gets in.                                                 *)
LEMMA PostStep ==
  ASSUME TypeInv, NEW h \in Http, Post(h)
  PROVE  TypeInv'
<1> USE DEF TypeInv
<1>0. KafkaOK /\ ThreadsOK /\ BackendsOK /\ TableOK /\ ProcessOK
  BY TypeIsItsParts
<1>1. h \in Threads /\ h # Stream /\ Stream \in Threads
  BY ServiceAssumption DEF Threads
<1>2. ThreadsOK' /\ StepsInv'
  BY <1>0, <1>1 DEF Post, ThreadsOK, StepsInv, Work, Threads, kafka
<1>3. KafkaOK' /\ BackendsOK' /\ TableOK' /\ ProcessOK'
  BY <1>0 DEF Post, KafkaOK, BackendsOK, TableOK, ProcessOK, redis, db, kafka
<1> QED BY <1>2, <1>3, PartsAreType

(* The end of a process leaves every thread where a new process finds it.  *)
LEMMA GoneStep ==
  ASSUME TypeInv, Gone, crashes' \in 0 .. MaxCrashes
  PROVE  TypeInv'
<1> USE DEF TypeInv
<1>0. KafkaOK /\ ThreadsOK /\ BackendsOK /\ TableOK /\ ProcessOK
  BY TypeIsItsParts
<1>1. Stream \in Threads /\ \A h \in Http : h \in Threads /\ h # Stream
  BY ServiceAssumption DEF Threads
<1>2. ThreadsOK' /\ StepsInv'
  BY <1>0, <1>1, NoSnapType DEF Gone, ThreadsOK, StepsInv, Work, Threads
<1>3. KafkaOK' /\ BackendsOK' /\ TableOK' /\ ProcessOK'
  BY <1>0 DEF Gone, KafkaOK, BackendsOK, TableOK, ProcessOK, redis, kafka
<1> QED BY <1>2, <1>3, PartsAreType

(* The process and the backends around the threads.                        *)
LEMMA AroundStep ==
  ASSUME TypeInv, Lifecycle \/ Sigterm \/ Crash \/ Environment
  PROVE  TypeInv'
<1> USE DEF TypeInv
<1>0. KafkaOK /\ ThreadsOK /\ BackendsOK /\ TableOK /\ ProcessOK
  BY TypeIsItsParts
<1>1. CASE Boot
  <2>1. NoMetrics \in [DOMAIN NoMetrics -> Nat]
    BY DEF NoMetrics
  <2>2. UNCHANGED <<redis, kafka, threads>>
    BY <1>1 DEF Boot
  <2>3. KafkaOK' /\ ThreadsOK' /\ BackendsOK' /\ StepsInv'
    BY <1>0, <2>2 DEF KafkaOK, ThreadsOK, BackendsOK, StepsInv, redis, kafka, threads
  <2>4. TableOK' /\ ProcessOK'
    BY <1>0, <1>1, <2>1 DEF Boot, TableOK, ProcessOK
  <2> QED BY <2>3, <2>4, PartsAreType
<1>2. CASE Sigterm \/ StopConsumer \/ ClosePool
  <2>1. UNCHANGED <<redis, kafka, threads>>
    BY <1>2 DEF Sigterm, StopConsumer, ClosePool
  <2>2. KafkaOK' /\ ThreadsOK' /\ BackendsOK' /\ StepsInv'
    BY <1>0, <2>1 DEF KafkaOK, ThreadsOK, BackendsOK, StepsInv, redis, kafka, threads
  <2>3. TableOK' /\ ProcessOK'
    BY <1>0, <1>2 DEF Sigterm, StopConsumer, ClosePool, TableOK, ProcessOK, db
  <2> QED BY <2>2, <2>3, PartsAreType
<1>3. CASE Exit \/ Crash
  <2>1. crashes' \in 0 .. MaxCrashes
    BY <1>0, <1>3, ServiceAssumption DEF Exit, Crash, ProcessOK
  <2> QED BY <1>3, <2>1, GoneStep DEF Exit, Crash
<1>4. CASE RedisDown \/ RedisUpAgain \/ Evict
  <2>1. UNCHANGED <<db, kafka, threads, proc, metrics, crashes>>
    BY <1>4 DEF RedisDown, RedisUpAgain, Evict
  <2>2. KafkaOK' /\ ThreadsOK' /\ TableOK' /\ ProcessOK' /\ StepsInv'
    BY <1>0, <2>1 DEF KafkaOK, ThreadsOK, TableOK, ProcessOK, StepsInv, db, kafka, threads
  <2>3. produced' = produced /\ remembered' = remembered /\ redisState' \in {"up", "refused", "silent"}
    BY <1>0, <1>4 DEF RedisDown, RedisUpAgain, Evict, kafka, BackendsOK
  <2>4. evictions' \in 0 .. MaxEvictions
    BY <1>0, <1>4, ServiceAssumption DEF RedisDown, RedisUpAgain, Evict, BackendsOK
  <2>5. /\ amounts' \in [User -> Seq(Tx)]
        /\ \A u \in User : Len(amounts'[u]) <= HistoryLen
        /\ devices' \in [User -> SUBSET Device]
    <3>1. <<>> \in Seq(Tx) /\ Len(<<>>) <= HistoryLen /\ {} \in SUBSET Device
      BY HistoryAssumption
    <3>2. CASE UNCHANGED <<amounts, devices>>
      BY <1>0, <3>2 DEF BackendsOK
    <3>3. CASE amounts' = [u \in User |-> <<>>] /\ devices' = [u \in User |-> {}]
      BY <3>1, <3>3
    <3>4. ASSUME NEW u \in User, amounts' = [amounts EXCEPT ![u] = <<>>], UNCHANGED devices
          PROVE  <2>5
      BY <1>0, <3>1, <3>4 DEF BackendsOK
    <3>5. ASSUME NEW u \in User, devices' = [devices EXCEPT ![u] = {}], UNCHANGED amounts
          PROVE  <2>5
      BY <1>0, <3>1, <3>5 DEF BackendsOK
    <3> QED BY <1>4, <3>2, <3>3, <3>4, <3>5 DEF RedisDown, RedisUpAgain, Evict
  <2>6. BackendsOK'
    BY <1>0, <2>3, <2>4, <2>5 DEF BackendsOK
  <2> QED BY <2>2, <2>6, PartsAreType
<1>5. CASE DbDown \/ DbUpAgain
  <2>1. UNCHANGED <<redis, kafka, threads, proc, metrics, crashes>>
    BY <1>5 DEF DbDown, DbUpAgain
  <2>2. KafkaOK' /\ ThreadsOK' /\ BackendsOK' /\ ProcessOK' /\ StepsInv'
    BY <1>0, <2>1 DEF KafkaOK, ThreadsOK, BackendsOK, ProcessOK, StepsInv, redis, kafka, threads
  <2>3. TableOK'
    BY <1>0, <1>5 DEF DbDown, DbUpAgain, TableOK
  <2> QED BY <2>2, <2>3, PartsAreType
<1>6. CASE Produce
  <2>1. UNCHANGED <<redis, db, threads, proc, metrics, crashes>>
    BY <1>6 DEF Produce
  <2>2. produced' = produced + 1 /\ produced' \in 0 .. Len(Log) /\ produced \in Nat
    BY <1>0, <1>6, LogType DEF Produce, KafkaOK
  <2>3. KafkaOK'
    BY <1>0, <1>6, <2>2, LogType DEF Produce, KafkaOK
  <2>4. BackendsOK'
    BY <1>0, <2>1, <2>2 DEF BackendsOK, redis
  <2>5. ThreadsOK' /\ TableOK' /\ ProcessOK' /\ StepsInv'
    BY <1>0, <1>6, <2>1 DEF Produce, ThreadsOK, TableOK, ProcessOK, StepsInv, db, threads
  <2> QED BY <2>3, <2>4, <2>5, PartsAreType
<1> QED BY <1>1, <1>2, <1>3, <1>4, <1>5, <1>6 DEF Lifecycle, Environment

LEMMA TypeStep == TypeInv /\ [Next]_vars => TypeInv'
<1> SUFFICES ASSUME TypeInv, [Next]_vars PROVE TypeInv'
  OBVIOUS
<1>1. CASE UNCHANGED vars
  BY <1>1 DEF vars, redis, db, kafka, threads, TypeInv, TypeOK, StepsInv, Work
<1>2. CASE Next
  BY <1>2, PostStep, ScoreStep, PersistStep, ConsumeStep, AroundStep DEF Next
<1> QED BY <1>1, <1>2

(* Type correctness: among the rest, a history never outgrows HISTORY_LEN, *)
(* the consumer never moves past the topic, nor commits past it.           *)
THEOREM TypeCorrect == Spec => []TypeOK
<1>1. TypeInv => TypeOK
  BY DEF TypeInv
<1> QED BY <1>1, TypeInit, TypeStep, PTL DEF Spec

-----------------------------------------------------------------------------
\* A thread that ends its transaction takes one of the steps where it holds nothing.
LEMMA FinishPc ==
  ASSUME NEW t \in Threads, NEW told, Finish(t, told)
  PROVE  \E p \in {"lrange", "poll", "done"} : pc' = [pc EXCEPT ![t] = p]
<1>1. CASE t = Stream
  BY <1>1 DEF Finish, NextRecord
<1>2. CASE t # Stream
  BY <1>2 DEF Finish, Answer
<1> QED BY <1>1, <1>2

PoolInv == used = {t \in Threads : pc[t] = "insert"}

\* A step that leaves its thread without a connection, and the set without it.
LEMMA PoolReleased ==
  ASSUME ThreadsOK, PoolInv, NEW t \in Threads, NEW p, p # "insert",
         pc' = [pc EXCEPT ![t] = p], used' = used \ {t}
  PROVE  PoolInv'
<1>1. \A o \in Threads : pc'[o] = IF o = t THEN p ELSE pc[o]
  BY DEF ThreadsOK
<1> QED BY <1>1 DEF PoolInv

LEMMA PoolKept ==
  ASSUME ThreadsOK, PoolInv, NEW t \in Threads, pc[t] # "insert", NEW p, p # "insert",
         pc' = [pc EXCEPT ![t] = p], used' = used
  PROVE  PoolInv'
<1>1. used' = used \ {t}
  BY DEF PoolInv
<1> QED BY <1>1, PoolReleased

LEMMA PoolStep == TypeInv /\ PoolInv /\ [Next]_vars => PoolInv'
<1> SUFFICES ASSUME TypeInv, PoolInv, [Next]_vars PROVE PoolInv'
  OBVIOUS
<1>0. ThreadsOK
  BY TypeParts DEF TypeInv
<1>1. CASE UNCHANGED vars
  BY <1>1 DEF vars, db, threads, PoolInv
<1>2. ASSUME NEW h \in Http, Post(h) PROVE PoolInv'
  <2>1. h \in Threads /\ pc[h] # "insert" /\ used' = used /\ pc' = [pc EXCEPT ![h] = "lrange"]
    BY <1>2 DEF Post, Threads, db
  <2> QED BY <1>0, <2>1, PoolKept
<1>3. ASSUME NEW t \in Threads, Score(t) PROVE PoolInv'
  <2>1. pc[t] # "insert" /\ used' = used
    BY <1>3 DEF Score, GetAmounts, GetDevices, Update, UpdateUnconfirmed, RedisError, db
  <2>2. PICK p \in {"smembers", "update", "getconn", "lrange", "poll", "done"} :
          pc' = [pc EXCEPT ![t] = p]
    BY <1>3, FinishPc
       DEF Score, GetAmounts, GetDevices, Update, UpdateUnconfirmed, RedisError, ScoreFails
  <2> QED BY <1>0, <2>1, <2>2, PoolKept
<1>4. ASSUME NEW t \in Threads, GetConn(t) PROVE PoolInv'
  <2>1. \A o \in Threads : pc'[o] = IF o = t THEN "insert" ELSE pc[o]
    BY <1>0, <1>4 DEF GetConn, ThreadsOK
  <2> QED BY <1>4, <2>1 DEF GetConn, PoolInv
<1>5. ASSUME NEW t \in Threads, NoConn(t) PROVE PoolInv'
  <2>1. pc[t] # "insert" /\ used' = used
    BY <1>5 DEF NoConn, db
  <2>2. PICK p \in {"lrange", "poll", "done"} : pc' = [pc EXCEPT ![t] = p]
    BY <1>5, FinishPc DEF NoConn, InsertFails
  <2> QED BY <1>0, <2>1, <2>2, PoolKept
<1>6. ASSUME NEW t \in Threads, Insert(t) \/ InsertError(t) \/ InsertUnconfirmed(t)
      PROVE  PoolInv'
  <2>1. used' = used \ {t}
    BY <1>6 DEF Insert, InsertError, InsertUnconfirmed
  <2>2. PICK p \in {"lrange", "poll", "done"} : pc' = [pc EXCEPT ![t] = p]
    BY <1>6, FinishPc DEF Insert, InsertError, InsertUnconfirmed, InsertFails
  <2> QED BY <1>0, <2>1, <2>2, PoolReleased
<1>7. CASE Connect \/ Poll \/ CloseConsumer \/ ConsumerDies
  <2>1. pc[Stream] # "insert" /\ used' = used /\ Stream \in Threads
    BY <1>7 DEF Connect, Poll, CloseConsumer, ConsumerDies, db, Threads
  <2>2. PICK p \in {"poll", "lrange", "closed"} : pc' = [pc EXCEPT ![Stream] = p]
    BY <1>7 DEF Connect, Poll, CloseConsumer, ConsumerDies
  <2> QED BY <1>0, <2>1, <2>2, PoolKept
<1>8. CASE Exit \/ Crash
  BY <1>8 DEF Exit, Crash, Gone, PoolInv
<1>9. CASE Boot \/ StopConsumer \/ ClosePool \/ Sigterm \/ Environment
  <2>1. UNCHANGED <<used, pc>>
    BY <1>9 DEF Boot, StopConsumer, ClosePool, Sigterm, Environment, RedisDown, RedisUpAgain,
                Evict, DbDown, DbUpAgain, Produce, db, threads
  <2> QED BY <2>1 DEF PoolInv
<1> QED BY <1>1, <1>2, <1>3, <1>4, <1>5, <1>6, <1>7, <1>8, <1>9 DEF Next, Persist, Lifecycle

(* No connection of the pool is ever lost: whatever raised, a connection   *)
(* that is out is out with a thread that is inserting (db.py:38-56).       *)
THEOREM PoolWhole == Spec => []PoolIsWhole
<1>1. Init => PoolInv
  BY DEF Init, PoolInv
<1>2. PoolInv => PoolIsWhole
  BY DEF PoolInv, PoolIsWhole
<1> QED BY <1>1, <1>2, TypeInit, TypeStep, PoolStep, PTL DEF Spec

-----------------------------------------------------------------------------
(* The rows of the table: only Keep writes them, and Keep keeps.           *)
Stands == \A x \in Tx : rows[x] # NoRow => rows'[x] = rows[x]

LEMMA KeepStands ==
  ASSUME TableOK, NEW x, NEW score, Keep(x, score)
  PROVE  Stands
BY DEF TableOK, Keep, Stands

(* The audit log is written once: no step of any thread, and no crash,     *)
(* changes the score that is kept for a transaction (db.py:47).            *)
THEOREM FirstStands == Spec => FirstScoreStands
<1>1. TypeInv /\ [Next]_vars => [Stands]_vars
  <2> SUFFICES ASSUME TypeInv, Next PROVE Stands
    OBVIOUS
  <2>0. TableOK
    BY TypeIsItsParts DEF TypeInv
  <2>1. ASSUME NEW t \in Threads, Insert(t) \/ InsertUnconfirmed(t) PROVE Stands
    BY <2>0, <2>1, KeepStands DEF Insert, InsertUnconfirmed
  <2>2. ASSUME NEW t \in Threads, Score(t) \/ GetConn(t) \/ NoConn(t) \/ InsertError(t)
        PROVE  rows' = rows
    BY <2>2 DEF Score, GetAmounts, GetDevices, Update, UpdateUnconfirmed, RedisError,
                GetConn, NoConn, InsertError, db
  <2>3. ASSUME NEW h \in Http, Post(h) PROVE rows' = rows
    BY <2>3 DEF Post, db
  <2>4. CASE Connect \/ Poll \/ CloseConsumer \/ ConsumerDies
    BY <2>4 DEF Connect, Poll, CloseConsumer, ConsumerDies, db, Stands
  <2>5. CASE Lifecycle \/ Sigterm \/ Crash
    BY <2>5 DEF Lifecycle, Boot, StopConsumer, ClosePool, Exit, Crash, Gone, Sigterm, db, Stands
  <2>6. CASE Environment
    BY <2>6 DEF Environment, RedisDown, RedisUpAgain, Evict, DbDown, DbUpAgain, Produce, db,
                Stands
  <2>7. rows' = rows => Stands
    BY DEF Stands
  <2> QED BY <2>1, <2>2, <2>3, <2>4, <2>5, <2>6, <2>7 DEF Next, Persist
<1>2. [Stands]_vars => [\A x \in Tx : rows[x] # NoRow => rows'[x] = rows[x]]_vars
  BY DEF Stands
<1> QED BY <1>1, <1>2, TypeInit, TypeStep, PTL DEF Spec, FirstScoreStands

-----------------------------------------------------------------------------
\* Every record below n has been worked on or passed over.
Done(n) == \A o \in 0 .. n - 1 : o \in attempted \cup skipped

(* Why a commit never runs ahead: where a commit can happen, the position  *)
(* is behind the work, and during the work the cursor is.                  *)
DoneInv ==
  /\ Done(committed)
  /\ pc[Stream] = "poll" => Done(position)
  /\ pc[Stream] \in Work => Done(cursor)

LEMMA DoneStep == TypeInv /\ DoneInv /\ [Next]_vars => DoneInv'
<1> SUFFICES ASSUME TypeInv, DoneInv, [Next]_vars PROVE DoneInv'
  OBVIOUS
<1>0. KafkaOK /\ ThreadsOK /\ StepsInv
  BY TypeParts DEF TypeInv
<1>00. /\ Stream \in Threads /\ \A h \in Http : h \in Threads /\ h # Stream
       /\ produced \in Nat /\ position \in Nat /\ cursor \in Nat /\ committed \in Int
  BY <1>0, ServiceAssumption, LogType DEF Threads, KafkaOK
<1> DEFINE Same == UNCHANGED <<committed, position, cursor, attempted, skipped>>
\* A step that leaves the offsets alone, and the consumer where it is or at work.
<1>1. ASSUME Same,
             \/ pc'[Stream] = pc[Stream]
             \/ pc'[Stream] \in {"connect", "closed"}
             \/ pc[Stream] \in Work /\ pc'[Stream] \in Work
      PROVE  DoneInv'
  BY <1>1 DEF DoneInv, Done, Work
<1>2. ASSUME NextRecord, pc[Stream] \in Work PROVE DoneInv'
  <2>1. cursor < position /\ Done(cursor) /\ Done(committed)
    BY <1>0, <1>2 DEF StepsInv, DoneInv
  <2>2. attempted' = attempted \cup {cursor} /\ UNCHANGED <<committed, position, skipped>>
    BY <1>2 DEF NextRecord
  <2>3. cursor' = cursor + 1
    BY <1>2 DEF NextRecord
  <2>4. Done(cursor)' /\ Done(committed)'
    BY <1>00, <2>1, <2>2, <2>3 DEF Done
  <2>5. pc'[Stream] = IF cursor + 1 < position THEN "lrange" ELSE "poll"
    BY <1>0, <1>00, <1>2 DEF NextRecord, ThreadsOK
  <2>6. pc'[Stream] = "poll" => position' = cursor'
    BY <1>00, <2>1, <2>2, <2>3, <2>5
  <2> QED BY <2>4, <2>6 DEF DoneInv
<1>3. ASSUME NEW h \in Http, NEW told, Answer(h, told) PROVE DoneInv'
  BY <1>0, <1>00, <1>1, <1>3 DEF Answer, kafka, ThreadsOK
<1>4. ASSUME NEW t \in Threads, NEW told, Finish(t, told), pc[t] \in Work PROVE DoneInv'
  BY <1>2, <1>3, <1>4 DEF Finish, Threads
<1>5. CASE UNCHANGED vars
  BY <1>1, <1>5 DEF vars, kafka, threads
<1>6. ASSUME NEW h \in Http, Post(h) PROVE DoneInv'
  BY <1>0, <1>00, <1>1, <1>6 DEF Post, kafka, ThreadsOK
<1>7. ASSUME NEW t \in Threads, GetAmounts(t) \/ GetDevices(t) \/ Update(t) \/ GetConn(t)
      PROVE  DoneInv'
  <2>1. pc[t] \in Work /\ Same
    BY <1>7 DEF GetAmounts, GetDevices, Update, GetConn, Work, kafka
  <2>2. PICK p \in Work : pc' = [pc EXCEPT ![t] = p]
    BY <1>7 DEF GetAmounts, GetDevices, Update, GetConn, Work
  <2>3. pc'[Stream] = IF t = Stream THEN p ELSE pc[Stream]
    BY <1>0, <1>00, <2>2 DEF ThreadsOK
  <2> QED BY <1>1, <2>1, <2>2, <2>3
<1>8. ASSUME NEW t \in Threads,
             \/ UpdateUnconfirmed(t) \/ RedisError(t) \/ NoConn(t)
             \/ Insert(t) \/ InsertError(t) \/ InsertUnconfirmed(t)
      PROVE  DoneInv'
  <2>1. pc[t] \in Work
    BY <1>8 DEF UpdateUnconfirmed, RedisError, NoConn, Insert, InsertError,
                InsertUnconfirmed, Work
  <2>2. PICK told \in {"answered", "error"} : Finish(t, told)
    BY <1>8 DEF UpdateUnconfirmed, RedisError, NoConn, Insert, InsertError,
                InsertUnconfirmed, ScoreFails, InsertFails
  <2> QED BY <1>4, <2>1, <2>2
<1>9. CASE Connect
  <2>1. /\ position' = IF committed = -1 THEN produced ELSE committed
        /\ skipped' = IF committed = -1 THEN skipped \cup (0 .. produced - 1) ELSE skipped
        /\ UNCHANGED <<committed, attempted>>
    BY <1>9 DEF Connect
  <2>2. pc'[Stream] = "poll"
    BY <1>0, <1>00, <1>9 DEF Connect, ThreadsOK
  <2>3. Done(committed)' /\ Done(position)'
    BY <1>00, <2>1 DEF DoneInv, Done
  <2> QED BY <2>2, <2>3 DEF DoneInv, Work
<1>10. CASE Poll
  <2>1. Done(position) /\ Done(committed)
    BY <1>10 DEF Poll, DoneInv
  <2>2. /\ committed' \in {committed, position} /\ cursor' = position
        /\ UNCHANGED <<attempted, skipped>>
    BY <1>10 DEF Poll
  <2>3. PICK n \in 0 .. MaxPoll :
          /\ position' = position + n
          /\ pc' = [pc EXCEPT ![Stream] = IF n > 0 THEN "lrange" ELSE "poll"]
    BY <1>10 DEF Poll
  <2>4. n \in Nat /\ pc'[Stream] = IF n > 0 THEN "lrange" ELSE "poll"
    BY <1>0, <1>00, <2>3, ServiceAssumption DEF ThreadsOK
  <2>5. Done(committed)' /\ Done(cursor)'
    BY <2>1, <2>2 DEF Done
  <2>6. pc'[Stream] = "poll" => position' = cursor'
    BY <1>00, <2>2, <2>3, <2>4
  <2> QED BY <2>5, <2>6 DEF DoneInv
<1>11. CASE CloseConsumer \/ ConsumerDies
  <2>1. /\ pc[Stream] = "poll" \/ committed' = committed
        /\ committed' \in {committed, position}
        /\ UNCHANGED <<attempted, skipped>>
    BY <1>11 DEF CloseConsumer, ConsumerDies
  <2>2. pc'[Stream] = "closed"
    BY <1>0, <1>00, <1>11 DEF CloseConsumer, ConsumerDies, ThreadsOK
  <2>3. Done(committed)'
    BY <2>1 DEF DoneInv, Done
  <2> QED BY <2>2, <2>3 DEF DoneInv, Work
<1>12. CASE Exit \/ Crash
  <2>1. Same /\ pc'[Stream] = "connect"
    BY <1>00, <1>12 DEF Exit, Crash, Gone, kafka
  <2> QED BY <1>1, <2>1
<1>13. CASE Boot \/ StopConsumer \/ ClosePool \/ Sigterm \/ Environment
  <2>1. Same /\ pc' = pc
    BY <1>13 DEF Boot, StopConsumer, ClosePool, Sigterm, Environment, RedisDown, RedisUpAgain,
                 Evict, DbDown, DbUpAgain, Produce, kafka, threads
  <2> QED BY <1>1, <2>1
<1> HIDE DEF Same
<1> QED BY <1>5, <1>6, <1>7, <1>8, <1>9, <1>10, <1>11, <1>12, <1>13
        DEF Next, Score, Persist, Lifecycle

(* A commit never covers a record nobody worked on, for any batch size and *)
(* whatever interrupts the batches (stream_consumer.py:44-68).             *)
THEOREM CommittedAttempted == Spec => []CommittedWasAttempted
<1>1. Init => DoneInv
  <2> SUFFICES ASSUME Init PROVE DoneInv
    OBVIOUS
  <2>1. pc[Stream] = "connect" /\ committed = -1
    BY DEF Init, Threads
  <2> QED BY <2>1 DEF DoneInv, Done, Work
<1>2. DoneInv => CommittedWasAttempted
  BY DEF DoneInv, Done, CommittedWasAttempted
<1> QED BY <1>1, <1>2, TypeInit, TypeStep, DoneStep, PTL DEF Spec

-----------------------------------------------------------------------------
\* The devices of the transactions in a list are all in a set.
Owned(list, set) == \A i \in DOMAIN list : DeviceOf[list[i]] \in set

(* Between its two reads a thread relies on the devices that are in Redis, *)
(* after them on those it has.                                             *)
ThreadCovered(t) ==
  /\ pc[t] = "smembers" => Owned(snap[t].amounts, devices[UserOf[TxOf(t)]])
  /\ pc[t] \in {"update", "getconn", "insert"} => Owned(snap[t].amounts, snap[t].devices)

HistoryCovered == \A u \in User : Owned(amounts[u], devices[u])

CoverInv == evictions = 0 => HistoryCovered /\ \A t \in Threads : ThreadCovered(t)

LEMMA PushOwned ==
  ASSUME NEW list \in Seq(Tx), NEW set, NEW a \in Tx, Owned(list, set)
  PROVE  Owned(LpushLtrim(list, a), set \cup {DeviceOf[a]})
<1> DEFINE new == LpushLtrim(list, a)
<1>1. HistoryLen \in Nat /\ HistoryLen > 0 /\ Len(list) \in Nat
  BY HistoryAssumption
<1>2. \A i \in DOMAIN new : new[i] = a \/ (i - 1 \in DOMAIN list /\ new[i] = list[i - 1])
  <2>1. CASE Len(list) < HistoryLen
    BY <1>1, <2>1 DEF LpushLtrim
  <2>2. CASE ~(Len(list) < HistoryLen)
    <3>1. /\ SubSeq(list, 1, HistoryLen - 1) \in Seq(Tx)
          /\ Len(SubSeq(list, 1, HistoryLen - 1)) = HistoryLen - 1
          /\ \A i \in 1 .. HistoryLen - 1 : SubSeq(list, 1, HistoryLen - 1)[i] = list[i]
      BY <1>1, <2>2
    <3>2. new = <<a>> \o SubSeq(list, 1, HistoryLen - 1)
      BY <2>2 DEF LpushLtrim
    <3> HIDE DEF new
    <3>3. /\ DOMAIN new = 1 .. HistoryLen /\ new[1] = a
          /\ \A i \in 2 .. HistoryLen : new[i] = list[i - 1]
      BY <1>1, <3>1, <3>2
    <3> QED BY <1>1, <2>2, <3>3
  <2> QED BY <2>1, <2>2
<1> QED BY <1>2 DEF Owned

LEMMA ReverseOwned ==
  ASSUME NEW list \in Seq(Tx), NEW set, Owned(list, set)
  PROVE  Owned(OldestFirst(list), set)
<1>1. /\ DOMAIN OldestFirst(list) = 1 .. Len(list) /\ DOMAIN list = 1 .. Len(list)
      /\ Len(list) \in Nat
      /\ \A i \in 1 .. Len(list) : OldestFirst(list)[i] = list[Len(list) - i + 1]
  BY OldestFirstIs
<1>2. \A i \in 1 .. Len(list) : Len(list) - i + 1 \in 1 .. Len(list)
  BY <1>1
<1> QED BY <1>1, <1>2 DEF Owned

\* An update covers what it adds.
LEMMA RememberCovers ==
  ASSUME KafkaOK, BackendsOK, StepsInv, NEW t \in Threads, pc[t] \in Work, Remember(t),
         HistoryCovered
  PROVE  HistoryCovered' /\ \A u \in User : devices[u] \subseteq devices'[u]
<1> DEFINE x == TxOf(t)
<1>1. x \in Tx /\ UserOf[x] \in User
  BY TxOfType, ServiceAssumption
<1>2. /\ amounts' = [amounts EXCEPT ![UserOf[x]] = LpushLtrim(amounts[UserOf[x]], x)]
      /\ devices' = [devices EXCEPT ![UserOf[x]] = devices[UserOf[x]] \cup {DeviceOf[x]}]
  BY DEF Remember
<1> HIDE DEF x
<1>3. \A u \in User :
        /\ amounts'[u] = IF u = UserOf[x] THEN LpushLtrim(amounts[u], x) ELSE amounts[u]
        /\ devices'[u] = IF u = UserOf[x] THEN devices[u] \cup {DeviceOf[x]} ELSE devices[u]
  BY <1>2 DEF BackendsOK
<1>4. \A u \in User : amounts[u] \in Seq(Tx) /\ Owned(amounts[u], devices[u])
  BY DEF BackendsOK, HistoryCovered
<1>5. ASSUME NEW u \in User PROVE Owned(amounts'[u], devices'[u])
  <2>1. CASE u = UserOf[x]
    <3>1. Owned(LpushLtrim(amounts[u], x), devices[u] \cup {DeviceOf[x]})
      BY <1>1, <1>4, PushOwned
    <3>2. /\ amounts'[u] = LpushLtrim(amounts[u], x)
          /\ devices'[u] = devices[u] \cup {DeviceOf[x]}
      BY <1>3, <2>1
    <3> QED BY <3>1, <3>2
  <2>2. CASE u # UserOf[x]
    <3>1. amounts'[u] = amounts[u] /\ devices'[u] = devices[u]
      BY <1>3, <2>2
    <3> QED BY <1>4, <3>1
  <2> QED BY <2>1, <2>2
<1>6. \A u \in User : devices[u] \subseteq devices'[u]
  BY <1>3
<1>7. HistoryCovered'
  BY <1>5 DEF HistoryCovered
<1> QED BY <1>6, <1>7

\* A thread that does not move stays covered while the devices only grow.
LEMMA IdleCovered ==
  ASSUME KafkaOK, StepsInv, NEW o \in Threads, ThreadCovered(o),
         \A u \in User : devices[u] \subseteq devices'[u],
         pc'[o] = pc[o], snap'[o] = snap[o], o = Stream => cursor' = cursor
  PROVE  ThreadCovered(o)'
<1>1. TxOf(o)' = TxOf(o)
  BY DEF TxOf
<1>2. pc[o] = "smembers" => UserOf[TxOf(o)] \in User
  BY TxOfType, ServiceAssumption DEF Work
<1> QED BY <1>1, <1>2 DEF ThreadCovered, Owned

\* The step of one thread: the others do not move, and it stays covered itself.
LEMMA OneMoves ==
  ASSUME KafkaOK, StepsInv, NEW t \in Threads, \A o \in Threads : ThreadCovered(o),
         \A u \in User : devices[u] \subseteq devices'[u],
         \A o \in Threads \ {t} : pc'[o] = pc[o] /\ snap'[o] = snap[o],
         t # Stream => cursor' = cursor,
         \/ ThreadCovered(t)'
         \/ pc'[t] \notin {"smembers", "update", "getconn", "insert"}
  PROVE  \A o \in Threads : ThreadCovered(o)'
<1>1. ASSUME NEW o \in Threads, o # t PROVE ThreadCovered(o)'
  BY <1>1, IdleCovered
<1>2. ThreadCovered(t)'
  BY DEF ThreadCovered
<1> QED BY <1>1, <1>2

LEMMA CoverStep == TypeInv /\ CoverInv /\ [Next]_vars => CoverInv'
<1> SUFFICES ASSUME TypeInv, CoverInv, [Next]_vars, evictions' = 0
             PROVE  HistoryCovered' /\ \A o \in Threads : ThreadCovered(o)'
  BY DEF CoverInv
<1>0. KafkaOK /\ ThreadsOK /\ StepsInv /\ BackendsOK
  BY TypeIsItsParts DEF TypeInv
<1>00. Stream \in Threads /\ \A h \in Http : h \in Threads /\ h # Stream
  BY ServiceAssumption DEF Threads
<1>c. evictions' = evictions => HistoryCovered /\ \A o \in Threads : ThreadCovered(o)
  BY DEF CoverInv
<1>k. amounts' = amounts /\ devices' = devices /\ HistoryCovered
      => HistoryCovered' /\ \A u \in User : devices[u] \subseteq devices'[u]
  BY DEF HistoryCovered, Owned
<1>1. CASE UNCHANGED vars
  <2>1. UNCHANGED <<amounts, devices, evictions, pc, snap, cursor>>
    BY <1>1 DEF vars, redis, threads, kafka
  <2> QED BY <1>0, <1>c, <1>k, <2>1, IdleCovered
<1>2. ASSUME NEW h \in Http, Post(h) PROVE HistoryCovered' /\ \A o \in Threads : ThreadCovered(o)'
  <2>1. /\ UNCHANGED <<amounts, devices, evictions, snap, cursor>>
        /\ pc' = [pc EXCEPT ![h] = "lrange"]
    BY <1>2 DEF Post, redis, kafka
  <2>2. /\ pc'[h] = "lrange"
        /\ \A o \in Threads \ {h} : pc'[o] = pc[o] /\ snap'[o] = snap[o]
    BY <1>0, <1>00, <2>1 DEF ThreadsOK
  <2> QED BY <1>0, <1>00, <1>c, <1>k, <2>1, <2>2, OneMoves
\* Ending a transaction leaves a thread with no history to cover.
<1>3. ASSUME NEW t \in Threads, NEW told, Finish(t, told),
             HistoryCovered', \A o \in Threads : ThreadCovered(o),
             \A u \in User : devices[u] \subseteq devices'[u]
      PROVE  \A o \in Threads : ThreadCovered(o)'
  <2>1. PICK p \in {"lrange", "poll", "done"} : pc' = [pc EXCEPT ![t] = p]
    BY <1>3, FinishPc
  <2>2. pc'[t] = p /\ \A o \in Threads \ {t} : pc'[o] = pc[o]
    BY <1>0, <2>1 DEF ThreadsOK
  <2>3. \A o \in Threads \ {t} : snap'[o] = snap[o]
    BY <1>0, <1>3 DEF Finish, NextRecord, Answer, ThreadsOK
  <2>4. t # Stream => cursor' = cursor
    BY <1>3 DEF Finish, Answer, kafka
  <2> QED BY <1>0, <1>3, <2>2, <2>3, <2>4, OneMoves
<1>4. ASSUME NEW t \in Threads, GetAmounts(t)
      PROVE  HistoryCovered' /\ \A o \in Threads : ThreadCovered(o)'
  <2> DEFINE u == UserOf[TxOf(t)]
  <2>1. /\ UNCHANGED <<amounts, devices, evictions, cursor>>
        /\ pc' = [pc EXCEPT ![t] = "smembers"] /\ pc[t] = "lrange"
        /\ snap' = [snap EXCEPT ![t].amounts = OldestFirst(amounts[u])]
    BY <1>4 DEF GetAmounts, redis, kafka
  <2>2. u \in User
    BY <1>0, <2>1, TxOfType, ServiceAssumption DEF Work
  <2>3. /\ pc'[t] = "smembers"
        /\ \A o \in Threads \ {t} : pc'[o] = pc[o] /\ snap'[o] = snap[o]
        /\ snap'[t].amounts = OldestFirst(amounts[u])
    <3> HIDE DEF u
    <3>1. snap[t] \in Snapshot
      BY <1>0 DEF ThreadsOK
    <3> QED BY <1>0, <2>1, <3>1 DEF ThreadsOK, Snapshot
  <2>4. TxOf(t)' = TxOf(t)
    BY <2>1 DEF TxOf
  <2>5. Owned(OldestFirst(amounts[u]), devices[u])
    BY <1>0, <1>c, <2>1, <2>2, ReverseOwned DEF HistoryCovered, BackendsOK
  <2>6. ThreadCovered(t)'
    BY <2>1, <2>3, <2>4, <2>5 DEF ThreadCovered, Owned
  <2> QED BY <1>0, <1>c, <1>k, <2>1, <2>3, <2>6, OneMoves
<1>5. ASSUME NEW t \in Threads, GetDevices(t)
      PROVE  HistoryCovered' /\ \A o \in Threads : ThreadCovered(o)'
  <2> DEFINE u == UserOf[TxOf(t)]
  <2>1. /\ UNCHANGED <<amounts, devices, evictions, cursor>>
        /\ pc' = [pc EXCEPT ![t] = "update"] /\ pc[t] = "smembers"
        /\ snap' = [snap EXCEPT ![t].devices = devices[u]]
    BY <1>5 DEF GetDevices, redis, kafka
  <2>2. /\ pc'[t] = "update"
        /\ \A o \in Threads \ {t} : pc'[o] = pc[o] /\ snap'[o] = snap[o]
        /\ snap'[t].amounts = snap[t].amounts /\ snap'[t].devices = devices[u]
    <3> HIDE DEF u
    <3>1. snap[t] \in Snapshot
      BY <1>0 DEF ThreadsOK
    <3> QED BY <1>0, <2>1, <3>1 DEF ThreadsOK, Snapshot
  <2>3. ThreadCovered(t)'
    BY <1>c, <2>1, <2>2 DEF ThreadCovered, Owned
  <2> QED BY <1>0, <1>c, <1>k, <2>1, <2>2, <2>3, OneMoves
<1>6. ASSUME NEW t \in Threads, Update(t)
      PROVE  HistoryCovered' /\ \A o \in Threads : ThreadCovered(o)'
  <2>1. /\ UNCHANGED <<evictions, cursor, snap>> /\ Remember(t)
        /\ pc' = [pc EXCEPT ![t] = "getconn"] /\ pc[t] = "update"
    BY <1>6 DEF Update, kafka
  <2>2. HistoryCovered' /\ \A u \in User : devices[u] \subseteq devices'[u]
    BY <1>0, <1>c, <2>1, RememberCovers DEF Work
  <2>3. /\ pc'[t] = "getconn"
        /\ \A o \in Threads \ {t} : pc'[o] = pc[o] /\ snap'[o] = snap[o]
    BY <1>0, <2>1 DEF ThreadsOK
  <2>4. ThreadCovered(t)'
    BY <1>c, <2>1, <2>3 DEF ThreadCovered, Owned
  <2> QED BY <1>0, <1>c, <2>1, <2>2, <2>3, <2>4, OneMoves
<1>7. ASSUME NEW t \in Threads, UpdateUnconfirmed(t)
      PROVE  HistoryCovered' /\ \A o \in Threads : ThreadCovered(o)'
  <2>1. evictions' = evictions /\ Remember(t) /\ pc[t] \in Work /\ Finish(t, "error")
    BY <1>7 DEF UpdateUnconfirmed, ScoreFails, Work
  <2>2. HistoryCovered' /\ \A u \in User : devices[u] \subseteq devices'[u]
    BY <1>0, <1>c, <2>1, RememberCovers
  <2> QED BY <1>3, <1>c, <2>1, <2>2
<1>8. ASSUME NEW t \in Threads,
             RedisError(t) \/ NoConn(t) \/ Insert(t) \/ InsertError(t) \/ InsertUnconfirmed(t)
      PROVE  HistoryCovered' /\ \A o \in Threads : ThreadCovered(o)'
  <2>1. UNCHANGED <<amounts, devices, evictions>>
    BY <1>8 DEF RedisError, NoConn, Insert, InsertError, InsertUnconfirmed, redis
  <2>2. PICK told \in {"answered", "error"} : Finish(t, told)
    BY <1>8 DEF RedisError, NoConn, Insert, InsertError, InsertUnconfirmed,
                ScoreFails, InsertFails
  <2> QED BY <1>3, <1>c, <1>k, <2>1, <2>2
<1>9. ASSUME NEW t \in Threads, GetConn(t)
      PROVE  HistoryCovered' /\ \A o \in Threads : ThreadCovered(o)'
  <2>1. /\ UNCHANGED <<amounts, devices, evictions, cursor, snap>>
        /\ pc' = [pc EXCEPT ![t] = "insert"] /\ pc[t] = "getconn"
    BY <1>9 DEF GetConn, redis, kafka
  <2>2. /\ pc'[t] = "insert"
        /\ \A o \in Threads \ {t} : pc'[o] = pc[o] /\ snap'[o] = snap[o]
    BY <1>0, <2>1 DEF ThreadsOK
  <2>3. ThreadCovered(t)'
    BY <1>c, <2>1, <2>2 DEF ThreadCovered, Owned
  <2> QED BY <1>0, <1>c, <1>k, <2>1, <2>2, <2>3, OneMoves
<1>10. CASE Connect \/ Poll \/ CloseConsumer \/ ConsumerDies
  <2>1. UNCHANGED <<amounts, devices, evictions, snap>>
    BY <1>10 DEF Connect, Poll, CloseConsumer, ConsumerDies, redis
  <2>2. PICK p \in {"poll", "lrange", "closed"} : pc' = [pc EXCEPT ![Stream] = p]
    BY <1>10 DEF Connect, Poll, CloseConsumer, ConsumerDies
  <2>3. /\ pc'[Stream] = p
        /\ \A o \in Threads \ {Stream} : pc'[o] = pc[o] /\ snap'[o] = snap[o]
    BY <1>0, <1>00, <2>1, <2>2 DEF ThreadsOK
  <2> QED BY <1>0, <1>00, <1>c, <1>k, <2>1, <2>3, OneMoves
<1>11. CASE Exit \/ Crash
  <2>1. /\ UNCHANGED <<amounts, devices, evictions>>
        /\ pc' = [t \in Threads |-> IF t = Stream THEN "connect"
                                    ELSE IF pc[t] = "idle" THEN "idle" ELSE "done"]
    BY <1>11 DEF Exit, Crash, Gone, redis
  <2>2. \A o \in Threads : pc'[o] \notin {"smembers", "update", "getconn", "insert"}
    BY <2>1
  <2> QED BY <1>c, <1>k, <2>1, <2>2 DEF ThreadCovered
<1>12. CASE RedisUpAgain \/ Evict
  <2>1. evictions' = evictions
    BY <1>0, <1>12, ServiceAssumption DEF RedisUpAgain, Evict, BackendsOK
  <2>2. UNCHANGED <<amounts, devices, pc, snap, cursor>>
    BY <1>0, <1>12, <2>1, ServiceAssumption
       DEF RedisUpAgain, Evict, BackendsOK, threads, kafka
  <2> QED BY <1>0, <1>c, <1>k, <2>1, <2>2, IdleCovered
<1>13. CASE Boot \/ StopConsumer \/ ClosePool \/ Sigterm \/ RedisDown \/ DbDown \/ DbUpAgain \/ Produce
  <2>1. UNCHANGED <<amounts, devices, evictions, pc, snap, cursor>>
    BY <1>13 DEF Boot, StopConsumer, ClosePool, Sigterm, RedisDown, DbDown, DbUpAgain, Produce,
                 redis, kafka, threads
  <2> QED BY <1>0, <1>c, <1>k, <2>1, IdleCovered
<1> QED BY <1>1, <1>2, <1>4, <1>5, <1>6, <1>7, <1>8, <1>9, <1>10, <1>11, <1>12, <1>13
        DEF Next, Score, Persist, Lifecycle, Environment

(* Two round trips without a lock are enough: for any number of requests   *)
(* and any log, and as long as Redis drops no key, the devices a score     *)
(* sees include the device of every transaction it counts, because the     *)
(* amounts are read first and both keys are written together.              *)
THEOREM DevicesCover == Spec => []DevicesCoverAmounts
<1>1. Init => CoverInv
  <2> SUFFICES ASSUME Init PROVE CoverInv
    OBVIOUS
  <2>1. HistoryCovered
    BY DEF Init, HistoryCovered, Owned
  <2>2. \A t \in Threads : pc[t] \in {"connect", "idle"}
    BY DEF Init
  <2> QED BY <2>1, <2>2 DEF CoverInv, ThreadCovered
<1>2. CoverInv => DevicesCoverAmounts
  BY DEF CoverInv, ThreadCovered, Owned, DevicesCoverAmounts
<1> QED BY <1>1, <1>2, TypeInit, TypeStep, CoverStep, PTL DEF Spec

-----------------------------------------------------------------------------
\* The requests this process answered without a row to show for it.
Unrecorded == {h \in Http : outcome[h] = "answered" /\ rows[Body[h]] = NoRow}

(* A new process starts its counters at zero, so a dead one must leave     *)
(* nothing behind to count, and no thread that could still answer.         *)
CountInv ==
  /\ Cardinality(Unrecorded) <= metrics.insert_failures
  /\ proc = "down" => /\ \A t \in Threads : pc[t] \notin Work
                      /\ \A h \in Http : outcome[h] # "answered"

LEMMA UnrecordedFinite == IsFiniteSet(Unrecorded) /\ Cardinality(Unrecorded) \in Nat
<1>1. Unrecorded \in SUBSET Http
  BY DEF Unrecorded
<1> QED BY <1>1, ServiceAssumption, FS_Subset, FS_CardinalityType

LEMMA CountField ==
  ASSUME metrics \in [DOMAIN NoMetrics -> Nat], NEW f \in DOMAIN NoMetrics, Count(f)
  PROVE  /\ f = "insert_failures" => metrics'.insert_failures = metrics.insert_failures + 1
         /\ f # "insert_failures" => metrics'.insert_failures = metrics.insert_failures
BY MetricFields DEF Count

\* No request joins, and the counter does not go down.
LEMMA NoneJoins ==
  ASSUME metrics \in [DOMAIN NoMetrics -> Nat], metrics' \in [DOMAIN NoMetrics -> Nat],
         Cardinality(Unrecorded) <= metrics.insert_failures,
         Unrecorded' \subseteq Unrecorded,
         metrics'.insert_failures >= metrics.insert_failures
  PROVE  Cardinality(Unrecorded') <= metrics'.insert_failures
<1>1. metrics.insert_failures \in Nat /\ metrics'.insert_failures \in Nat
  BY MetricFields
<1>2. Cardinality(Unrecorded') <= Cardinality(Unrecorded) /\ Cardinality(Unrecorded') \in Nat
  BY UnrecordedFinite, FS_Subset, FS_CardinalityType
<1> QED BY <1>1, <1>2, UnrecordedFinite

\* One request joins, and is counted.
LEMMA OneJoins ==
  ASSUME metrics \in [DOMAIN NoMetrics -> Nat], NEW h,
         Cardinality(Unrecorded) <= metrics.insert_failures,
         Unrecorded' \subseteq Unrecorded \cup {h},
         metrics'.insert_failures = metrics.insert_failures + 1
  PROVE  Cardinality(Unrecorded') <= metrics'.insert_failures
<1>1. metrics.insert_failures \in Nat
  BY MetricFields
<1>2. /\ IsFiniteSet(Unrecorded \cup {h})
      /\ Cardinality(Unrecorded \cup {h}) <= Cardinality(Unrecorded) + 1
      /\ Cardinality(Unrecorded \cup {h}) \in Nat
  <2>1. /\ IsFiniteSet(Unrecorded \cup {h})
        /\ Cardinality(Unrecorded \cup {h})
             = IF h \in Unrecorded THEN Cardinality(Unrecorded) ELSE Cardinality(Unrecorded) + 1
    BY UnrecordedFinite, FS_AddElement
  <2> QED BY <2>1, UnrecordedFinite
<1>3. Cardinality(Unrecorded') <= Cardinality(Unrecorded \cup {h}) /\ Cardinality(Unrecorded') \in Nat
  BY <1>2, FS_Subset, FS_CardinalityType
<1> QED BY <1>1, <1>2, <1>3, UnrecordedFinite

LEMMA CountStep == TypeInv /\ TypeInv' /\ CountInv /\ [Next]_vars => CountInv'
<1> SUFFICES ASSUME TypeInv, TypeInv', CountInv, [Next]_vars PROVE CountInv'
  OBVIOUS
<1>0. /\ KafkaOK /\ ThreadsOK /\ StepsInv /\ TableOK
      /\ metrics \in [DOMAIN NoMetrics -> Nat] /\ metrics' \in [DOMAIN NoMetrics -> Nat]
      /\ metrics.insert_failures \in Nat
  BY TypeIsItsParts, MetricFields DEF TypeInv, TypeOK
<1>00. /\ Stream \in Threads /\ \A h \in Http : h \in Threads /\ h # Stream
       /\ \A h \in Http : Body[h] \in Tx
  BY ServiceAssumption DEF Threads
\* A step of a live process that answers nobody.
<1>1. ASSUME proc' # "down", outcome' = outcome, Stands,
             metrics'.insert_failures >= metrics.insert_failures
      PROVE  CountInv'
  <2>1. Unrecorded' \subseteq Unrecorded
    BY <1>00, <1>1 DEF Stands, Unrecorded
  <2>2. Cardinality(Unrecorded') <= metrics'.insert_failures
    BY <1>0, <1>1, <2>1, NoneJoins DEF CountInv
  <2>3. Cardinality(Unrecorded)' <= metrics'.insert_failures
    BY <2>2
  <2> QED BY <1>1, <2>3 DEF CountInv
<1>2. rows' = rows => Stands
  BY DEF Stands
<1>3. ASSUME NEW t \in Threads, pc[t] \in Work, proc' = proc PROVE proc' # "down"
  BY <1>3 DEF CountInv
<1>4. CASE UNCHANGED vars
  <2>1. UNCHANGED <<rows, pc, outcome, proc, metrics>>
    BY <1>4 DEF vars, db, threads
  <2>2. Unrecorded' = Unrecorded
    BY <2>1 DEF Unrecorded
  <2> QED BY <2>1, <2>2 DEF CountInv
<1>5. ASSUME NEW h \in Http, Post(h) PROVE CountInv'
  <2>1. proc' # "down" /\ UNCHANGED <<outcome, rows, metrics>>
    BY <1>5 DEF Post, db
  <2> QED BY <1>0, <1>1, <1>2, <2>1
<1>6. ASSUME NEW t \in Threads, GetAmounts(t) \/ GetDevices(t) \/ Update(t) \/ GetConn(t)
      PROVE  CountInv'
  <2>1. pc[t] \in Work /\ UNCHANGED <<outcome, rows, proc>>
    BY <1>6 DEF GetAmounts, GetDevices, Update, GetConn, Work, db
  <2>2. metrics'.insert_failures = metrics.insert_failures
    <3>1. CASE Update(t)
      BY <1>0, <3>1, CountField, MetricFields DEF Update
    <3> QED BY <1>6, <3>1 DEF GetAmounts, GetDevices, GetConn
  <2> QED BY <1>0, <1>1, <1>2, <1>3, <2>1, <2>2
<1>7. ASSUME NEW t \in Threads, UpdateUnconfirmed(t) \/ RedisError(t) PROVE CountInv'
  <2>1. pc[t] \in Work /\ UNCHANGED <<rows, proc>> /\ ScoreFails(t)
    BY <1>7 DEF UpdateUnconfirmed, RedisError, Work, db
  <2>2. metrics'.insert_failures = metrics.insert_failures
    BY <1>0, <2>1, CountField, MetricFields DEF ScoreFails
  <2>3. outcome' = outcome \/ outcome' = [outcome EXCEPT ![t] = "error"]
    BY <2>1 DEF ScoreFails, Finish, NextRecord, Answer
  <2>4. Unrecorded' \subseteq Unrecorded
    BY <1>0, <2>1, <2>3 DEF Unrecorded, ThreadsOK
  <2>5. Cardinality(Unrecorded') <= metrics'.insert_failures
    BY <1>0, <2>2, <2>4, NoneJoins DEF CountInv
  <2>6. Cardinality(Unrecorded)' <= metrics'.insert_failures
    BY <2>5
  <2> QED BY <1>3, <2>1, <2>6 DEF CountInv
<1>8. ASSUME NEW t \in Threads, NoConn(t) \/ InsertError(t) \/ InsertUnconfirmed(t)
      PROVE  CountInv'
  <2>1. pc[t] \in Work /\ proc' = proc /\ InsertFails(t)
    BY <1>8 DEF NoConn, InsertError, InsertUnconfirmed, Work
  <2>2. Stands
    BY <1>0, <1>2, <1>8, KeepStands DEF NoConn, InsertError, InsertUnconfirmed, db
  <2>3. CASE t = Stream
    <3>1. outcome' = outcome
      BY <2>1, <2>3 DEF InsertFails, Finish, NextRecord
    <3>2. metrics'.insert_failures = metrics.insert_failures
      BY <1>0, <2>1, <2>3, CountField, MetricFields DEF InsertFails
    <3> QED BY <1>0, <1>1, <1>3, <2>1, <2>2, <3>1, <3>2
  <2>4. CASE t # Stream
    <3>1. outcome' = [outcome EXCEPT ![t] = "answered"]
      BY <2>1, <2>4 DEF InsertFails, Finish, Answer
    <3>2. metrics'.insert_failures = metrics.insert_failures + 1
      BY <1>0, <2>1, <2>4, CountField, MetricFields DEF InsertFails
    <3>3. Unrecorded' \subseteq Unrecorded \cup {t}
      BY <1>0, <1>00, <2>2, <3>1 DEF Unrecorded, Stands, ThreadsOK
    <3>4. Cardinality(Unrecorded') <= metrics'.insert_failures
      BY <1>0, <3>2, <3>3, OneJoins DEF CountInv
    <3>5. Cardinality(Unrecorded)' <= metrics'.insert_failures
      BY <3>4
    <3> QED BY <1>3, <2>1, <3>5 DEF CountInv
  <2> QED BY <2>3, <2>4
\* An answer after a commit has a row.
<1>9. ASSUME NEW t \in Threads, Insert(t) PROVE CountInv'
  <2>1. pc[t] \in Work /\ UNCHANGED <<proc, metrics>> /\ Keep(TxOf(t), snap[t])
    BY <1>9 DEF Insert, Work
  <2>2. Stands
    BY <1>0, <2>1, KeepStands
  <2>3. TxOf(t) \in Tx /\ snap[t] \in Snapshot
    BY <1>0, <2>1, TxOfType DEF ThreadsOK
  <2>4. rows'[TxOf(t)] # NoRow
    BY <1>0, <2>1, <2>3, ServiceAssumption DEF TableOK, Keep
  <2>5. CASE t = Stream
    <3>1. outcome' = outcome
      BY <1>9, <2>5 DEF Insert, Finish, NextRecord
    <3> QED BY <1>0, <1>1, <1>3, <2>1, <2>2, <3>1
  <2>6. CASE t # Stream
    <3>1. outcome' = [outcome EXCEPT ![t] = "answered"] /\ TxOf(t) = Body[t]
      BY <1>9, <2>6 DEF Insert, Finish, Answer, TxOf
    <3>2. Unrecorded' \subseteq Unrecorded
      BY <1>0, <1>00, <2>2, <2>4, <3>1 DEF Unrecorded, Stands, ThreadsOK
    <3>3. Cardinality(Unrecorded') <= metrics'.insert_failures
      BY <1>0, <2>1, <3>2, NoneJoins DEF CountInv
    <3>4. Cardinality(Unrecorded)' <= metrics'.insert_failures
      BY <3>3
    <3> QED BY <1>3, <2>1, <3>4 DEF CountInv
  <2> QED BY <2>5, <2>6
<1>10. CASE Connect \/ Poll \/ CloseConsumer \/ ConsumerDies
  <2>1. proc' # "down" /\ UNCHANGED <<outcome, rows, metrics>>
    BY <1>10 DEF Connect, Poll, CloseConsumer, ConsumerDies, db
  <2> QED BY <1>0, <1>1, <1>2, <2>1
<1>11. CASE Exit \/ Crash
  <2>1. /\ pc' = [t \in Threads |-> IF t = Stream THEN "connect"
                                    ELSE IF pc[t] = "idle" THEN "idle" ELSE "done"]
        /\ outcome' = [h \in Http |-> IF pc[h] = "idle" THEN "none" ELSE "past"]
        /\ UNCHANGED metrics
    BY <1>11 DEF Exit, Crash, Gone
  <2>2. Unrecorded' = {} /\ \A h \in Http : outcome'[h] # "answered"
    BY <2>1 DEF Unrecorded
  <2>3. Cardinality(Unrecorded)' = 0
    BY <2>2, FS_EmptySet
  <2>4. \A t \in Threads : pc'[t] \notin Work
    BY <2>1 DEF Work
  <2> QED BY <1>0, <2>1, <2>2, <2>3, <2>4 DEF CountInv
<1>12. CASE Boot
  <2>1. proc' = "up" /\ outcome' = outcome /\ proc = "down" /\ metrics' = NoMetrics
    BY <1>12 DEF Boot, threads
  <2>2. Unrecorded' = {}
    BY <2>1 DEF CountInv, Unrecorded
  <2>3. Cardinality(Unrecorded)' = 0
    BY <2>2, FS_EmptySet
  <2>4. metrics'.insert_failures = 0
    BY <2>1 DEF NoMetrics
  <2> QED BY <2>1, <2>3, <2>4 DEF CountInv
<1>13. CASE Sigterm \/ StopConsumer \/ ClosePool
  <2>1. proc' # "down" /\ UNCHANGED <<outcome, rows, metrics>>
    BY <1>13 DEF Sigterm, StopConsumer, ClosePool, db, threads
  <2> QED BY <1>0, <1>1, <1>2, <2>1
<1>14. CASE Environment
  <2>1. UNCHANGED <<rows, pc, outcome, proc, metrics>>
    BY <1>14 DEF Environment, RedisDown, RedisUpAgain, Evict, DbDown, DbUpAgain, Produce,
                 db, threads
  <2>2. Unrecorded' = Unrecorded
    BY <2>1 DEF Unrecorded
  <2> QED BY <2>1, <2>2 DEF CountInv
<1> QED BY <1>4, <1>5, <1>6, <1>7, <1>8, <1>9, <1>10, <1>11, <1>12, <1>13, <1>14
        DEF Next, Score, Persist, Lifecycle

(* No request is answered in silence: of any number of requests, those     *)
(* answered without a row are at most fraud_db_insert_failures_total,      *)
(* across outages, lost confirmations and restarts (api/main.py:75-82).    *)
THEOREM UnrecordedCounted == Spec => []UnrecordedIsCounted
<1>1. Init => CountInv
  <2> SUFFICES ASSUME Init PROVE CountInv
    OBVIOUS
  <2>1. /\ \A t \in Threads : pc[t] \notin Work
        /\ \A h \in Http : outcome[h] = "none"
        /\ metrics.insert_failures = 0
    BY DEF Init, Work, NoMetrics
  <2>2. Unrecorded = {}
    BY <2>1 DEF Unrecorded
  <2> QED BY <2>1, <2>2, FS_EmptySet DEF CountInv
<1>2. CountInv => UnrecordedIsCounted
  BY DEF CountInv, UnrecordedIsCounted, Unrecorded
<1> QED BY <1>1, <1>2, TypeInit, TypeStep, CountStep, PTL DEF Spec
-----------------------------------------------------------------------------
(* What keeps a transaction out of its own history: it comes once, and     *)
(* nothing makes a consumer start before the end of its work.              *)
EachOnce ==
  /\ \A i, j \in 1 .. Len(Log) : Log[i] = Log[j] => i = j
  /\ \A h, k \in Http : Body[h] = Body[k] => h = k
  /\ \A h \in Http, i \in 1 .. Len(Log) : Body[h] # Log[i]

NoRedelivery == Faults \cap {"crash", "broker", "slow", "hang"} = {}

\* Between processes the position is committed and nothing is in hand.
OffsetInv ==
  /\ pc[Stream] \in {"poll", "closed"} => cursor = position
  /\ pc[Stream] = "closed" => committed = position
  /\ pc[Stream] = "connect" => cursor = position /\ committed \in {-1, position}
  /\ proc = "closing" => pc[Stream] = "closed"

\* Threads go on: no transaction comes back to where it was not yet remembered.
Remembered == {"getconn", "insert"}
GoesOn ==
  /\ cursor' >= cursor
  /\ cursor' = cursor /\ pc[Stream] \in Remembered => pc'[Stream] \in Remembered
  /\ \A h \in Http : pc[h] \in Remembered \cup {"done"} => pc'[h] \in Remembered \cup {"done"}

LEMMA OffsetStep ==
  ASSUME NoRedelivery
  PROVE  TypeInv /\ OffsetInv /\ [Next]_vars => OffsetInv' /\ GoesOn
<1> SUFFICES ASSUME TypeInv, OffsetInv, [Next]_vars PROVE OffsetInv' /\ GoesOn
  OBVIOUS
<1>0. KafkaOK /\ ThreadsOK /\ StepsInv
  BY TypeParts DEF TypeInv
<1>00. /\ Stream \in Threads /\ \A h \in Http : h \in Threads /\ h # Stream
       /\ produced \in Nat /\ position \in Nat /\ cursor \in Nat /\ committed \in Int
       /\ committed <= produced /\ position <= produced
  BY <1>0, ServiceAssumption, LogType DEF Threads, KafkaOK
<1> DEFINE Same == UNCHANGED <<committed, position, cursor, proc>>
\* A step of one thread that is not in the consumer's loop.
<1>1. ASSUME Same, UNCHANGED pc PROVE OffsetInv' /\ GoesOn
  BY <1>00, <1>1 DEF OffsetInv, GoesOn
<1>2. ASSUME Same, NEW t \in Threads, pc[t] \in Work \cup {"idle"},
             NEW p \in Work \cup {"done"}, pc' = [pc EXCEPT ![t] = p],
             t = Stream => p \in Work, pc[t] = "idle" => t # Stream,
             pc[t] \in Remembered => p \in Remembered \cup {"done"}
      PROVE  OffsetInv' /\ GoesOn
  <2>1. \A o \in Threads : pc'[o] = IF o = t THEN p ELSE pc[o]
    BY <1>0, <1>2 DEF ThreadsOK
  <2>2. CASE t = Stream
    <3>1. pc[Stream] \in Work /\ pc'[Stream] \in Work /\ \A h \in Http : pc'[h] = pc[h]
      BY <1>00, <1>2, <2>1, <2>2
    <3>2. pc[Stream] \in Remembered => pc'[Stream] \in Remembered
      BY <1>00, <1>2, <2>1, <2>2 DEF Work, Remembered
    <3> QED BY <1>00, <1>2, <2>2, <3>1, <3>2 DEF OffsetInv, GoesOn, Work
  <2>3. CASE t # Stream
    <3>1. pc'[Stream] = pc[Stream] /\ \A h \in Http : pc'[h] = IF h = t THEN p ELSE pc[h]
      BY <1>00, <2>1, <2>3
    <3>2. pc[t] \notin {"done"}
      BY <1>2 DEF Work
    <3> QED BY <1>00, <1>2, <3>1, <3>2 DEF OffsetInv, GoesOn
  <2> QED BY <2>2, <2>3
<1>3. ASSUME NEW t \in Threads, NEW told, Finish(t, told), pc[t] \in Work, UNCHANGED proc
      PROVE  OffsetInv' /\ GoesOn
  <2>1. CASE t = Stream
    <3>1. cursor < position
      BY <1>0, <1>3, <2>1 DEF StepsInv
    <3>2. /\ cursor' = cursor + 1 /\ UNCHANGED <<committed, position>>
          /\ pc' = [pc EXCEPT ![Stream] = IF cursor + 1 < position THEN "lrange" ELSE "poll"]
      BY <1>3, <2>1 DEF Finish, NextRecord
    <3>3. /\ pc'[Stream] = IF cursor + 1 < position THEN "lrange" ELSE "poll"
          /\ \A h \in Http : pc'[h] = pc[h]
      BY <1>0, <1>00, <3>2 DEF ThreadsOK
    <3>4. proc # "closing"
      BY <1>3, <2>1 DEF OffsetInv, Work
    <3> QED BY <1>00, <1>3, <3>1, <3>2, <3>3, <3>4 DEF OffsetInv, GoesOn
  <2>2. CASE t # Stream
    <3>1. pc' = [pc EXCEPT ![t] = "done"] /\ UNCHANGED <<committed, position, cursor>>
      BY <1>3, <2>2 DEF Finish, Answer, kafka
    <3> QED BY <1>2, <1>3, <2>2, <3>1 DEF Work
  <2> QED BY <2>1, <2>2
<1>4. CASE UNCHANGED vars
  BY <1>1, <1>4 DEF vars, kafka, threads
<1>5. ASSUME NEW h \in Http, Post(h) PROVE OffsetInv' /\ GoesOn
  BY <1>00, <1>2, <1>5 DEF Post, kafka, Work, Remembered
<1>6. ASSUME NEW t \in Threads, GetAmounts(t) \/ GetDevices(t) \/ Update(t) \/ GetConn(t)
      PROVE  OffsetInv' /\ GoesOn
  <2>1. pc[t] \in Work /\ Same
    BY <1>6 DEF GetAmounts, GetDevices, Update, GetConn, Work, kafka
  <2>2. PICK p \in Work : /\ pc' = [pc EXCEPT ![t] = p]
                          /\ pc[t] \in Remembered => p \in Remembered
    BY <1>6 DEF GetAmounts, GetDevices, Update, GetConn, Work, Remembered
  <2>3. pc[t] # "idle"
    BY <2>1 DEF Work
  <2> QED BY <1>2, <2>1, <2>2, <2>3
<1>7. ASSUME NEW t \in Threads,
             \/ UpdateUnconfirmed(t) \/ RedisError(t) \/ NoConn(t)
             \/ Insert(t) \/ InsertError(t) \/ InsertUnconfirmed(t)
      PROVE  OffsetInv' /\ GoesOn
  <2>1. pc[t] \in Work /\ UNCHANGED proc
    BY <1>7 DEF UpdateUnconfirmed, RedisError, NoConn, Insert, InsertError,
                InsertUnconfirmed, Work
  <2>2. PICK told \in {"answered", "error"} : Finish(t, told)
    BY <1>7 DEF UpdateUnconfirmed, RedisError, NoConn, Insert, InsertError,
                InsertUnconfirmed, ScoreFails, InsertFails
  <2> QED BY <1>3, <2>1, <2>2
<1>8. CASE Connect
  <2>1. /\ position' = IF committed = -1 THEN produced ELSE committed
        /\ cursor' = position' /\ UNCHANGED <<committed, proc>> /\ pc[Stream] = "connect"
    BY <1>8 DEF Connect
  <2>2. pc'[Stream] = "poll" /\ \A h \in Http : pc'[h] = pc[h]
    BY <1>0, <1>00, <1>8 DEF Connect, ThreadsOK
  <2>3. position' >= cursor
    BY <1>00, <2>1 DEF OffsetInv
  <2>4. proc # "closing"
    BY <2>1 DEF OffsetInv
  <2> QED BY <1>00, <2>1, <2>2, <2>3, <2>4 DEF OffsetInv, GoesOn, Remembered
<1>9. CASE Poll
  <2>1. pc[Stream] = "poll" /\ cursor' = position /\ UNCHANGED proc
    BY <1>9 DEF Poll
  <2>2. PICK n \in 0 .. MaxPoll :
          /\ position' = position + n
          /\ pc' = [pc EXCEPT ![Stream] = IF n > 0 THEN "lrange" ELSE "poll"]
    BY <1>9 DEF Poll
  <2>3. /\ n \in Nat /\ pc'[Stream] = IF n > 0 THEN "lrange" ELSE "poll"
        /\ \A h \in Http : pc'[h] = pc[h]
    BY <1>0, <1>00, <2>2, ServiceAssumption DEF ThreadsOK
  <2>4. cursor = position /\ proc # "closing"
    BY <2>1 DEF OffsetInv
  <2> QED BY <1>00, <2>1, <2>2, <2>3, <2>4 DEF OffsetInv, GoesOn, Remembered
<1>10. CASE CloseConsumer \/ ConsumerDies
  <2>1. CloseConsumer
    BY <1>10 DEF ConsumerDies, NoRedelivery
  <2>2. /\ pc[Stream] = "poll" /\ committed' = position
        /\ UNCHANGED <<position, cursor, proc>>
    BY <2>1 DEF CloseConsumer
  <2>3. pc'[Stream] = "closed" /\ \A h \in Http : pc'[h] = pc[h]
    BY <1>0, <1>00, <2>1 DEF CloseConsumer, ThreadsOK
  <2> QED BY <1>00, <2>2, <2>3 DEF OffsetInv, GoesOn, Remembered
<1>11. CASE Exit \/ Crash
  <2>1. Exit
    BY <1>11 DEF Crash, NoRedelivery
  <2>2. /\ UNCHANGED <<committed, position, cursor>> /\ proc' = "down"
        /\ pc' = [t \in Threads |-> IF t = Stream THEN "connect"
                                    ELSE IF pc[t] = "idle" THEN "idle" ELSE "done"]
    BY <2>1 DEF Exit, Gone, kafka
  <2>3. pc[Stream] = "closed"
    BY <2>1 DEF Exit, OffsetInv
  <2>4. /\ pc'[Stream] = "connect"
        /\ \A h \in Http : pc'[h] = IF pc[h] = "idle" THEN "idle" ELSE "done"
    BY <1>00, <2>2
  <2> QED BY <1>00, <2>2, <2>3, <2>4 DEF OffsetInv, GoesOn, Remembered
<1>12. CASE ClosePool
  <2>1. UNCHANGED <<committed, position, cursor, pc>> /\ pc[Stream] = "closed"
    BY <1>12 DEF ClosePool, NoRedelivery, kafka, threads
  <2> QED BY <1>00, <2>1 DEF OffsetInv, GoesOn
<1>13. CASE Boot \/ StopConsumer \/ Sigterm
  <2>1. UNCHANGED <<committed, position, cursor, pc>> /\ proc' # "closing"
    BY <1>13 DEF Boot, StopConsumer, Sigterm, kafka, threads
  <2> QED BY <1>00, <2>1 DEF OffsetInv, GoesOn
<1>14. CASE Environment
  <2>1. Same /\ UNCHANGED pc
    BY <1>14 DEF Environment, RedisDown, RedisUpAgain, Evict, DbDown, DbUpAgain, Produce,
                 kafka, threads
  <2> QED BY <1>1, <2>1
<1> HIDE DEF Same
<1> QED BY <1>4, <1>5, <1>6, <1>7, <1>8, <1>9, <1>10, <1>11, <1>12, <1>13, <1>14
        DEF Next, Score, Persist, Lifecycle

\* The transactions that may be in a history: those whose thread is past its update.
Past ==
  {Log[o + 1] : o \in {o \in 0 .. Len(Log) - 1 :
                         o < cursor \/ (o = cursor /\ pc[Stream] \in Remembered)}}
  \cup {Body[h] : h \in {h \in Http : pc[h] \in Remembered \cup {"done"}}}

HistoryPast == \A u \in User : \A i \in DOMAIN amounts[u] : amounts[u][i] \in Past

LEMMA PastGrows ==
  ASSUME KafkaOK, GoesOn, cursor' \in Nat
  PROVE  Past \subseteq Past'
<1>1. ASSUME NEW h \in Http, pc[h] \in Remembered \cup {"done"} PROVE Body[h] \in Past'
  BY <1>1 DEF GoesOn, Past
<1>2. ASSUME NEW o \in 0 .. Len(Log) - 1, o < cursor \/ (o = cursor /\ pc[Stream] \in Remembered)
      PROVE  Log[o + 1] \in Past'
  <2>1. o < cursor' \/ (o = cursor' /\ pc'[Stream] \in Remembered)
    BY <1>2, LogType DEF KafkaOK, GoesOn
  <2> QED BY <2>1 DEF Past
<1> QED BY <1>1, <1>2 DEF Past

\* A transaction that comes once is not past while its thread has yet to read.
LEMMA NotYetPast ==
  ASSUME EachOnce, KafkaOK, StepsInv, NEW t \in Threads, pc[t] = "lrange"
  PROVE  TxOf(t) \notin Past
<1>1. CASE t = Stream
  <2>1. cursor + 1 \in 1 .. Len(Log) /\ TxOf(t) = Log[cursor + 1]
    BY <1>1, LogType DEF KafkaOK, StepsInv, Work, TxOf
  <2>2. ASSUME NEW o \in 0 .. Len(Log) - 1, TxOf(t) = Log[o + 1] PROVE o = cursor
    <3>1. o + 1 \in 1 .. Len(Log) /\ Log[o + 1] = Log[cursor + 1]
      BY <2>1, <2>2, LogType
    <3>2. o + 1 = cursor + 1
      BY <2>1, <3>1 DEF EachOnce
    <3> QED BY <3>2, LogType DEF KafkaOK
  <2>3. pc[Stream] \notin Remembered /\ ~(cursor < cursor)
    BY <1>1, LogType DEF Remembered, KafkaOK
  <2>4. \A h \in Http : TxOf(t) # Body[h]
    BY <2>1 DEF EachOnce
  <2> QED BY <2>2, <2>3, <2>4 DEF Past
<1>2. CASE t # Stream
  <2>1. t \in Http /\ TxOf(t) = Body[t]
    BY <1>2 DEF Threads, TxOf
  <2>2. \A o \in 0 .. Len(Log) - 1 : Body[t] # Log[o + 1]
    BY <2>1, LogType DEF EachOnce
  <2>3. \A h \in Http : Body[t] = Body[h] => h = t
    BY <2>1 DEF EachOnce
  <2> QED BY <2>1, <2>2, <2>3 DEF Past, Remembered
<1> QED BY <1>1, <1>2

\* A thread that has just updated is past.
LEMMA UpdatedIsPast ==
  ASSUME KafkaOK, StepsInv, NEW t \in Threads, pc[t] \in Work,
         IF t = Stream THEN cursor' > cursor \/ (cursor' = cursor /\ pc'[t] \in Remembered)
                       ELSE pc'[t] \in Remembered \cup {"done"},
         cursor' \in Nat
  PROVE  TxOf(t) \in Past'
<1>1. CASE t = Stream
  <2>1. cursor \in 0 .. Len(Log) - 1 /\ TxOf(t) = Log[cursor + 1]
    BY <1>1, LogType DEF KafkaOK, StepsInv, TxOf
  <2>2. cursor < cursor' \/ (cursor = cursor' /\ pc'[Stream] \in Remembered)
    BY <1>1, <2>1
  <2> QED BY <2>1, <2>2 DEF Past
<1>2. CASE t # Stream
  <2>1. t \in Http /\ TxOf(t) = Body[t]
    BY <1>2 DEF Threads, TxOf
  <2> QED BY <1>2, <2>1 DEF Past
<1> QED BY <1>1, <1>2

\* A push adds the transaction pushed and nothing else.
LEMMA PushAdds ==
  ASSUME NEW list \in Seq(Tx), NEW a \in Tx, NEW i \in DOMAIN LpushLtrim(list, a)
  PROVE  \/ LpushLtrim(list, a)[i] = a
         \/ \E j \in DOMAIN list : LpushLtrim(list, a)[i] = list[j]
<1>1. HistoryLen \in Nat /\ HistoryLen > 0 /\ Len(list) \in Nat
  BY HistoryAssumption
<1>2. CASE Len(list) < HistoryLen
  <2>1. LpushLtrim(list, a) = <<a>> \o list
    BY <1>2 DEF LpushLtrim
  <2>2. CASE i = 1
    BY <2>1, <2>2
  <2>3. CASE i # 1
    <3>1. i - 1 \in DOMAIN list /\ LpushLtrim(list, a)[i] = list[i - 1]
      BY <1>1, <2>1, <2>3
    <3> QED BY <3>1
  <2> QED BY <2>2, <2>3
<1>3. CASE ~(Len(list) < HistoryLen)
  <2> DEFINE kept == SubSeq(list, 1, HistoryLen - 1)
  <2>1. /\ kept \in Seq(Tx) /\ Len(kept) = HistoryLen - 1
        /\ \A j \in 1 .. HistoryLen - 1 : kept[j] = list[j]
    BY <1>1, <1>3
  <2>2. LpushLtrim(list, a) = <<a>> \o kept
    BY <1>3 DEF LpushLtrim
  <2> HIDE DEF kept
  <2>3. CASE i = 1
    BY <2>1, <2>2, <2>3
  <2>4. CASE i # 1
    <3>1. i - 1 \in 1 .. HistoryLen - 1 /\ LpushLtrim(list, a)[i] = kept[i - 1]
      BY <1>1, <2>1, <2>2, <2>4
    <3>2. i - 1 \in DOMAIN list
      BY <1>1, <1>3, <3>1
    <3> QED BY <2>1, <3>1, <3>2
  <2> QED BY <2>3, <2>4
<1> QED BY <1>2, <1>3

LEMMA RememberPast ==
  ASSUME KafkaOK, BackendsOK, StepsInv, HistoryPast, Past \subseteq Past',
         NEW t \in Threads, pc[t] \in Work, Remember(t), TxOf(t) \in Past'
  PROVE  HistoryPast'
<1> DEFINE x == TxOf(t)
<1>1. x \in Tx /\ UserOf[x] \in User /\ x \in Past'
  BY TxOfType, ServiceAssumption
<1>2. amounts' = [amounts EXCEPT ![UserOf[x]] = LpushLtrim(amounts[UserOf[x]], x)]
  BY DEF Remember
<1> HIDE DEF x
<1>3. SUFFICES ASSUME NEW u \in User, NEW i \in DOMAIN amounts'[u]
               PROVE  amounts'[u][i] \in Past'
  BY DEF HistoryPast
<1>4. amounts[u] \in Seq(Tx) /\ \A j \in DOMAIN amounts[u] : amounts[u][j] \in Past'
  BY DEF BackendsOK, HistoryPast
<1>5. CASE u = UserOf[x]
  <2>1. amounts'[u] = LpushLtrim(amounts[u], x)
    BY <1>1, <1>2, <1>5 DEF BackendsOK
  <2>2. i \in DOMAIN LpushLtrim(amounts[u], x)
    BY <2>1
  <2>3. \/ LpushLtrim(amounts[u], x)[i] = x
        \/ \E j \in DOMAIN amounts[u] : LpushLtrim(amounts[u], x)[i] = amounts[u][j]
    BY <1>1, <1>4, <2>2, PushAdds
  <2> QED BY <1>1, <1>4, <2>1, <2>3
<1>6. CASE u # UserOf[x]
  <2>1. amounts'[u] = amounts[u]
    BY <1>2, <1>6 DEF BackendsOK
  <2> QED BY <1>4, <2>1
<1> QED BY <1>5, <1>6

\* What one thread has read does not hold what it is scoring.
ThreadApart(t) ==
  pc[t] \in {"smembers", "update", "getconn", "insert"} =>
    \A i \in DOMAIN snap[t].amounts : snap[t].amounts[i] # TxOf(t)

LEMMA ReadApart ==
  ASSUME NEW list \in Seq(Tx), NEW x, \A i \in DOMAIN list : list[i] # x
  PROVE  \A i \in DOMAIN OldestFirst(list) : OldestFirst(list)[i] # x
<1>1. /\ DOMAIN OldestFirst(list) = 1 .. Len(list) /\ DOMAIN list = 1 .. Len(list)
      /\ Len(list) \in Nat
      /\ \A i \in 1 .. Len(list) : OldestFirst(list)[i] = list[Len(list) - i + 1]
  BY OldestFirstIs
<1>2. \A i \in 1 .. Len(list) : Len(list) - i + 1 \in 1 .. Len(list)
  BY <1>1
<1> QED BY <1>1, <1>2

\* The step of one thread: the others do not move, and it stays apart itself.
LEMMA OneStaysApart ==
  ASSUME NEW t \in Threads, \A o \in Threads : ThreadApart(o),
         \A o \in Threads \ {t} : pc'[o] = pc[o] /\ snap'[o] = snap[o],
         t # Stream => cursor' = cursor,
         \/ ThreadApart(t)'
         \/ pc'[t] \notin {"smembers", "update", "getconn", "insert"}
  PROVE  \A o \in Threads : ThreadApart(o)'
<1>1. ASSUME NEW o \in Threads, o # t PROVE ThreadApart(o)'
  <2>1. TxOf(o)' = TxOf(o)
    BY <1>1 DEF TxOf
  <2> QED BY <1>1, <2>1 DEF ThreadApart
<1>2. ThreadApart(t)'
  BY DEF ThreadApart
<1> QED BY <1>1, <1>2

ApartInv == HistoryPast /\ \A t \in Threads : ThreadApart(t)

LEMMA ApartStep ==
  ASSUME EachOnce, NoRedelivery
  PROVE  TypeInv /\ TypeInv' /\ OffsetInv /\ ApartInv /\ [Next]_vars => ApartInv'
<1> SUFFICES ASSUME TypeInv, TypeInv', OffsetInv, ApartInv, [Next]_vars
             PROVE  HistoryPast' /\ \A o \in Threads : ThreadApart(o)'
  BY DEF ApartInv
<1>0. KafkaOK /\ ThreadsOK /\ StepsInv /\ BackendsOK
  BY TypeIsItsParts DEF TypeInv
<1>00. Stream \in Threads /\ \A h \in Http : h \in Threads /\ h # Stream
  BY ServiceAssumption DEF Threads
<1>g. GoesOn /\ cursor' \in Nat /\ cursor \in Nat
  <2>1. KafkaOK'
    BY TypeIsItsParts DEF TypeInv, TypeOK, KafkaOK
  <2> QED BY <1>0, <2>1, OffsetStep, LogType DEF KafkaOK
<1>p. Past \subseteq Past'
  BY <1>0, <1>g, PastGrows
<1>a. HistoryPast /\ \A o \in Threads : ThreadApart(o)
  BY DEF ApartInv
<1>k. amounts' = amounts => HistoryPast'
  BY <1>a, <1>p DEF HistoryPast
<1>1. CASE UNCHANGED <<amounts, pc, snap, cursor>>
  <2>1. \A o \in Threads : TxOf(o)' = TxOf(o)
    BY <1>1 DEF TxOf
  <2> QED BY <1>1, <1>a, <1>k, <2>1 DEF ThreadApart
\* Ending a transaction leaves a thread that has read nothing.
<1>2. ASSUME NEW t \in Threads, NEW told, Finish(t, told), HistoryPast'
      PROVE  \A o \in Threads : ThreadApart(o)'
  <2>1. PICK p \in {"lrange", "poll", "done"} : pc' = [pc EXCEPT ![t] = p]
    BY <1>2, FinishPc
  <2>2. pc'[t] = p /\ \A o \in Threads \ {t} : pc'[o] = pc[o]
    BY <1>0, <2>1 DEF ThreadsOK
  <2>3. \A o \in Threads \ {t} : snap'[o] = snap[o]
    BY <1>0, <1>2 DEF Finish, NextRecord, Answer, ThreadsOK
  <2>4. t # Stream => cursor' = cursor
    BY <1>2 DEF Finish, Answer, kafka
  <2> QED BY <1>a, <2>2, <2>3, <2>4, OneStaysApart
<1>3. ASSUME NEW h \in Http, Post(h) PROVE HistoryPast' /\ \A o \in Threads : ThreadApart(o)'
  <2>1. UNCHANGED <<amounts, snap, cursor>> /\ pc' = [pc EXCEPT ![h] = "lrange"]
    BY <1>3 DEF Post, redis, kafka
  <2>2. pc'[h] = "lrange" /\ \A o \in Threads \ {h} : pc'[o] = pc[o] /\ snap'[o] = snap[o]
    BY <1>0, <1>00, <2>1 DEF ThreadsOK
  <2> QED BY <1>00, <1>a, <1>k, <2>1, <2>2, OneStaysApart
<1>4. ASSUME NEW t \in Threads, GetAmounts(t)
      PROVE  HistoryPast' /\ \A o \in Threads : ThreadApart(o)'
  <2> DEFINE u == UserOf[TxOf(t)]
  <2>1. /\ UNCHANGED <<amounts, cursor>>
        /\ pc' = [pc EXCEPT ![t] = "smembers"] /\ pc[t] = "lrange"
        /\ snap' = [snap EXCEPT ![t].amounts = OldestFirst(amounts[u])]
    BY <1>4 DEF GetAmounts, redis, kafka
  <2>2. u \in User /\ amounts[u] \in Seq(Tx)
    BY <1>0, <2>1, TxOfType, ServiceAssumption DEF Work, BackendsOK
  <2>3. TxOf(t) \notin Past
    BY <1>0, <2>1, NotYetPast
  <2>4. \A i \in DOMAIN amounts[u] : amounts[u][i] # TxOf(t)
    BY <1>a, <2>2, <2>3 DEF HistoryPast
  <2>5. \A i \in DOMAIN OldestFirst(amounts[u]) : OldestFirst(amounts[u])[i] # TxOf(t)
    BY <2>2, <2>4, ReadApart
  <2>6. /\ \A o \in Threads \ {t} : pc'[o] = pc[o] /\ snap'[o] = snap[o]
        /\ snap'[t].amounts = OldestFirst(amounts[u])
    <3> HIDE DEF u
    <3>1. snap[t] \in Snapshot
      BY <1>0 DEF ThreadsOK
    <3> QED BY <1>0, <2>1, <3>1 DEF ThreadsOK, Snapshot
  <2>7. TxOf(t)' = TxOf(t)
    BY <2>1 DEF TxOf
  <2>8. ThreadApart(t)'
    BY <2>5, <2>6, <2>7 DEF ThreadApart
  <2> QED BY <1>a, <1>k, <2>1, <2>6, <2>8, OneStaysApart
\* The steps between the first read and the insert leave the amounts read alone.
<1>5. ASSUME NEW t \in Threads, GetDevices(t) \/ Update(t) \/ GetConn(t), HistoryPast'
      PROVE  \A o \in Threads : ThreadApart(o)'
  <2>1. PICK p \in {"update", "getconn", "insert"} :
          pc' = [pc EXCEPT ![t] = p] /\ pc[t] \in {"smembers", "update", "getconn"}
    BY <1>5 DEF GetDevices, Update, GetConn
  <2>2. UNCHANGED cursor
    BY <1>5 DEF GetDevices, Update, GetConn, kafka
  <2>3. /\ \A o \in Threads \ {t} : pc'[o] = pc[o] /\ snap'[o] = snap[o]
        /\ snap'[t].amounts = snap[t].amounts
    <3>1. \A o \in Threads : snap[o] \in Snapshot
      BY <1>0 DEF ThreadsOK
    <3>2. snap' = snap \/ \E d : snap' = [snap EXCEPT ![t].devices = d]
      BY <1>5 DEF GetDevices, Update, GetConn
    <3> QED BY <1>0, <2>1, <3>1, <3>2 DEF ThreadsOK, Snapshot
  <2>4. TxOf(t)' = TxOf(t)
    BY <2>2 DEF TxOf
  <2>5. ThreadApart(t)'
    BY <1>a, <2>1, <2>3, <2>4 DEF ThreadApart
  <2> QED BY <1>a, <2>2, <2>3, <2>5, OneStaysApart
<1>6. ASSUME NEW t \in Threads, GetDevices(t) \/ GetConn(t) PROVE HistoryPast'
  BY <1>6, <1>k DEF GetDevices, GetConn, redis
<1>7. ASSUME NEW t \in Threads, Update(t) PROVE HistoryPast'
  <2>1. /\ Remember(t) /\ pc[t] \in Work /\ cursor' = cursor
        /\ pc' = [pc EXCEPT ![t] = "getconn"]
    BY <1>7 DEF Update, Work, kafka
  <2>2. pc'[t] \in Remembered
    BY <1>0, <2>1 DEF ThreadsOK, Remembered
  <2>3. TxOf(t) \in Past'
    BY <1>0, <1>g, <2>1, <2>2, UpdatedIsPast
  <2> QED BY <1>0, <1>a, <1>p, <2>1, <2>3, RememberPast
<1>8. ASSUME NEW t \in Threads, UpdateUnconfirmed(t) PROVE HistoryPast'
  <2>1. Remember(t) /\ pc[t] \in Work /\ Finish(t, "error")
    BY <1>8 DEF UpdateUnconfirmed, ScoreFails, Work
  <2>2. CASE t = Stream
    <3>1. cursor' > cursor
      BY <1>g, <2>1, <2>2 DEF Finish, NextRecord
    <3>2. TxOf(t) \in Past'
      BY <1>0, <1>g, <2>1, <2>2, <3>1, UpdatedIsPast
    <3> QED BY <1>0, <1>a, <1>p, <2>1, <3>2, RememberPast
  <2>3. CASE t # Stream
    <3>1. pc'[t] = "done"
      BY <1>0, <2>1, <2>3 DEF Finish, Answer, ThreadsOK
    <3>2. TxOf(t) \in Past'
      BY <1>0, <1>g, <2>1, <2>3, <3>1, UpdatedIsPast
    <3> QED BY <1>0, <1>a, <1>p, <2>1, <3>2, RememberPast
  <2> QED BY <2>2, <2>3
<1>9. ASSUME NEW t \in Threads,
             \/ UpdateUnconfirmed(t) \/ RedisError(t) \/ NoConn(t)
             \/ Insert(t) \/ InsertError(t) \/ InsertUnconfirmed(t)
      PROVE  HistoryPast' /\ \A o \in Threads : ThreadApart(o)'
  <2>1. PICK told \in {"answered", "error"} : Finish(t, told)
    BY <1>9 DEF UpdateUnconfirmed, RedisError, NoConn, Insert, InsertError,
                InsertUnconfirmed, ScoreFails, InsertFails
  <2>2. ~UpdateUnconfirmed(t) => amounts' = amounts
    BY <1>9 DEF RedisError, NoConn, Insert, InsertError, InsertUnconfirmed, redis
  <2> QED BY <1>2, <1>8, <1>k, <2>1, <2>2
<1>10. CASE Connect \/ Poll \/ CloseConsumer \/ ConsumerDies
  <2>1. UNCHANGED <<amounts, snap>>
    BY <1>10 DEF Connect, Poll, CloseConsumer, ConsumerDies, redis
  <2>2. PICK p \in {"poll", "lrange", "closed"} : pc' = [pc EXCEPT ![Stream] = p]
    BY <1>10 DEF Connect, Poll, CloseConsumer, ConsumerDies
  <2>3. /\ pc'[Stream] = p
        /\ \A o \in Threads \ {Stream} : pc'[o] = pc[o] /\ snap'[o] = snap[o]
    BY <1>0, <1>00, <2>1, <2>2 DEF ThreadsOK
  <2> QED BY <1>00, <1>a, <1>k, <2>1, <2>3, OneStaysApart
<1>11. CASE Exit \/ Crash
  <2>1. /\ UNCHANGED amounts
        /\ pc' = [t \in Threads |-> IF t = Stream THEN "connect"
                                    ELSE IF pc[t] = "idle" THEN "idle" ELSE "done"]
    BY <1>11 DEF Exit, Crash, Gone, redis
  <2>2. \A o \in Threads : pc'[o] \notin {"smembers", "update", "getconn", "insert"}
    BY <2>1
  <2> QED BY <1>k, <2>1, <2>2 DEF ThreadApart
\* Redis drops histories, and adds nothing to them.
<1>12. CASE RedisUpAgain \/ Evict
  <2>1. UNCHANGED <<pc, snap, cursor>>
    BY <1>12 DEF RedisUpAgain, Evict, threads, kafka
  <2>2. \A o \in Threads : TxOf(o)' = TxOf(o)
    BY <2>1 DEF TxOf
  <2>3. \A u \in User : amounts'[u] = amounts[u] \/ amounts'[u] = <<>>
    BY <1>0, <1>12 DEF RedisUpAgain, Evict, BackendsOK
  <2>4. HistoryPast'
    <3> SUFFICES ASSUME NEW u \in User, NEW i \in DOMAIN amounts'[u]
                 PROVE  amounts'[u][i] \in Past'
      BY DEF HistoryPast
    <3>1. amounts'[u] = amounts[u]
      BY <2>3
    <3> QED BY <1>a, <1>p, <3>1 DEF HistoryPast
  <2> QED BY <1>a, <2>1, <2>2, <2>4 DEF ThreadApart
<1>13. CASE \/ Boot \/ StopConsumer \/ ClosePool \/ Sigterm \/ RedisDown
            \/ DbDown \/ DbUpAgain \/ Produce \/ UNCHANGED vars
  <2>1. UNCHANGED <<amounts, pc, snap, cursor>>
    BY <1>13 DEF Boot, StopConsumer, ClosePool, Sigterm, RedisDown, DbDown, DbUpAgain, Produce,
                 vars, redis, kafka, threads
  <2> QED BY <1>1, <2>1
<1> QED BY <1>3, <1>4, <1>5, <1>6, <1>7, <1>9, <1>10, <1>11, <1>12, <1>13
        DEF Next, Score, Persist, Lifecycle, Environment

(* A transaction never sees itself, for any number of requests, any log    *)
(* and any size of poll, through outages of Redis and Postgres, lost       *)
(* confirmations, evictions and clean restarts, if each transaction comes  *)
(* once and the consumer is never cut off from its last commit: no crash,  *)
(* no error in poll and no batch that outlives the join (model.py:64-66).  *)
THEOREM NeverItself ==
  ASSUME EachOnce, NoRedelivery
  PROVE  Spec => []NeverSeesItself
<1>1. Init => OffsetInv /\ ApartInv
  <2> SUFFICES ASSUME Init PROVE OffsetInv /\ ApartInv
    OBVIOUS
  <2>1. /\ pc[Stream] = "connect" /\ cursor = position /\ committed = -1 /\ proc = "down"
        /\ \A t \in Threads : pc[t] \in {"connect", "idle"}
        /\ \A u \in User : amounts[u] = <<>>
    BY DEF Init, Threads
  <2> QED BY <2>1 DEF OffsetInv, ApartInv, HistoryPast, ThreadApart
<1>2. ApartInv => NeverSeesItself
  BY DEF ApartInv, ThreadApart, NeverSeesItself
<1>3. TypeInv /\ OffsetInv /\ ApartInv /\ [Next]_vars => TypeInv' /\ OffsetInv' /\ ApartInv'
  BY TypeStep, OffsetStep, ApartStep
<1> QED BY <1>1, <1>2, <1>3, TypeInit, PTL DEF Spec

-----------------------------------------------------------------------------
(* The replay of the trainer, as the recursion defines it                  *)

\* One record further: a record that is not in the history changes nothing.
Turn(before, R, n) ==
  IF n - 1 \notin R THEN before
  ELSE [before EXCEPT ![UserOf[Log[n]]] =
          [amounts |-> AppendKeepLast(@.amounts, Log[n]),
           devices |-> @.devices \cup {DeviceOf[Log[n]]}]]

Nothing == [u \in User |-> NoSnap]

\* f is the replay of the first n records, of which those in R count.
Replays(f, R, n) ==
  f = [k \in 0 .. n |-> IF k = 0 THEN Nothing ELSE Turn(f[k - 1], R, k)]

LEMMA LeastOf ==
  ASSUME NEW T, T \subseteq Nat, T # {}
  PROVE  \E x \in T : \A y \in T : x <= y
<1> DEFINE R == OpToRel(<, Nat)
<1>1. IsWellFoundedOn(R, Nat)
  BY NatLessThanWellFounded
<1> HIDE DEF R
<1>2. PICK x \in T : \A y \in T : ~ (<<y, x>> \in R)
  BY <1>1, WFMin
<1>3. ASSUME NEW y \in T PROVE x <= y
  <2>1. x \in Nat /\ y \in Nat /\ <<y, x>> \notin R
    BY <1>2
  <2>2. ~ (y < x)
    BY <2>1 DEF R, OpToRel
  <2> QED BY <2>1, <2>2
<1> QED BY <1>2, <1>3

LEMMA ReplayExists ==
  ASSUME NEW R, NEW n \in Nat
  PROVE  \E f : Replays(f, R, n)
<1> DEFINE T == {m \in Nat : ~\E f : Replays(f, R, m)}
<1>1. T = {}
  <2> SUFFICES ASSUME T # {} PROVE FALSE
    OBVIOUS
  <2>1. PICK m \in T : \A k \in T : m <= k
    BY LeastOf
  <2>2. CASE m = 0
    <3> DEFINE g == [k \in 0 .. 0 |-> Nothing]
    <3>1. Replays(g, R, 0)
      BY DEF Replays
    <3> QED BY <2>1, <2>2, <3>1
  <2>3. CASE m # 0
    <3>1. m - 1 \in Nat /\ m - 1 \notin T
      BY <2>1, <2>3
    <3>2. PICK f : Replays(f, R, m - 1)
      BY <3>1
    <3> DEFINE g == [k \in 0 .. m |-> IF k = m THEN Turn(f[m - 1], R, m) ELSE f[k]]
               h == [k \in 0 .. m |-> IF k = 0 THEN Nothing ELSE Turn(g[k - 1], R, k)]
    <3>3. \A k \in 0 .. m - 1 : f[k] = IF k = 0 THEN Nothing ELSE Turn(f[k - 1], R, k)
      BY <3>1, <3>2 DEF Replays
    <3>4. ASSUME NEW k \in 0 .. m PROVE g[k] = h[k]
      <4>1. CASE k = 0
        BY <2>1, <2>3, <3>3, <4>1
      <4>2. CASE k # 0
        <5>1. k - 1 \in 0 .. m - 1 /\ k - 1 # m /\ g[k - 1] = f[k - 1]
          BY <2>1, <4>2
        <5>2. g[k] = Turn(f[k - 1], R, k)
          <6>1. CASE k = m
            BY <6>1
          <6>2. CASE k # m
            BY <2>1, <3>3, <4>2, <6>2
          <6> QED BY <6>1, <6>2
        <5> QED BY <4>2, <5>1, <5>2
      <4> QED BY <4>1, <4>2
    <3>5. g = h
      BY <3>4
    <3>6. Replays(g, R, m)
      BY <3>5 DEF Replays
    <3> QED BY <2>1, <3>6
  <2> QED BY <2>2, <2>3
<1> QED BY <1>1

\* In both states of a step.
LEMMA ReplayIs ==
  Replays(Replay, remembered, Len(Log)) /\ Replays(Replay', remembered', Len(Log))
<1>1. \A R : \E f : Replays(f, R, Len(Log))
  BY ReplayExists, LogType
<1>2. Replay = CHOOSE f : Replays(f, remembered, Len(Log))
  BY DEF Replay, Replays, Turn, Nothing
<1>3. Replay' = CHOOSE f : Replays(f, remembered', Len(Log))
  BY DEF Replay, Replays, Turn, Nothing
<1> QED BY <1>1, <1>2, <1>3

\* Turn by turn, with a history for every user.
LEMMA ReplayTurns ==
  ASSUME NEW R, NEW f, NEW N \in Nat, N <= Len(Log), Replays(f, R, N)
  PROVE  /\ f[0] = Nothing
         /\ \A k \in 1 .. N : f[k] = Turn(f[k - 1], R, k)
         /\ \A k \in 0 .. N : f[k] \in [User -> Snapshot]
<1>1. f[0] = Nothing /\ \A k \in 1 .. N : f[k] = Turn(f[k - 1], R, k)
  BY DEF Replays
<1>2. Nothing \in [User -> Snapshot]
  BY NoSnapType DEF Nothing
<1>3. ASSUME NEW before \in [User -> Snapshot], NEW k \in 1 .. N
      PROVE  Turn(before, R, k) \in [User -> Snapshot]
  <2>1. Log[k] \in Tx /\ UserOf[Log[k]] \in User /\ DeviceOf[Log[k]] \in Device
    BY LogType, ServiceAssumption
  <2> DEFINE h == before[UserOf[Log[k]]]
  <2>2. h.amounts \in Seq(Tx) /\ h.devices \in SUBSET Device
    BY <2>1 DEF Snapshot
  <2> HIDE DEF h
  <2>3. AppendKeepLast(h.amounts, Log[k]) \in Seq(Tx)
    BY <2>1, <2>2, HistoryAssumption DEF AppendKeepLast
  <2>4. [amounts |-> AppendKeepLast(h.amounts, Log[k]),
         devices |-> h.devices \cup {DeviceOf[Log[k]]}] \in Snapshot
    BY <2>1, <2>2, <2>3 DEF Snapshot
  <2> QED BY <2>1, <2>4 DEF Turn, h
<1> DEFINE T == {k \in 0 .. N : f[k] \notin [User -> Snapshot]}
<1>4. T = {}
  <2> SUFFICES ASSUME T # {} PROVE FALSE
    OBVIOUS
  <2>0. T \subseteq Nat
    OBVIOUS
  <2>1. PICK m \in T : \A k \in T : m <= k
    BY <2>0, LeastOf
  <2>2. m # 0
    BY <1>1, <1>2
  <2>3. m - 1 \in 0 .. N /\ m - 1 \notin T /\ m \in 1 .. N
    BY <2>1, <2>2
  <2> QED BY <1>1, <1>3, <2>1, <2>3
<1> QED BY <1>1, <1>4

\* One turn, user by user.
LEMMA OneTurn ==
  ASSUME NEW R, NEW f, NEW N \in Nat, NEW c \in 0 .. N - 1, N <= Len(Log),
         Replays(f, R, N), c \in R, NEW x, x = Log[c + 1], NEW u \in User
  PROVE  f[c + 1][u] = IF u = UserOf[x]
                       THEN [amounts |-> AppendKeepLast(f[c][u].amounts, x),
                             devices |-> f[c][u].devices \cup {DeviceOf[x]}]
                       ELSE f[c][u]
<1>1. f[c] \in [User -> Snapshot] /\ \A k \in 1 .. N : f[k] = Turn(f[k - 1], R, k)
  BY ReplayTurns
<1>2. c + 1 \in 1 .. N /\ c + 1 - 1 = c
  OBVIOUS
<1>3. f[c + 1] = Turn(f[c], R, c + 1)
  BY <1>1, <1>2
<1>4. f[c + 1] = [f[c] EXCEPT ![UserOf[Log[c + 1]]] =
                    [amounts |-> AppendKeepLast(f[c][UserOf[Log[c + 1]]].amounts, Log[c + 1]),
                     devices |-> f[c][UserOf[Log[c + 1]]].devices \cup {DeviceOf[Log[c + 1]]}]]
  BY <1>2, <1>3 DEF Turn
<1> QED BY <1>1, <1>4

\* What comes later in the topic does not change what was replayed before it.
LEMMA ReplaySame ==
  ASSUME NEW R, NEW Q, NEW f, NEW g, NEW N \in Nat, NEW c \in 0 .. N, N <= Len(Log),
         Replays(f, R, N), Replays(g, Q, N),
         \A o \in 0 .. c - 1 : o \in R <=> o \in Q
  PROVE  f[c] = g[c]
<1>f. f[0] = Nothing /\ \A k \in 1 .. N : f[k] = Turn(f[k - 1], R, k)
  BY ReplayTurns
<1>g. g[0] = Nothing /\ \A k \in 1 .. N : g[k] = Turn(g[k - 1], Q, k)
  BY ReplayTurns
<1>1. f[0] = g[0] /\ \A k \in 1 .. N : f[k] = Turn(f[k - 1], R, k) /\ g[k] = Turn(g[k - 1], Q, k)
  BY <1>f, <1>g
<1> DEFINE T == {k \in 0 .. c : f[k] # g[k]}
<1>2. T = {}
  <2> SUFFICES ASSUME T # {} PROVE FALSE
    OBVIOUS
  <2>0. T \subseteq Nat
    OBVIOUS
  <2>1. PICK m \in T : \A k \in T : m <= k
    BY <2>0, LeastOf
  <2>2. m # 0
    BY <1>1, <2>1
  <2>3. m - 1 \in 0 .. c /\ m - 1 \notin T /\ m \in 1 .. N /\ m - 1 \in 0 .. c - 1
    BY <2>1, <2>2
  <2>4. f[m - 1] = g[m - 1] /\ (m - 1 \in R <=> m - 1 \in Q)
    BY <2>3
  <2>5. Turn(f[m - 1], R, m) = Turn(g[m - 1], Q, m)
    BY <2>4 DEF Turn
  <2> QED BY <1>1, <2>1, <2>3, <2>5
<1> QED BY <1>2

\* Beyond the last record in the history the replay stands still.
LEMMA ReplayStands ==
  ASSUME NEW R, NEW f, NEW N \in Nat, NEW c \in 0 .. N, N <= Len(Log),
         Replays(f, R, N), R \subseteq 0 .. c - 1
  PROVE  f[N] = f[c]
<1>1. \A k \in 1 .. N : f[k] = Turn(f[k - 1], R, k)
  BY ReplayTurns
<1> DEFINE T == {k \in c .. N : f[k] # f[c]}
<1>2. T = {}
  <2> SUFFICES ASSUME T # {} PROVE FALSE
    OBVIOUS
  <2>0. T \subseteq Nat
    OBVIOUS
  <2>1. PICK m \in T : \A k \in T : m <= k
    BY <2>0, LeastOf
  <2>2. m # c
    BY <2>1
  <2>3. m - 1 \in c .. N /\ m - 1 \notin T /\ m \in 1 .. N /\ m - 1 \notin R
    BY <2>1, <2>2
  <2>4. Turn(f[m - 1], R, m) = f[m - 1]
    BY <2>3 DEF Turn
  <2> QED BY <1>1, <2>1, <2>3, <2>4
<1> QED BY <1>2

-----------------------------------------------------------------------------
(* No train/serve skew                                                     *)

\* The users only the stream touches, and what Redis keeps of one, as read.
Streamed == User \ {UserOf[Body[h]] : h \in Http}
Kept(u) == [amounts |-> OldestFirst(amounts[u]), devices |-> devices[u]]

\* What is in a history comes before what the consumer has still to update.
RememberedInOrder ==
  \A o \in remembered : o < cursor \/ (o = cursor /\ pc[Stream] \in Remembered)
KeptIsReplayed == \A u \in Streamed : Kept(u) = Replay[Len(Log)][u]
ReadIsReplayed ==
  pc[Stream] \in {"smembers", "update", "getconn", "insert"} =>
    LET u == UserOf[TxOf(Stream)] IN
    u \in Streamed =>
      /\ snap[Stream].amounts = Replay[cursor][u].amounts
      /\ pc[Stream] # "smembers" => snap[Stream].devices = Replay[cursor][u].devices

SkewInv == RememberedInOrder /\ (evictions = 0 => KeptIsReplayed /\ ReadIsReplayed)

\* A step that leaves the history and what the consumer read.
LEMMA SkewKept ==
  ASSUME KafkaOK, BackendsOK, GoesOn, cursor' \in Nat, SkewInv,
         evictions' = 0 => evictions = 0, UNCHANGED remembered,
         evictions' = 0 => \A u \in Streamed : amounts'[u] = amounts[u] /\ devices'[u] = devices[u],
         \/ pc'[Stream] \notin {"smembers", "update", "getconn", "insert"}
         \/ /\ cursor' = cursor /\ snap'[Stream] = snap[Stream]
            /\ \/ pc'[Stream] = pc[Stream]
               \/ /\ pc[Stream] \in {"update", "getconn", "insert"}
                  /\ pc'[Stream] \in {"update", "getconn", "insert"}
  PROVE  SkewInv'
<1>1. RememberedInOrder'
  <2>1. ASSUME NEW o \in remembered
        PROVE  o < cursor' \/ (o = cursor' /\ pc'[Stream] \in Remembered)
    <3>1. o \in Nat /\ cursor \in Nat /\ (o < cursor \/ (o = cursor /\ pc[Stream] \in Remembered))
      BY LogType DEF KafkaOK, BackendsOK, SkewInv, RememberedInOrder
    <3>2. /\ cursor' >= cursor
          /\ cursor' = cursor /\ pc[Stream] \in Remembered => pc'[Stream] \in Remembered
      BY DEF GoesOn
    <3> QED BY <3>1, <3>2
  <2> QED BY <2>1 DEF RememberedInOrder
<1>2. Replay' = Replay
  BY DEF Replay
<1>3. evictions' = 0 => KeptIsReplayed'
  BY <1>2 DEF SkewInv, KeptIsReplayed, Kept
<1>4. evictions' = 0 => ReadIsReplayed'
  <2> SUFFICES ASSUME evictions' = 0 PROVE ReadIsReplayed'
    OBVIOUS
  <2>1. ReadIsReplayed
    BY DEF SkewInv
  <2>2. cursor' = cursor => TxOf(Stream)' = TxOf(Stream)
    BY DEF TxOf
  <2> QED BY <1>2, <2>1, <2>2 DEF ReadIsReplayed
<1> QED BY <1>1, <1>3, <1>4 DEF SkewInv

\* What was replayed before the consumer's record is what Redis keeps now.
LEMMA KeptBefore ==
  ASSUME KafkaOK, BackendsOK, SkewInv, evictions = 0, pc[Stream] \notin Remembered
  PROVE  /\ \A u \in Streamed : Kept(u) = Replay[cursor][u]
         /\ remembered \subseteq 0 .. cursor - 1
<1>1. remembered \subseteq 0 .. cursor - 1
  BY LogType DEF KafkaOK, BackendsOK, SkewInv, RememberedInOrder
<1>2. cursor \in 0 .. Len(Log) /\ Len(Log) \in Nat
  BY LogType DEF KafkaOK
<1>3. Replay[Len(Log)] = Replay[cursor]
  <2>1. Replays(Replay, remembered, Len(Log))
    BY ReplayIs
  <2>2. Len(Log) <= Len(Log)
    BY <1>2
  <2> QED BY <1>1, <1>2, <2>1, <2>2, ReplayStands
<1> QED BY <1>1, <1>3 DEF SkewInv, KeptIsReplayed

\* The consumer's update: the trainer's turn on the same record.
LEMMA StreamRemembers ==
  ASSUME KafkaOK, BackendsOK, StepsInv, SkewInv, GoesOn, cursor' \in Nat,
         pc[Stream] = "update", Remember(Stream), evictions' = evictions,
         cursor' > cursor \/ (cursor' = cursor /\ pc'[Stream] \in Remembered)
  PROVE  /\ RememberedInOrder'
         /\ evictions = 0 => KeptIsReplayed' /\ Replay'[cursor] = Replay[cursor]
<1> DEFINE x == Log[cursor + 1]
<1>1. /\ cursor \in 0 .. Len(Log) - 1 /\ cursor + 1 \in 1 .. Len(Log) /\ Len(Log) \in Nat
      /\ TxOf(Stream) = x /\ x \in Tx /\ UserOf[x] \in User /\ DeviceOf[x] \in Device
  BY LogType, ServiceAssumption DEF KafkaOK, StepsInv, Work, TxOf
<1>2. /\ amounts' = [amounts EXCEPT ![UserOf[x]] = LpushLtrim(amounts[UserOf[x]], x)]
      /\ devices' = [devices EXCEPT ![UserOf[x]] = devices[UserOf[x]] \cup {DeviceOf[x]}]
      /\ remembered' = remembered \cup {cursor}
  BY <1>1 DEF Remember
<1> HIDE DEF x
<1>3. pc[Stream] \notin Remembered
  BY DEF Remembered
<1>4. remembered \subseteq 0 .. cursor - 1
  BY <1>1, <1>3, LogType DEF BackendsOK, KafkaOK, SkewInv, RememberedInOrder
<1>6. remembered' \subseteq 0 .. cursor
  BY <1>1, <1>2, <1>4
<1>7. RememberedInOrder'
  <2>1. \A o \in remembered' : o < cursor' \/ (o = cursor' /\ pc'[Stream] \in Remembered)
    BY <1>1, <1>6
  <2> QED BY <2>1 DEF RememberedInOrder
<1>8. ASSUME evictions = 0
      PROVE  KeptIsReplayed' /\ Replay'[cursor] = Replay[cursor]
  <2> DEFINE N == Len(Log)
  <2>1. Replays(Replay, remembered, N) /\ Replays(Replay', remembered', N)
    BY ReplayIs
  <2>2. Replay'[cursor] = Replay[cursor]
    <3>1. \A o \in 0 .. cursor - 1 : o \in remembered' <=> o \in remembered
      BY <1>1, <1>2
    <3>2. cursor \in 0 .. N /\ N \in Nat /\ N <= Len(Log)
      BY <1>1
    <3> HIDE DEF N
    <3> QED BY <2>1, <3>1, <3>2, ReplaySame
  <2>3. Replay'[N] = Replay'[cursor + 1]
    <3>1. remembered' \subseteq 0 .. (cursor + 1) - 1
      BY <1>1, <1>6
    <3>2. cursor + 1 \in 0 .. N /\ N \in Nat /\ N <= Len(Log)
      BY <1>1
    <3> HIDE DEF N
    <3> QED BY <2>1, <3>1, <3>2, ReplayStands
  <2>4. ASSUME NEW u \in User
        PROVE  Replay'[N][u] = IF u = UserOf[x]
                               THEN [amounts |-> AppendKeepLast(Replay[cursor][u].amounts, x),
                                     devices |-> Replay[cursor][u].devices \cup {DeviceOf[x]}]
                               ELSE Replay[cursor][u]
    <3>1. N \in Nat /\ N <= Len(Log) /\ cursor \in 0 .. N - 1 /\ cursor \in remembered'
      BY <1>1, <1>2
    <3>2. x = Log[cursor + 1]
      BY DEF x
    <3> HIDE DEF N
    <3>3. Replay'[cursor + 1][u] =
            IF u = UserOf[x] THEN [amounts |-> AppendKeepLast(Replay'[cursor][u].amounts, x),
                                   devices |-> Replay'[cursor][u].devices \cup {DeviceOf[x]}]
            ELSE Replay'[cursor][u]
      BY <2>1, <3>1, <3>2, OneTurn
    <3> QED BY <2>2, <2>3, <3>3
  <2> HIDE DEF N
  <2>9. ASSUME NEW u \in Streamed PROVE Kept(u)' = Replay'[N][u]
    <3>1. u \in User /\ Kept(u) = Replay[cursor][u]
      BY <1>3, <1>8, KeptBefore DEF Streamed
    <3>2. CASE u = UserOf[x]
      <4>1. /\ amounts[u] \in Seq(Tx) /\ Len(amounts[u]) <= HistoryLen
            /\ amounts'[u] = LpushLtrim(amounts[u], x)
            /\ devices'[u] = devices[u] \cup {DeviceOf[x]}
        BY <1>2, <3>1, <3>2 DEF BackendsOK
      <4>2. OldestFirst(amounts'[u]) = AppendKeepLast(OldestFirst(amounts[u]), x)
        BY <1>1, <4>1, OnlineIsOffline
      <4>3. /\ Replay[cursor][u].amounts = OldestFirst(amounts[u])
            /\ Replay[cursor][u].devices = devices[u]
        BY <3>1 DEF Kept
      <4> QED BY <2>4, <3>1, <3>2, <4>1, <4>2, <4>3 DEF Kept
    <3>3. CASE u # UserOf[x]
      <4>1. amounts'[u] = amounts[u] /\ devices'[u] = devices[u]
        BY <1>2, <3>1, <3>3 DEF BackendsOK
      <4> QED BY <2>4, <3>1, <3>3, <4>1 DEF Kept
    <3> QED BY <3>2, <3>3
  <2>10. KeptIsReplayed'
    BY <2>9 DEF KeptIsReplayed, N
  <2> QED BY <2>2, <2>10
<1> QED BY <1>7, <1>8

\* Another thread's update is about a user the stream does not have alone.
LEMMA OthersRemember ==
  ASSUME KafkaOK, BackendsOK, StepsInv, NEW h \in Http, pc[h] \in Work, Remember(h)
  PROVE  /\ remembered' = remembered
         /\ \A u \in Streamed : amounts'[u] = amounts[u] /\ devices'[u] = devices[u]
<1>1. h # Stream /\ TxOf(h) = Body[h] /\ Body[h] \in Tx /\ UserOf[Body[h]] \in User
  BY ServiceAssumption DEF TxOf
<1>2. /\ amounts' = [amounts EXCEPT ![UserOf[Body[h]]] = LpushLtrim(@, Body[h])]
      /\ devices' = [devices EXCEPT ![UserOf[Body[h]]] = @ \cup {DeviceOf[Body[h]]}]
      /\ remembered' = remembered
  BY <1>1 DEF Remember
<1>3. \A u \in Streamed : u \in User /\ u # UserOf[Body[h]]
  BY DEF Streamed
<1> QED BY <1>2, <1>3 DEF BackendsOK

LEMMA SkewStep ==
  ASSUME NoRedelivery
  PROVE  TypeInv /\ TypeInv' /\ OffsetInv /\ SkewInv /\ [Next]_vars => SkewInv'
<1> SUFFICES ASSUME TypeInv, TypeInv', OffsetInv, SkewInv, [Next]_vars PROVE SkewInv'
  OBVIOUS
<1>0. KafkaOK /\ ThreadsOK /\ StepsInv /\ BackendsOK
  BY TypeIsItsParts DEF TypeInv
<1>00. Stream \in Threads /\ \A t \in Threads : t # Stream => t \in Http
  BY ServiceAssumption DEF Threads
<1>g. GoesOn /\ cursor' \in Nat /\ cursor \in Nat
  <2>1. KafkaOK'
    BY TypeIsItsParts DEF TypeInv, TypeOK, KafkaOK
  <2> QED BY <1>0, <2>1, OffsetStep, LogType DEF KafkaOK
\* What the consumer does not do.
<1>1. ASSUME UNCHANGED <<remembered, evictions, cursor>>,
             \A u \in Streamed : amounts'[u] = amounts[u] /\ devices'[u] = devices[u],
             pc'[Stream] = pc[Stream], snap'[Stream] = snap[Stream]
      PROVE  SkewInv'
  BY <1>0, <1>g, <1>1, SkewKept
\* What the consumer does away from a history.
<1>2. ASSUME UNCHANGED <<amounts, devices, remembered, evictions>>,
             pc'[Stream] \notin {"smembers", "update", "getconn", "insert"}
      PROVE  SkewInv'
  BY <1>0, <1>g, <1>2, SkewKept
<1>3. ASSUME NEW t \in Threads, t # Stream, Score(t) \/ Persist(t) PROVE SkewInv'
  <2>1. UNCHANGED <<evictions, cursor>> /\ pc[t] \in Work
    BY <1>3 DEF Score, Persist, GetAmounts, GetDevices, Update, UpdateUnconfirmed, RedisError,
       GetConn, NoConn, Insert, InsertError, InsertUnconfirmed, ScoreFails, InsertFails, Finish,
       Answer, redis, kafka, Work
  <2>2. (\E p : pc' = [pc EXCEPT ![t] = p])
    BY <1>3 DEF Score, Persist, GetAmounts, GetDevices, Update, UpdateUnconfirmed, RedisError,
       GetConn, NoConn, Insert, InsertError, InsertUnconfirmed, ScoreFails, InsertFails, Finish, Answer
  <2>3. \/ snap' = snap \/ (\E a : snap' = [snap EXCEPT ![t].amounts = a])
        \/ (\E d : snap' = [snap EXCEPT ![t].devices = d])
    BY <1>3 DEF Score, Persist, GetAmounts, GetDevices, Update, UpdateUnconfirmed, RedisError,
       GetConn, NoConn, Insert, InsertError, InsertUnconfirmed, ScoreFails, InsertFails, Finish, Answer
  <2>4. pc'[Stream] = pc[Stream] /\ snap'[Stream] = snap[Stream]
    BY <1>0, <1>00, <1>3, <2>2, <2>3 DEF ThreadsOK
  <2>5. Remember(t) \/ UNCHANGED <<amounts, devices, remembered>>
    BY <1>3 DEF Score, Persist, GetAmounts, GetDevices, Update, UpdateUnconfirmed, RedisError,
       GetConn, NoConn, Insert, InsertError, InsertUnconfirmed, redis
  <2>6. /\ remembered' = remembered
        /\ \A u \in Streamed : amounts'[u] = amounts[u] /\ devices'[u] = devices[u]
    BY <1>0, <1>00, <1>3, <2>1, <2>5, OthersRemember
  <2> QED BY <1>1, <2>1, <2>4, <2>6
<1>4. ASSUME GetAmounts(Stream) \/ GetDevices(Stream) PROVE SkewInv'
  <2> DEFINE x == TxOf(Stream)
             u == UserOf[x]
  <2>1. UNCHANGED <<amounts, devices, remembered, evictions, cursor>>
    BY <1>4 DEF GetAmounts, GetDevices, redis, kafka
  <2>2. RememberedInOrder' /\ (evictions = 0 => KeptIsReplayed') /\ Replay' = Replay
    <3>1. RememberedInOrder
      BY DEF SkewInv
    <3>2. pc[Stream] \notin Remembered
      BY <1>4 DEF GetAmounts, GetDevices, Remembered
    <3>3. RememberedInOrder'
      BY <2>1, <3>1, <3>2 DEF RememberedInOrder
    <3>4. Replay' = Replay
      BY <2>1 DEF Replay
    <3> QED BY <2>1, <3>3, <3>4 DEF SkewInv, KeptIsReplayed, Kept
  <2>3. ASSUME evictions = 0 PROVE ReadIsReplayed'
    <3>1. TxOf(Stream)' = x
      BY <2>1 DEF TxOf
    <3>2. pc[Stream] \notin Remembered
      BY <1>4 DEF GetAmounts, GetDevices, Remembered
    <3> SUFFICES ASSUME u \in Streamed
                 PROVE  /\ snap'[Stream].amounts = Replay[cursor][u].amounts
                        /\ pc'[Stream] # "smembers" => snap'[Stream].devices = Replay[cursor][u].devices
      BY <2>1, <2>2, <3>1 DEF ReadIsReplayed
    <3>3. /\ OldestFirst(amounts[u]) = Replay[cursor][u].amounts
          /\ devices[u] = Replay[cursor][u].devices
      <4>1. Kept(u) = Replay[cursor][u]
        BY <1>0, <2>3, <3>2, KeptBefore
      <4> QED BY <4>1 DEF Kept
    <3>4. snap[Stream] \in Snapshot
      BY <1>0, <1>00 DEF ThreadsOK
    <3> HIDE DEF u
    <3>5. CASE GetAmounts(Stream)
      <4>1. /\ pc' = [pc EXCEPT ![Stream] = "smembers"]
            /\ snap' = [snap EXCEPT ![Stream].amounts = OldestFirst(amounts[u])]
        BY <3>5 DEF GetAmounts, u
      <4>2. pc'[Stream] = "smembers" /\ snap'[Stream].amounts = OldestFirst(amounts[u])
        BY <1>0, <1>00, <3>4, <4>1 DEF ThreadsOK, Snapshot
      <4> QED BY <3>3, <4>2
    <3>6. CASE GetDevices(Stream)
      <4>1. /\ pc[Stream] = "smembers"
            /\ snap' = [snap EXCEPT ![Stream].devices = devices[u]]
        BY <3>6 DEF GetDevices, u
      <4>2. /\ snap'[Stream].amounts = snap[Stream].amounts
            /\ snap'[Stream].devices = devices[u]
        BY <1>0, <1>00, <3>4, <4>1 DEF ThreadsOK, Snapshot
      <4>3. snap[Stream].amounts = Replay[cursor][u].amounts
        BY <2>3, <4>1 DEF SkewInv, ReadIsReplayed, u
      <4> QED BY <3>3, <4>2, <4>3
    <3> QED BY <1>4, <3>5, <3>6
  <2> QED BY <2>1, <2>2, <2>3 DEF SkewInv
<1>5. CASE Update(Stream)
  <2>1. /\ pc[Stream] = "update" /\ Remember(Stream) /\ UNCHANGED <<evictions, cursor, snap>>
        /\ pc' = [pc EXCEPT ![Stream] = "getconn"]
    BY <1>5 DEF Update, kafka
  <2>2. pc'[Stream] = "getconn"
    BY <1>0, <1>00, <2>1 DEF ThreadsOK
  <2>3. /\ RememberedInOrder'
        /\ evictions = 0 => KeptIsReplayed' /\ Replay'[cursor] = Replay[cursor]
    BY <1>0, <1>g, <2>1, <2>2, StreamRemembers DEF Remembered
  <2>4. TxOf(Stream)' = TxOf(Stream)
    BY <2>1 DEF TxOf
  <2>5. evictions = 0 => ReadIsReplayed'
    BY <2>1, <2>2, <2>3, <2>4 DEF SkewInv, ReadIsReplayed
  <2> QED BY <2>1, <2>3, <2>5 DEF SkewInv
<1>6. ASSUME NEW told, Finish(Stream, told)
      PROVE  cursor' = cursor + 1 /\ pc'[Stream] \in {"lrange", "poll"}
  BY <1>0, <1>00, <1>6 DEF Finish, NextRecord, ThreadsOK
<1>7. CASE UpdateUnconfirmed(Stream)
  <2>1. /\ pc[Stream] = "update" /\ Remember(Stream) /\ UNCHANGED evictions
        /\ Finish(Stream, "error")
    BY <1>7 DEF UpdateUnconfirmed, ScoreFails
  <2>2. cursor' > cursor /\ pc'[Stream] \in {"lrange", "poll"}
    BY <1>6, <1>g, <2>1
  <2>3. RememberedInOrder' /\ (evictions = 0 => KeptIsReplayed')
    BY <1>0, <1>g, <2>1, <2>2, StreamRemembers
  <2>4. ReadIsReplayed'
    BY <2>2 DEF ReadIsReplayed
  <2> QED BY <2>1, <2>3, <2>4 DEF SkewInv
<1>8. ASSUME RedisError(Stream) \/ NoConn(Stream) \/ Insert(Stream) \/ InsertError(Stream)
             \/ InsertUnconfirmed(Stream)
      PROVE  SkewInv'
  <2>1. UNCHANGED <<amounts, devices, remembered, evictions>>
    BY <1>8 DEF RedisError, NoConn, Insert, InsertError, InsertUnconfirmed, redis
  <2>2. PICK told \in {"answered", "error"} : Finish(Stream, told)
    BY <1>8 DEF RedisError, NoConn, Insert, InsertError, InsertUnconfirmed, ScoreFails, InsertFails
  <2> QED BY <1>2, <1>6, <2>1, <2>2
<1>9. CASE GetConn(Stream)
  <2>1. /\ UNCHANGED <<amounts, devices, remembered, evictions, cursor, snap>>
        /\ pc[Stream] = "getconn" /\ pc' = [pc EXCEPT ![Stream] = "insert"]
    BY <1>9 DEF GetConn, redis, kafka
  <2>2. pc'[Stream] = "insert"
    BY <1>0, <1>00, <2>1 DEF ThreadsOK
  <2> QED BY <1>0, <1>g, <2>1, <2>2, SkewKept
<1>10. ASSUME NEW h \in Http, Post(h) PROVE SkewInv'
  <2>1. UNCHANGED <<amounts, devices, remembered, evictions, cursor, snap>>
        /\ pc' = [pc EXCEPT ![h] = "lrange"]
    BY <1>10 DEF Post, redis, kafka
  <2>2. pc'[Stream] = pc[Stream]
    BY <1>0, <1>00, <2>1, ServiceAssumption DEF ThreadsOK
  <2> QED BY <1>1, <2>1, <2>2
<1>11. CASE Connect \/ Poll \/ CloseConsumer \/ ConsumerDies
  <2>1. UNCHANGED <<amounts, devices, remembered, evictions>>
    BY <1>11 DEF Connect, Poll, CloseConsumer, ConsumerDies, redis
  <2>2. PICK p \in {"poll", "lrange", "closed"} : pc' = [pc EXCEPT ![Stream] = p]
    BY <1>11 DEF Connect, Poll, CloseConsumer, ConsumerDies
  <2>3. pc'[Stream] = p
    BY <1>0, <1>00, <2>2 DEF ThreadsOK
  <2> QED BY <1>2, <2>1, <2>3
<1>12. CASE Exit \/ Crash
  <2>1. /\ UNCHANGED <<amounts, devices, remembered, evictions>>
        /\ pc' = [t \in Threads |-> IF t = Stream THEN "connect"
                                    ELSE IF pc[t] = "idle" THEN "idle" ELSE "done"]
    BY <1>12 DEF Exit, Crash, Gone, redis
  <2>2. pc'[Stream] = "connect"
    BY <1>00, <2>1
  <2> QED BY <1>2, <2>1, <2>2
\* A key that Redis drops ends the promise.
<1>13. CASE RedisUpAgain \/ Evict
  <2>1. UNCHANGED <<remembered, pc, snap, cursor>>
    BY <1>13 DEF RedisUpAgain, Evict, threads, kafka
  <2>2. evictions' = evictions + 1 \/ UNCHANGED <<amounts, devices, evictions>>
    BY <1>13 DEF RedisUpAgain, Evict
  <2>3. evictions \in Nat
    BY ServiceAssumption DEF TypeInv, TypeOK
  <2>4. evictions' = 0 => evictions = 0 /\ UNCHANGED <<amounts, devices>>
    BY <2>2, <2>3
  <2> QED BY <1>0, <1>g, <2>1, <2>4, SkewKept
<1>14. CASE \/ Boot \/ StopConsumer \/ ClosePool \/ Sigterm \/ RedisDown
            \/ DbDown \/ DbUpAgain \/ Produce \/ UNCHANGED vars
  <2>1. UNCHANGED <<amounts, devices, remembered, evictions, pc, snap, cursor>>
    BY <1>14 DEF Boot, StopConsumer, ClosePool, Sigterm, RedisDown, DbDown, DbUpAgain, Produce,
                 vars, redis, kafka, threads
  <2> QED BY <1>1, <2>1
<1> QED BY <1>00, <1>3, <1>4, <1>5, <1>7, <1>8, <1>9, <1>10, <1>11, <1>12, <1>13, <1>14
        DEF Next, Score, Persist, Lifecycle, Environment

(* There is no train/serve skew (fraud-README.md:359-361), for any topic,  *)
(* any limit of the history, any requests about other users and any number *)
(* of outages and clean restarts: what the consumer reads of a user only   *)
(* the stream touches is what the trainer's replay of the remembered       *)
(* records has for it.                                                     *)
THEOREM NoSkewEver ==
  ASSUME NoRedelivery
  PROVE  Spec => []NoSkew
<1>1. Init => OffsetInv /\ SkewInv
  <2> SUFFICES ASSUME Init PROVE OffsetInv /\ SkewInv
    OBVIOUS
  <2>1. /\ pc[Stream] = "connect" /\ cursor = position /\ committed = -1 /\ proc = "down"
        /\ remembered = {}
        /\ \A u \in User : amounts[u] = <<>> /\ devices[u] = {}
    BY DEF Init, Threads
  <2>2. Replay[Len(Log)] = Nothing
    <3>1. Replays(Replay, remembered, Len(Log)) /\ Len(Log) \in Nat
      BY ReplayIs, LogType
    <3>2. 0 \in 0 .. Len(Log) /\ remembered \subseteq 0 .. 0 - 1 /\ Len(Log) <= Len(Log)
      BY <2>1, <3>1
    <3>3. Replay[Len(Log)] = Replay[0]
      BY <3>1, <3>2, ReplayStands
    <3> QED BY <3>1, <3>2, <3>3, ReplayTurns
  <2>3. OldestFirst(<<>>) = <<>>
    <3>1. <<>> \in Seq(Tx) /\ Len(<<>>) = 0
      OBVIOUS
    <3>2. OldestFirst(<<>>) \in Seq(Tx) /\ Len(OldestFirst(<<>>)) = 0
      BY <3>1, OldestFirstIs
    <3> QED BY <3>2
  <2>4. KeptIsReplayed
    BY <2>1, <2>2, <2>3 DEF KeptIsReplayed, Kept, Streamed, Nothing, NoSnap
  <2> QED BY <2>1, <2>4 DEF OffsetInv, SkewInv, RememberedInOrder, ReadIsReplayed
<1>2. TypeInv /\ SkewInv => NoSkew
  <2> SUFFICES ASSUME TypeInv, SkewInv, evictions = 0, pc[Stream] \in {"update", "getconn", "insert"},
                      UserOf[TxOf(Stream)] \notin {UserOf[Body[h]] : h \in Http}
               PROVE  snap[Stream] = Replay[cursor][UserOf[TxOf(Stream)]]
    BY DEF NoSkew
  <2>0. KafkaOK /\ ThreadsOK /\ StepsInv /\ BackendsOK
    BY TypeIsItsParts DEF TypeInv
  <2>1. TxOf(Stream) \in Tx /\ Stream \in Threads
    BY <2>0, TxOfType DEF Threads, Work
  <2> DEFINE u == UserOf[TxOf(Stream)]
  <2>2. u \in Streamed /\ u \in User
    BY <2>1, ServiceAssumption DEF Streamed
  <2>3. /\ snap[Stream].amounts = Replay[cursor][u].amounts
        /\ snap[Stream].devices = Replay[cursor][u].devices
    BY <2>2 DEF SkewInv, ReadIsReplayed
  <2> HIDE DEF u
  <2>4. Replay[cursor][u] \in Snapshot
    <3>1. Replays(Replay, remembered, Len(Log)) /\ Len(Log) \in Nat /\ Len(Log) <= Len(Log)
      BY ReplayIs, LogType
    <3>2. \A k \in 0 .. Len(Log) : Replay[k] \in [User -> Snapshot]
      BY <3>1, ReplayTurns
    <3>3. cursor \in 0 .. Len(Log)
      BY <2>0, LogType DEF KafkaOK
    <3> QED BY <2>2, <3>2, <3>3
  <2>5. snap[Stream] \in Snapshot
    BY <2>0, <2>1 DEF ThreadsOK
  <2>6. \A h \in Snapshot : h = [amounts |-> h.amounts, devices |-> h.devices]
    BY DEF Snapshot
  <2>7. snap[Stream] = Replay[cursor][u]
    BY <2>3, <2>4, <2>5, <2>6, Zenon
  <2> QED BY <2>7 DEF u
<1> QED BY <1>1, <1>2, TypeInit, TypeStep, OffsetStep, SkewStep, PTL DEF Spec
=============================================================================
