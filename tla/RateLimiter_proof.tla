------------------------- MODULE RateLimiter_proof -------------------------
(***************************************************************************)
(* Proofs about RateLimiter, for every set of workers and keys, every      *)
(* environment, every length of a minute and every lateness of at most a   *)
(* minute between the choice of the window and Redis.                      *)
(***************************************************************************)
EXTENDS RateLimiter, FiniteSetTheorems, TLAPS

-----------------------------------------------------------------------------
(* Windows                                                                 *)

LEMMA Division ==
  ASSUME NEW m \in Nat \ {0}, NEW t \in Nat
  PROVE  /\ t \div m \in Nat
         /\ t % m = t - m * (t \div m)
         /\ m * (t \div m) <= t
         /\ t < m * (t \div m) + m
BY SMT

LEMMA DivisionGrows ==
  ASSUME NEW m \in Nat \ {0}, NEW s \in Nat, NEW t \in Nat, s <= t
  PROVE  s \div m <= t \div m
BY Division, SMT

LEMMA DivisionOfNext ==
  ASSUME NEW m \in Nat \ {0}, NEW q \in Nat
  PROVE  (m * q + m) \div m = q + 1
BY SMT

(* A moment lies in a window, which begins no later and ends after it.     *)
LEMMA InsideWindow ==
  ASSUME NEW t \in Nat
  PROVE  /\ WindowOf(t) \in Nat
         /\ Minute * WindowOf(t) <= t
         /\ t < Minute * WindowOf(t) + Minute
         /\ Minute * WindowOf(t) \in Nat
<1> USE MinuteAssumption DEF WindowOf
<1>1. WindowOf(t) \in Nat /\ Minute * WindowOf(t) <= t /\ t < Minute * WindowOf(t) + Minute
  BY Division
<1>2. ASSUME NEW q \in Nat PROVE Minute * q \in Nat
  BY SMT
<1> QED BY <1>1, <1>2

LEMMA WindowsGrow ==
  ASSUME NEW s \in Nat, NEW t \in Nat, s <= t
  PROVE  WindowOf(s) <= WindowOf(t)
BY DivisionGrows, MinuteAssumption DEF WindowOf

(* The windows of one minute are two neighbours.                           *)
LEMMA MinuteTouchesTwo ==
  ASSUME NEW t \in Nat, NEW s \in Nat, t <= s, s < t + Minute
  PROVE  WindowOf(s) - WindowOf(t) \in {0, 1}
<1>1. WindowOf(t) <= WindowOf(s) /\ WindowOf(s) <= WindowOf(t + Minute)
  BY WindowsGrow, MinuteAssumption
<1>2. WindowOf(t + Minute) = WindowOf(t) + 1
  BY MinuteAssumption, SMT DEF WindowOf
<1> QED BY <1>1, <1>2, InsideWindow

(* A caller told to wait at a moment comes back in the window after it.    *)
LEMMA WaitEndsInNextWindow ==
  ASSUME NEW t \in Nat
  PROVE  /\ ResetIn(t) \in 1..Minute
         /\ WindowOf(t + ResetIn(t)) = WindowOf(t) + 1
<1> USE MinuteAssumption
<1>1. t % Minute = t - Minute * (t \div Minute) /\ t \div Minute \in Nat
  BY Division
<1>2. t + ResetIn(t) = Minute * (t \div Minute) + Minute
  BY <1>1 DEF ResetIn
<1>3. WindowOf(t + ResetIn(t)) = (t \div Minute) + 1
  BY <1>1, <1>2, DivisionOfNext DEF WindowOf
<1>4. ResetIn(t) \in 1..Minute
  BY Division DEF ResetIn
<1> QED BY <1>3, <1>4 DEF WindowOf

LEMMA BucketOfMoment ==
  ASSUME NEW k \in Keys, NEW t \in 0..MaxTime
  PROVE  <<k, WindowOf(t)>> \in Buckets
BY WindowsGrow, InsideWindow, BoundAssumption DEF Buckets

-----------------------------------------------------------------------------
(* Types                                                                   *)

LEMMA TypeInit == Init => TypeOK
<1> SUFFICES ASSUME Init PROVE TypeOK
  OBVIOUS
<1>1. job \in [Workers -> Jobs]
  BY BoundAssumption DEF Init, Jobs, Idle
<1>2. \A w \in Workers : job[w].at \notin {"count", "reset"}
  BY DEF Init, Idle
<1>3. passed \in SUBSET Passed /\ forgotten \in SUBSET Buckets
  BY DEF Init
<1>4. count \in [Buckets -> Nat] /\ expires \in [Buckets -> Nat]
  BY DEF Init
<1>5. now \in 0..MaxTime
  BY BoundAssumption DEF Init
<1> QED BY <1>1, <1>2, <1>3, <1>4, <1>5 DEF Init, TypeOK

LEMMA AnswerType ==
  ASSUME now \in 0..MaxTime, NEW s \in {200, 401, 429}, NEW r \in Nat
  PROVE  Answer(s, r) \in Jobs /\ Answer(s, r).at = "done"
BY BoundAssumption DEF Answer, Jobs

LEMMA IncrementedType ==
  ASSUME TypeOK, NEW b \in Buckets, Incremented(b)
  PROVE  /\ count' \in [Buckets -> Nat]
         /\ expires' \in [Buckets -> Nat]
         /\ redisUp' \in BOOLEAN /\ forgotten' \in SUBSET Buckets
BY MinuteAssumption, BoundAssumption DEF TypeOK, Incremented, Lifetime

(* A step that gives one worker a job and leaves the rest of the program   *)
(* alone.                                                                  *)
LEMMA JobType ==
  ASSUME TypeOK, NEW w \in Workers, NEW j \in Jobs,
         j.at \in {"count", "reset"} => j.bucket \in Buckets,
         job' = [job EXCEPT ![w] = j]
  PROVE  /\ job' \in [Workers -> Jobs]
         /\ \A v \in Workers : job'[v].at \in {"count", "reset"} => job'[v].bucket \in Buckets
BY DEF TypeOK

LEMMA TypeStep == TypeOK /\ [Next]_vars => TypeOK'
<1> SUFFICES ASSUME TypeOK, [Next]_vars PROVE TypeOK'
  OBVIOUS
<1>t. /\ now \in 0..MaxTime
      /\ setting \in Settings /\ count \in [Buckets -> Nat] /\ job \in [Workers -> Jobs]
  BY DEF TypeOK
<1>p. ASSUME setting' = setting PROVE Passed' = Passed
  BY <1>p DEF Passed, Limit
<1>1. CASE Start
  BY <1>1, <1>p DEF TypeOK, Start, redis
<1>2. CASE Tick
  <2>1. now' \in 0..MaxTime
    BY <1>2, <1>t, BoundAssumption DEF Tick
  <2> QED BY <1>2, <2>1, <1>p DEF TypeOK, Tick, redis
<1>3. CASE RedisStops \/ RedisStarts
  <2>1. count' \in [Buckets -> Nat] /\ forgotten' \in SUBSET Buckets
    BY <1>3 DEF TypeOK, RedisStops, RedisStarts
  <2> QED BY <1>3, <2>1, <1>p DEF TypeOK, RedisStops, RedisStarts
<1>4. ASSUME NEW w \in Workers, Unauthorized(w) \/ Unlimited(w) PROVE TypeOK'
  <2>1. Answer(401, 0) \in Jobs /\ Answer(200, 0) \in Jobs
        /\ Answer(401, 0).at = "done" /\ Answer(200, 0).at = "done"
    BY AnswerType, <1>t
  <2>2. /\ job' \in [Workers -> Jobs]
        /\ \A v \in Workers : job'[v].at \in {"count", "reset"} => job'[v].bucket \in Buckets
    BY <1>4, <2>1, JobType DEF Unauthorized, Unlimited
  <2> QED BY <1>4, <2>2, <1>p DEF TypeOK, Unauthorized, Unlimited, redis
<1>5. ASSUME NEW w \in Workers, Choose(w) PROVE TypeOK'
  <2>1. PICK k \in setting.keys : job' = [job EXCEPT ![w] = Ask(k)]
    BY <1>5 DEF Choose
  <2>2. k \in Keys
    BY <1>t, SettingAssumption
  <2>3. <<k, WindowOf(now)>> \in Buckets
    BY <2>2, <1>t, BucketOfMoment
  <2>4. Ask(k) \in Jobs /\ Ask(k).bucket \in Buckets
    BY <2>3, <1>t, BoundAssumption DEF Jobs, Ask
  <2>5. /\ job' \in [Workers -> Jobs]
        /\ \A v \in Workers : job'[v].at \in {"count", "reset"} => job'[v].bucket \in Buckets
    BY <2>1, <2>4, JobType
  <2> QED BY <1>5, <2>5, <1>p DEF TypeOK, Choose, redis
<1>6. ASSUME NEW w \in Workers, Count(w) PROVE TypeOK'
  <2> DEFINE b == job[w].bucket
  <2>1. b \in Buckets /\ job[w] \in Jobs /\ count[b] + 1 \in Nat
    BY <1>6 DEF TypeOK, Count
  <2>2. b[1] \in Keys /\ job[w].chosen \in 0..MaxTime
    BY <2>1 DEF Buckets, Jobs
  <2> DEFINE j == [job[w] EXCEPT !.at = "reset", !.number = count[b] + 1]
  <2>3. j \in Jobs /\ j.bucket \in Buckets
    BY <2>1 DEF Jobs
  <2>4. job' = [job EXCEPT ![w] = j]
    BY <1>6, <1>t DEF Count
  <2>5. /\ job' \in [Workers -> Jobs]
        /\ \A v \in Workers : job'[v].at \in {"count", "reset"} => job'[v].bucket \in Buckets
    <3> HIDE DEF j
    <3> QED BY <2>3, <2>4, JobType
  <2>6. Incremented(b)
    BY <1>6 DEF Count
  <2>7. passed' \in SUBSET Passed
    <3>1. CASE Allowed(count[b] + 1)
      <4>1. [key |-> b[1], at |-> job[w].chosen, number |-> count[b] + 1] \in Passed
        <5>1. count[b] + 1 \in 1..Limit
          BY <3>1, <2>1, <1>t, SettingAssumption DEF Allowed, Limit
        <5> QED BY <5>1, <2>2 DEF Passed
      <4> QED BY <4>1, <3>1, <1>6 DEF Count, TypeOK
    <3>2. CASE ~Allowed(count[b] + 1)
      BY <3>2, <1>6 DEF Count, TypeOK
    <3> QED BY <3>1, <3>2
  <2>8. setting' = setting /\ Passed' = Passed
    BY <1>6 DEF Count, Passed, Limit
  <2> HIDE DEF b
  <2> QED BY <1>6, <2>1, <2>5, <2>6, <2>7, <2>8, IncrementedType DEF TypeOK, Count
<1>7. ASSUME NEW w \in Workers, CountFails(w) PROVE TypeOK'
  <2>1. Answer(200, 0) \in Jobs /\ Answer(200, 0).at = "done"
    BY AnswerType, <1>t
  <2>2. /\ job' \in [Workers -> Jobs]
        /\ \A v \in Workers : job'[v].at \in {"count", "reset"} => job'[v].bucket \in Buckets
    BY <1>7, <2>1, JobType DEF CountFails
  <2>3. job[w].bucket \in Buckets
    BY <1>7 DEF CountFails, TypeOK
  <2>4. /\ count' \in [Buckets -> Nat] /\ expires' \in [Buckets -> Nat]
        /\ redisUp' \in BOOLEAN /\ forgotten' \in SUBSET Buckets
    BY <1>7, <2>3, IncrementedType DEF CountFails, TypeOK, redis
  <2> QED BY <1>7, <2>2, <2>4, <1>p DEF TypeOK, CountFails
<1>8. ASSUME NEW w \in Workers, Decide(w) PROVE TypeOK'
  <2> DEFINE s == IF Allowed(job[w].number) THEN 200 ELSE 429
             j == [Answer(s, ResetIn(now)) EXCEPT !.bucket = job[w].bucket]
  <2>1. ResetIn(now) \in Nat
    BY <1>t, WaitEndsInNextWindow, MinuteAssumption
  <2>2. Answer(s, ResetIn(now)) \in Jobs /\ Answer(s, ResetIn(now)).at = "done"
    BY <2>1, <1>t, AnswerType
  <2>3. job[w].bucket \in Buckets
    BY <1>8 DEF Decide, TypeOK
  <2>4. j \in Jobs /\ j.at = "done"
    BY <2>2, <2>3 DEF Jobs
  <2>5. job' = [job EXCEPT ![w] = j]
    BY <1>8 DEF Decide
  <2>6. /\ job' \in [Workers -> Jobs]
        /\ \A v \in Workers : job'[v].at \in {"count", "reset"} => job'[v].bucket \in Buckets
    <3> HIDE DEF j
    <3> QED BY <2>4, <2>5, JobType
  <2> QED BY <1>8, <2>6, <1>p DEF TypeOK, Decide, redis
<1>9. ASSUME NEW w \in Workers, Respond(w) PROVE TypeOK'
  <2>1. Idle \in Jobs /\ Idle.at = "idle"
    BY BoundAssumption DEF Idle, Jobs
  <2>2. /\ job' \in [Workers -> Jobs]
        /\ \A v \in Workers : job'[v].at \in {"count", "reset"} => job'[v].bucket \in Buckets
    BY <1>9, <2>1, JobType DEF Respond
  <2> QED BY <1>9, <2>2, <1>p DEF TypeOK, Respond, redis
<1>10. ASSUME NEW b \in Buckets, Expire(b) \/ Evict(b) PROVE TypeOK'
  BY <1>10, <1>p DEF TypeOK, Expire, Evict
<1>11. CASE UNCHANGED vars
  BY <1>11, <1>p DEF TypeOK, vars, redis
<1> QED BY <1>1, <1>2, <1>3, <1>4, <1>5, <1>6, <1>7, <1>8, <1>9, <1>10, <1>11, <1>p DEF Next

(* Every variable keeps its type, and no request is let through with a     *)
(* number above the limit (RateLimiter.check, security.py:66-83).          *)
THEOREM TypeCorrect == Spec => []TypeOK
BY TypeInit, TypeStep, PTL DEF Spec

-----------------------------------------------------------------------------
(* What a request keeps true from the clock to the answer                  *)

TicketInTime(w) ==
  job[w].at \in {"count", "reset"} =>
    /\ job[w].bucket[2] = WindowOf(job[w].chosen)
    /\ job[w].chosen <= now
    /\ job[w].at = "count" => now - job[w].chosen <= Patience
AnswerInTime(w) ==
  job[w].status = 429 =>
    /\ job[w].bucket \in Buckets
    /\ job[w].bucket[2] <= WindowOf(job[w].answered)
    /\ job[w].reset = ResetIn(job[w].answered)
RequestsInTime == \A w \in Workers : TicketInTime(w) /\ AnswerInTime(w)

LEMMA AnswerHasNoBucket ==
  ASSUME NEW s, NEW r
  PROVE  Answer(s, r).status = s /\ Answer(s, r).at = "done" /\ Answer(s, r).answered = now
         /\ Answer(s, r).reset = r
BY DEF Answer

LEMMA RequestsStep == TypeOK /\ RequestsInTime /\ [Next]_vars => RequestsInTime'
<1> SUFFICES ASSUME TypeOK, RequestsInTime, [Next]_vars, NEW v \in Workers
             PROVE  TicketInTime(v)' /\ AnswerInTime(v)'
  BY DEF RequestsInTime
<1>t. /\ now \in 0..MaxTime /\ job \in [Workers -> Jobs] /\ job[v] \in Jobs
      /\ TicketInTime(v) /\ AnswerInTime(v)
  BY DEF TypeOK, RequestsInTime
<1>u. ASSUME job'[v] = job[v], now' = now PROVE TicketInTime(v)' /\ AnswerInTime(v)'
  BY <1>t, <1>u DEF TicketInTime, AnswerInTime
<1>o. ASSUME NEW w \in Workers, NEW j, job' = [job EXCEPT ![w] = j], now' = now, w # v
      PROVE  TicketInTime(v)' /\ AnswerInTime(v)'
  <2>1. job'[v] = job[v]
    BY <1>o, <1>t
  <2> QED BY <2>1, <1>o, <1>u
<1>1. CASE Tick
  <2>1. job' = job /\ now' = now + 1
    BY <1>1 DEF Tick
  <2>2. job[v].at = "count" => now - job[v].chosen < Patience
    BY <1>1 DEF Tick
  <2>3. job[v].chosen \in Nat /\ Patience \in Nat
    BY <1>t, MinuteAssumption, BoundAssumption DEF Jobs
  <2> QED BY <1>t, <2>1, <2>2, <2>3, BoundAssumption DEF TicketInTime, AnswerInTime
<1>2. ASSUME NEW w \in Workers, Unauthorized(w) \/ Unlimited(w) \/ CountFails(w) \/ Respond(w)
      PROVE  TicketInTime(v)' /\ AnswerInTime(v)'
  <2>1. now' = now /\ \E j \in {Answer(401, 0), Answer(200, 0), Idle} : job' = [job EXCEPT ![w] = j]
    BY <1>2 DEF Unauthorized, Unlimited, CountFails, Respond
  <2>2. PICK j \in {Answer(401, 0), Answer(200, 0), Idle} : job' = [job EXCEPT ![w] = j]
    BY <2>1
  <2>3. j.at \notin {"count", "reset"} /\ j.status # 429
    BY <2>2, AnswerHasNoBucket DEF Idle
  <2>4. CASE w = v
    <3>1. job'[v] = j
      BY <2>2, <2>4, <1>t
    <3> QED BY <3>1, <2>3 DEF TicketInTime, AnswerInTime
  <2> QED BY <2>1, <2>2, <2>4, <1>o
<1>3. ASSUME NEW w \in Workers, Choose(w) PROVE TicketInTime(v)' /\ AnswerInTime(v)'
  <2>1. PICK k \in setting.keys : job' = [job EXCEPT ![w] = Ask(k)]
    BY <1>3 DEF Choose
  <2>2. now' = now
    BY <1>3 DEF Choose
  <2>3. CASE w = v
    <3>1. job'[v] = Ask(k)
      BY <2>1, <2>3, <1>t
    <3>2. /\ Ask(k).bucket[2] = WindowOf(now) /\ Ask(k).chosen = now
          /\ Ask(k).at = "count" /\ Ask(k).status = 0
      BY DEF Ask
    <3> QED BY <3>1, <3>2, <2>2, <1>t, MinuteAssumption, BoundAssumption
        DEF TicketInTime, AnswerInTime
  <2> QED BY <2>1, <2>2, <2>3, <1>o
<1>4. ASSUME NEW w \in Workers, Count(w) PROVE TicketInTime(v)' /\ AnswerInTime(v)'
  <2>1. /\ job[w].at = "count" /\ now' = now
        /\ job' = [job EXCEPT ![w].at = "reset", ![w].number = count[job[w].bucket] + 1]
    BY <1>4 DEF Count
  <2>2. job'[v].at # "count" \/ job'[v] = job[v]
    BY <2>1, <1>t
  <2>3. /\ job'[v].bucket = job[v].bucket /\ job'[v].chosen = job[v].chosen
        /\ job'[v].status = job[v].status /\ job'[v].answered = job[v].answered
        /\ job'[v].reset = job[v].reset
        /\ job'[v].at \in {"count", "reset"} => job[v].at \in {"count", "reset"}
    BY <2>1, <1>t DEF Jobs
  <2> QED BY <2>1, <2>2, <2>3, <1>t DEF TicketInTime, AnswerInTime
<1>5. ASSUME NEW w \in Workers, Decide(w) PROVE TicketInTime(v)' /\ AnswerInTime(v)'
  <2> DEFINE a == Answer(IF Allowed(job[w].number) THEN 200 ELSE 429, ResetIn(now))
             j == [a EXCEPT !.bucket = job[w].bucket]
  <2>1. job[w].at = "reset" /\ job' = [job EXCEPT ![w] = j] /\ now' = now
    BY <1>5 DEF Decide
  <2>2. CASE w = v
    <3>1. job'[v] = j
      BY <2>1, <2>2, <1>t
    <3>2. j.at = "done" /\ j.bucket = job[w].bucket /\ j.answered = now /\ j.reset = ResetIn(now)
      BY DEF Answer
    <3>3. job[v].bucket \in Buckets /\ job[v].bucket[2] = WindowOf(job[v].chosen)
          /\ job[v].chosen \in Nat /\ job[v].chosen <= now
      <4>1. job[v].at = "reset"
        BY <2>1, <2>2
      <4>2. job[v].chosen \in Nat
        BY <1>t, BoundAssumption DEF Jobs
      <4> QED BY <4>1, <4>2, <1>t DEF TypeOK, TicketInTime
    <3>4. job[v].bucket[2] <= WindowOf(now)
      BY <3>3, <1>t, WindowsGrow, BoundAssumption
    <3>5. job'[v].at = "done" /\ job'[v].bucket = job[v].bucket
          /\ job'[v].answered = now /\ job'[v].reset = ResetIn(now)
      BY <3>1, <3>2, <2>2
    <3> HIDE DEF j
    <3> QED BY <3>3, <3>4, <3>5 DEF TicketInTime, AnswerInTime
  <2> HIDE DEF j
  <2> QED BY <2>1, <2>2, <1>o
<1>6. CASE \/ Start \/ RedisStops \/ RedisStarts \/ UNCHANGED vars
           \/ \E b \in Buckets : Expire(b) \/ Evict(b)
  BY <1>6, <1>u DEF Start, RedisStops, RedisStarts, Expire, Evict, vars
<1> QED BY <1>1, <1>2, <1>3, <1>4, <1>5, <1>6 DEF Next

(* A caller that waits for Retry-After comes back in a later window than   *)
(* the one it was refused in, and waits a minute at most, although the     *)
(* window and the wait are from two looks at the clock                     *)
(* (security.py:70 and 83).                                                *)
THEOREM RetryAfterIsEnough == Spec => []RetryLandsInNewWindow
<1>1. Init => RequestsInTime
  BY DEF Init, RequestsInTime, TicketInTime, AnswerInTime, Idle
<1>2. TypeOK /\ RequestsInTime => RetryLandsInNewWindow
  <2> SUFFICES ASSUME TypeOK, RequestsInTime, NEW w \in Workers, job[w].status = 429
               PROVE  /\ WindowOf(job[w].answered + job[w].reset) > job[w].bucket[2]
                      /\ job[w].reset <= Minute
    BY DEF RetryLandsInNewWindow
  <2>1. job[w].answered \in Nat /\ AnswerInTime(w)
    BY BoundAssumption DEF TypeOK, Jobs, RequestsInTime
  <2>2. job[w].bucket[2] \in Nat
    BY <2>1, InsideWindow, BoundAssumption DEF AnswerInTime, Buckets
  <2>3. /\ WindowOf(job[w].answered + ResetIn(job[w].answered)) = WindowOf(job[w].answered) + 1
        /\ ResetIn(job[w].answered) \in 1..Minute
        /\ WindowOf(job[w].answered) \in Nat
    BY <2>1, WaitEndsInNextWindow, InsideWindow
  <2> QED BY <2>1, <2>2, <2>3, MinuteAssumption DEF AnswerInTime
<1> QED BY <1>1, <1>2, RequestsStep, TypeInit, TypeStep, PTL DEF Spec

-----------------------------------------------------------------------------
(* The numbers that are let through                                        *)

BucketOf(r) == <<r.key, WindowOf(r.at)>>

\* Every request of a bucket is counted by then: two windows after it began.
Over(b) == now >= Minute * b[2] + 2 * Minute

KeptLongEnough ==
  \A b \in Buckets : count[b] > 0 => expires[b] >= Minute * b[2] + 2 * Minute
StillCounted ==
  \A r \in passed :
    BucketOf(r) \in forgotten \/ r.number <= count[BucketOf(r)] \/ Over(BucketOf(r))
NumbersDiffer ==
  \A r, s \in passed :
    BucketOf(r) = BucketOf(s) /\ r.number = s.number => r = s \/ BucketOf(r) \in forgotten

IInv == TypeOK /\ RequestsInTime /\ KeptLongEnough /\ StillCounted /\ NumbersDiffer

LEMMA BucketOfPassed ==
  ASSUME TypeOK, NEW r \in passed
  PROVE  /\ BucketOf(r) \in Buckets
         /\ r.key \in Keys /\ r.at \in 0..MaxTime /\ r.number \in 1..Limit
<1>1. r.key \in Keys /\ r.at \in 0..MaxTime /\ r.number \in 1..Limit
  BY DEF TypeOK, Passed
<1> QED BY <1>1, BucketOfMoment DEF BucketOf

LEMMA BucketTime ==
  ASSUME NEW b \in Buckets
  PROVE  b[2] \in Nat /\ Minute * b[2] \in Nat
<1>1. b[2] \in Nat
  BY InsideWindow, BoundAssumption DEF Buckets
<1>2. ASSUME NEW q \in Nat PROVE Minute * q \in Nat
  BY MinuteAssumption, SMT
<1> QED BY <1>1, <1>2

(* A request that is about to be counted is not late for its bucket.       *)
LEMMA NotOver ==
  ASSUME TypeOK, RequestsInTime, NEW w \in Workers, job[w].at = "count"
  PROVE  LET b == job[w].bucket IN
         /\ b \in Buckets /\ ~Over(b) /\ Minute * b[2] <= now
         /\ b[2] = WindowOf(job[w].chosen)
<1>1. /\ job[w].bucket \in Buckets /\ job[w].chosen \in Nat /\ now \in Nat
      /\ job[w].bucket[2] = WindowOf(job[w].chosen)
      /\ job[w].chosen <= now /\ now - job[w].chosen <= Patience
  BY BoundAssumption DEF TypeOK, Jobs, RequestsInTime, TicketInTime
<1>2. Minute * job[w].bucket[2] <= job[w].chosen /\ job[w].chosen < Minute * job[w].bucket[2] + Minute
  BY <1>1, InsideWindow
<1>3. Minute * job[w].bucket[2] \in Nat
  BY <1>1, BucketTime
<1> QED BY <1>1, <1>2, <1>3, MinuteAssumption DEF Over

(* A counter that is counted up in time is kept for long enough.           *)
LEMMA IncrementedInvariant ==
  ASSUME IInv, NEW c \in Buckets, Minute * c[2] <= now, Incremented(c)
  PROVE  /\ KeptLongEnough'
         /\ \A b \in Buckets : count'[b] >= count[b]
         /\ count'[c] = count[c] + 1 /\ forgotten' = forgotten
<1>1. /\ count \in [Buckets -> Nat] /\ expires \in [Buckets -> Nat]
      /\ now \in 0..MaxTime
  BY DEF IInv, TypeOK
<1>2. /\ count' = [count EXCEPT ![c] = @ + 1] /\ expires' = [expires EXCEPT ![c] = now + 2 * Minute]
      /\ forgotten' = forgotten
  BY DEF Incremented, Lifetime
<1>3. ASSUME NEW b \in Buckets, count'[b] > 0 PROVE expires'[b] >= Minute * b[2] + 2 * Minute
  <2>1. CASE b = c
    <3>1. expires'[b] = now + 2 * Minute
      BY <1>1, <1>2, <2>1
    <3> QED BY <3>1, <2>1, <1>1, BucketTime, MinuteAssumption
  <2>2. CASE b # c
    BY <1>1, <1>2, <1>3, <2>2 DEF IInv, KeptLongEnough
  <2> QED BY <2>1, <2>2
<1>4. \A b \in Buckets : count'[b] >= count[b]
  BY <1>1, <1>2
<1> QED BY <1>1, <1>2, <1>3, <1>4 DEF KeptLongEnough

LEMMA NumbersStep == IInv /\ [Next]_vars => KeptLongEnough' /\ StillCounted' /\ NumbersDiffer'
<1> SUFFICES ASSUME IInv, [Next]_vars PROVE KeptLongEnough' /\ StillCounted' /\ NumbersDiffer'
  OBVIOUS
<1>t. /\ TypeOK /\ RequestsInTime /\ KeptLongEnough /\ StillCounted /\ NumbersDiffer
      /\ count \in [Buckets -> Nat] /\ now \in 0..MaxTime
  BY DEF IInv, TypeOK
<1>u. ASSUME UNCHANGED <<now, count, expires, forgotten, passed>>
      PROVE  KeptLongEnough' /\ StillCounted' /\ NumbersDiffer'
  BY <1>t, <1>u DEF KeptLongEnough, StillCounted, NumbersDiffer, Over, BucketOf
<1>1. CASE Tick
  <2>1. now' = now + 1 /\ UNCHANGED <<count, expires, forgotten, passed>>
    BY <1>1 DEF Tick, redis
  <2>2. \A b \in Buckets : Over(b) => Over(b)'
    BY <2>1, <1>t, BucketTime, MinuteAssumption DEF Over
  <2>3. StillCounted'
    <3> SUFFICES ASSUME NEW r \in passed
                 PROVE  (BucketOf(r) \in forgotten \/ r.number <= count[BucketOf(r)] \/ Over(BucketOf(r)))'
      BY <2>1 DEF StillCounted
    <3> QED BY <2>1, <2>2, <1>t, BucketOfPassed DEF StillCounted, BucketOf
  <2> QED BY <2>1, <2>3, <1>t DEF KeptLongEnough, NumbersDiffer, BucketOf
<1>2. ASSUME NEW w \in Workers, Count(w)
      PROVE  KeptLongEnough' /\ StillCounted' /\ NumbersDiffer'
  <2> DEFINE c == job[w].bucket
             new == [key |-> c[1], at |-> job[w].chosen, number |-> count[c] + 1]
  <2>1. c \in Buckets /\ ~Over(c) /\ Minute * c[2] <= now /\ c[2] = WindowOf(job[w].chosen)
    BY <1>2, <1>t, NotOver DEF Count
  <2>2. Incremented(c) /\ now' = now /\ passed' \in {passed, passed \union {new}}
    BY <1>2 DEF Count
  <2>3. /\ KeptLongEnough'
        /\ \A b \in Buckets : count'[b] >= count[b]
        /\ count'[c] = count[c] + 1 /\ forgotten' = forgotten
    BY <2>1, <2>2, IncrementedInvariant
  <2>4. /\ new.number = count[c] + 1 /\ BucketOf(new) = c
    BY <2>1 DEF BucketOf, Buckets
  <2>5. \A b : Over(b)' <=> Over(b)
    BY <2>2 DEF Over
  <2>6. /\ count' \in [Buckets -> Nat]
    BY <2>1, <2>2, <1>t, IncrementedType
  <2> HIDE DEF c, new
  <2>7. StillCounted'
    <3> SUFFICES ASSUME NEW r \in passed',
                        BucketOf(r) \notin forgotten, ~Over(BucketOf(r))
                 PROVE  r.number <= count'[BucketOf(r)]
      BY <2>3, <2>5 DEF StillCounted, BucketOf
    <3>1. CASE r \in passed
      <4>1. r.number <= count[BucketOf(r)] /\ BucketOf(r) \in Buckets /\ r.number \in Int
        BY <3>1, <1>t, BucketOfPassed DEF StillCounted
      <4> QED BY <4>1, <2>3, <2>6, <1>t
    <3>2. CASE r = new
      BY <3>2, <2>1, <2>3, <2>4, <1>t
    <3> QED BY <3>1, <3>2, <2>2
  <2>8. NumbersDiffer'
    <3>1. ASSUME NEW r \in passed, BucketOf(r) = c, r.number = count[c] + 1
          PROVE  c \in forgotten
      <4>1. r.number <= count[c] \/ c \in forgotten
        BY <3>1, <2>1, <1>t DEF StillCounted
      <4> QED BY <4>1, <3>1, <2>1, <1>t
    <3> SUFFICES ASSUME NEW r \in passed', NEW s \in passed',
                        BucketOf(r) = BucketOf(s), r.number = s.number, r # s
                 PROVE  BucketOf(r) \in forgotten'
      BY DEF NumbersDiffer, BucketOf
    <3>2. CASE r \in passed /\ s \in passed
      BY <3>2, <2>3, <1>t DEF NumbersDiffer
    <3>3. CASE r = new \/ s = new
      BY <3>1, <3>3, <2>2, <2>3, <2>4
    <3> QED BY <3>2, <3>3, <2>2
  <2> QED BY <2>3, <2>7, <2>8
<1>3. ASSUME NEW w \in Workers, CountFails(w)
      PROVE  KeptLongEnough' /\ StillCounted' /\ NumbersDiffer'
  <2> DEFINE c == job[w].bucket
  <2>1. now' = now /\ passed' = passed /\ (UNCHANGED redis \/ Incremented(c))
    BY <1>3 DEF CountFails
  <2>2. CASE UNCHANGED redis
    BY <2>1, <2>2, <1>u DEF redis
  <2>3. CASE Incremented(c)
    <3>1. c \in Buckets /\ Minute * c[2] <= now
      BY <1>3, <1>t, NotOver DEF CountFails
    <3>2. /\ KeptLongEnough'
          /\ \A b \in Buckets : count'[b] >= count[b]
          /\ forgotten' = forgotten
      BY <3>1, <2>3, IncrementedInvariant
    <3>3. count' \in [Buckets -> Nat]
      BY <3>1, <2>3, <1>t, IncrementedType
    <3>4. StillCounted'
      <4> SUFFICES ASSUME NEW r \in passed,
                          BucketOf(r) \notin forgotten, ~Over(BucketOf(r))
                   PROVE  r.number <= count'[BucketOf(r)]
        BY <2>1, <3>2 DEF StillCounted, BucketOf, Over
      <4>1. r.number <= count[BucketOf(r)] /\ BucketOf(r) \in Buckets /\ r.number \in Int
        BY <1>t, BucketOfPassed DEF StillCounted
      <4> QED BY <4>1, <3>2, <3>3, <1>t
    <3> QED BY <3>2, <3>4, <2>1, <1>t DEF NumbersDiffer, BucketOf
  <2> QED BY <2>1, <2>2, <2>3
<1>4. ASSUME NEW b \in Buckets, Expire(b)
      PROVE  KeptLongEnough' /\ StillCounted' /\ NumbersDiffer'
  <2>1. /\ count[b] > 0 /\ now >= expires[b] /\ count' = [count EXCEPT ![b] = 0]
        /\ UNCHANGED <<now, expires, forgotten, passed>>
    BY <1>4 DEF Expire
  <2>2. Over(b)
    BY <2>1, <1>t, BucketTime, MinuteAssumption DEF KeptLongEnough, Over, TypeOK
  <2>3. KeptLongEnough'
    BY <2>1, <1>t DEF KeptLongEnough
  <2>4. StillCounted'
    BY <2>1, <2>2, <1>t DEF StillCounted, BucketOf, Over
  <2> QED BY <2>1, <2>3, <2>4, <1>t DEF NumbersDiffer, BucketOf
<1>5. ASSUME NEW b \in Buckets, Evict(b)
      PROVE  KeptLongEnough' /\ StillCounted' /\ NumbersDiffer'
  <2>1. /\ count' = [count EXCEPT ![b] = 0] /\ forgotten' = forgotten \union {b}
        /\ UNCHANGED <<now, expires, passed>>
    BY <1>5 DEF Evict
  <2>2. KeptLongEnough'
    BY <2>1, <1>t DEF KeptLongEnough
  <2>3. StillCounted'
    BY <2>1, <1>t DEF StillCounted, BucketOf, Over
  <2> QED BY <2>1, <2>2, <2>3, <1>t DEF NumbersDiffer, BucketOf
<1>6. CASE RedisStarts
  <2>1. UNCHANGED <<now, expires, passed>>
    BY <1>6 DEF RedisStarts
  <2>2. CASE UNCHANGED <<count, forgotten>>
    BY <2>1, <2>2, <1>u
  <2>3. CASE /\ count' = [b \in Buckets |-> 0]
             /\ forgotten' = forgotten \union {b \in Buckets : count[b] > 0}
    <3>1. KeptLongEnough'
      BY <2>3 DEF KeptLongEnough
    <3>2. StillCounted'
      <4> SUFFICES ASSUME NEW r \in passed,
                          BucketOf(r) \notin forgotten', ~Over(BucketOf(r))
                   PROVE  FALSE
        BY <2>1 DEF StillCounted, BucketOf, Over
      <4>1. BucketOf(r) \in Buckets /\ r.number \in 1..Limit
        BY <1>t, BucketOfPassed
      <4>2. r.number <= count[BucketOf(r)]
        BY <2>3, <1>t DEF StillCounted
      <4>3. count[BucketOf(r)] > 0
        BY <4>1, <4>2, <1>t
      <4> QED BY <4>1, <4>3, <2>3
    <3> QED BY <3>1, <3>2, <2>1, <2>3, <1>t DEF NumbersDiffer, BucketOf
  <2> QED BY <1>6, <2>2, <2>3 DEF RedisStarts
<1>7. CASE \/ Start \/ RedisStops \/ UNCHANGED vars
           \/ \E w \in Workers : Unauthorized(w) \/ Unlimited(w) \/ Choose(w) \/ Decide(w) \/ Respond(w)
  BY <1>7, <1>u DEF Start, RedisStops, Unauthorized, Unlimited, Choose, Decide, Respond, vars, redis
<1> QED BY <1>1, <1>2, <1>3, <1>4, <1>5, <1>6, <1>7 DEF Next

(* Numbers of one bucket that are all different and within the limit: the  *)
(* records of one minute inject into two windows times the numbers.        *)
LEMMA TwoWindowsOfNumbers ==
  ASSUME TypeOK, NumbersDiffer, NEW k \in Keys, NEW t \in 0..MaxTime, Limit > 0,
         \A b \in forgotten : b[1] # k \/ b[2] \notin {WindowOf(t), WindowOf(t) + 1}
  PROVE  Cardinality(PassedFrom(k, t)) <= 2 * Limit
<1> DEFINE S == PassedFrom(k, t)
           T == 1..2 * Limit
           f == [r \in S |-> (WindowOf(r.at) - WindowOf(t)) * Limit + r.number]
<1>1. Limit \in Nat /\ t \in Nat
  BY SettingAssumption, BoundAssumption DEF TypeOK, Limit
<1>2. ASSUME NEW r \in S
      PROVE  /\ r \in passed /\ r.key = k /\ r.number \in 1..Limit /\ r.at \in Nat
             /\ WindowOf(r.at) - WindowOf(t) \in {0, 1}
             /\ WindowOf(r.at) \in {WindowOf(t), WindowOf(t) + 1}
             /\ BucketOf(r) \notin forgotten
  <2>1. r \in passed /\ r.key = k /\ t <= r.at /\ r.at < t + Minute
    BY DEF PassedFrom
  <2>2. r.number \in 1..Limit /\ r.at \in Nat
    BY <2>1, BucketOfPassed, BoundAssumption
  <2>3. WindowOf(r.at) - WindowOf(t) \in {0, 1} /\ WindowOf(r.at) \in Nat /\ WindowOf(t) \in Nat
    BY <2>1, <2>2, <1>1, MinuteTouchesTwo, InsideWindow
  <2>4. WindowOf(r.at) \in {WindowOf(t), WindowOf(t) + 1}
    BY <2>3
  <2> QED BY <2>1, <2>2, <2>3, <2>4 DEF BucketOf
<1>3. ASSUME NEW r \in S PROVE f[r] \in T
  <2>1. CASE WindowOf(r.at) - WindowOf(t) = 0
    <3>1. f[r] = 0 * Limit + r.number
      BY <2>1
    <3> QED BY <3>1, <1>1, <1>2
  <2>2. CASE WindowOf(r.at) - WindowOf(t) = 1
    <3>1. f[r] = 1 * Limit + r.number
      BY <2>2
    <3> QED BY <3>1, <1>1, <1>2
  <2> QED BY <1>2, <2>1, <2>2
<1>4. ASSUME NEW r \in S, NEW s \in S, f[r] = f[s] PROVE r = s
  <2> DEFINE a == WindowOf(r.at) - WindowOf(t)
             b == WindowOf(s.at) - WindowOf(t)
  <2>1. a \in {0, 1} /\ b \in {0, 1} /\ r.number \in 1..Limit /\ s.number \in 1..Limit
    BY <1>2
  <2>2. a * Limit + r.number = b * Limit + s.number
    BY <1>4
  <2>3. a = b /\ r.number = s.number
    <3> HIDE DEF a, b
    <3> QED BY <2>1, <2>2, <1>1
  <2>4. WindowOf(r.at) = WindowOf(s.at)
    BY <2>3, <1>2, <1>1, InsideWindow
  <2> QED BY <2>3, <2>4, <1>2 DEF NumbersDiffer, BucketOf
<1>5. f \in Injection(S, T)
  <2>1. f \in [S -> T]
    BY <1>3
  <2>2. \A r, s \in S : f[r] = f[s] => r = s
    BY <1>4
  <2> HIDE DEF f, S, T
  <2> QED BY <2>1, <2>2 DEF Injection, IsInjective
<1>6. IsFiniteSet(T) /\ Cardinality(T) = 2 * Limit
  <2>1. 2 * Limit \in Nat
    BY <1>1
  <2> QED BY <2>1, FS_Interval, <1>1
<1> HIDE DEF f, S, T
<1>7. Cardinality(S) <= Cardinality(T)
  BY <1>5, <1>6, FS_Injection
<1> QED BY <1>6, <1>7 DEF S

(* Over all replicas, a key gets at most twice the limit through in any    *)
(* minute, wherever it begins (the burst the docstring of RateLimiter      *)
(* admits, security.py:41-50), unless Redis lost a counter of the two      *)
(* windows: the lifetime of a counter, two windows, is what requests that  *)
(* are up to a window late need.                                           *)
THEOREM LimitHoldsOverReplicas == Spec => []AtMostTwicePerMinute
<1>1. Init => IInv
  <2>1. Init => RequestsInTime
    BY DEF Init, RequestsInTime, TicketInTime, AnswerInTime, Idle
  <2>2. Init => KeptLongEnough /\ StillCounted /\ NumbersDiffer
    BY DEF Init, KeptLongEnough, StillCounted, NumbersDiffer
  <2> QED BY <2>1, <2>2, TypeInit DEF IInv
<1>2. IInv /\ [Next]_vars => IInv'
  BY TypeStep, RequestsStep, NumbersStep DEF IInv
<1>3. IInv => AtMostTwicePerMinute
  BY TwoWindowsOfNumbers DEF IInv, AtMostTwicePerMinute
<1> QED BY <1>1, <1>2, <1>3, PTL DEF Spec
=============================================================================
