----------------------------- MODULE RateLimiter -----------------------------
(***************************************************************************)
(* fraud/api/security.py: require_api_key on the request threads of all    *)
(* API replicas (Workers), and the counters in Redis they share.  A        *)
(* counter belongs to a key and a window of Minute ticks; Redis drops it   *)
(* two windows after its last increment, when it is short of memory, or    *)
(* when it is restarted without its data.                                  *)
(***************************************************************************)
EXTENDS Integers, FiniteSets

CONSTANTS Workers,
          Keys,       \* the X-API-Key values callers send
          Settings,   \* the environments: [keys: API_KEYS,
                      \* allow: ALLOW_UNAUTHENTICATED, limit: RATE_LIMIT_PER_MIN]
          Minute,     \* ticks in 60 seconds
          Patience,   \* the longest a request takes from the clock to Redis
          MaxTime, MaxCalls, MaxLosses

ASSUME SettingAssumption == Settings \subseteq [keys : SUBSET Keys, allow : BOOLEAN, limit : Int]
ASSUME MinuteAssumption == Minute \in Nat \ {0} /\ Patience \in 0..Minute
ASSUME BoundAssumption == MaxTime \in Nat /\ MaxCalls \in Nat /\ MaxLosses \in Nat

WindowOf(t) == t \div Minute
Buckets == Keys \X (0..WindowOf(MaxTime))

VARIABLES
  setting,    \* the environment the replicas were started with
  up,         \* whether the process has started
  now,        \* the clock of the replicas
  redisUp,
  count,      \* the counter of each bucket: 0 when Redis has none
  expires,    \* when Redis drops it
  job,        \* the request each worker is working on
  calls,      \* requests so far
  passed,     \* history: the requests a counter let through: the key, the
              \* time the window was chosen, and the number INCR returned
  forgotten   \* history: buckets whose counter Redis lost before its time

Limit == setting.limit
AuthDisabled == setting.keys = {}

redis == <<redisUp, count, expires, forgotten>>
vars == <<setting, up, now, redis, job, calls, passed>>

\* status 0: no answer yet; answered: when the answer was made.
Idle == [at |-> "idle", bucket |-> <<>>, chosen |-> 0, number |-> 0,
         status |-> 0, reset |-> 0, answered |-> 0]
Ask(k) == [at |-> "count", bucket |-> <<k, WindowOf(now)>>, chosen |-> now, number |-> 0,
           status |-> 0, reset |-> 0, answered |-> 0]
Answer(status, reset) == [at |-> "done", bucket |-> <<>>, chosen |-> 0, number |-> 0,
                          status |-> status, reset |-> reset, answered |-> now]

Init ==
  /\ setting \in Settings
  /\ up = FALSE
  /\ now = 0
  /\ redisUp = TRUE
  /\ count = [b \in Buckets |-> 0]
  /\ expires = [b \in Buckets |-> 0]
  /\ job = [w \in Workers |-> Idle]
  /\ calls = 0
  /\ passed = {}
  /\ forgotten = {}

\* _load_keys: without keys the process only starts when told to.
Start ==
  /\ ~up
  /\ ~AuthDisabled \/ setting.allow
  /\ up' = TRUE
  /\ UNCHANGED <<setting, now, redis, job, calls, passed>>

-----------------------------------------------------------------------------
(* require_api_key *)

Arrives(w) == up /\ job[w].at = "idle" /\ calls < MaxCalls

\* 401 for a key that is not configured; the limiter is not asked.
Unauthorized(w) ==
  /\ Arrives(w)
  /\ ~AuthDisabled
  /\ Keys \ setting.keys # {}
  /\ calls' = calls + 1
  /\ job' = [job EXCEPT ![w] = Answer(401, 0)]
  /\ UNCHANGED <<setting, up, now, redis, passed>>

\* No authentication, or no limit: the request goes through uncounted.
Unlimited(w) ==
  /\ Arrives(w)
  /\ AuthDisabled \/ Limit <= 0
  /\ calls' = calls + 1
  /\ job' = [job EXCEPT ![w] = Answer(200, 0)]
  /\ UNCHANGED <<setting, up, now, redis, passed>>

\* RateLimiter.check: the clock chooses the bucket.
Choose(w) ==
  /\ Arrives(w)
  /\ ~AuthDisabled /\ Limit > 0
  /\ \E k \in setting.keys : job' = [job EXCEPT ![w] = Ask(k)]
  /\ calls' = calls + 1
  /\ UNCHANGED <<setting, up, now, redis, passed>>

\* Mutant: the counter is kept for as long as its window.
LifetimeOneMinute == Minute
Lifetime == 2 * Minute

\* Mutant: the limit is one off.
AllowedOneMore(n) == n <= Limit + 1
Allowed(n) == n <= Limit

\* INCR and EXPIRE, in one transaction.
Incremented(b) ==
  /\ redisUp
  /\ count' = [count EXCEPT ![b] = @ + 1]
  /\ expires' = [expires EXCEPT ![b] = now + Lifetime]
  /\ UNCHANGED <<redisUp, forgotten>>

Count(w) ==
  LET b == job[w].bucket
  IN  /\ job[w].at = "count"
      /\ Incremented(b)
      /\ job' = [job EXCEPT ![w].at = "reset", ![w].number = count[b] + 1]
      /\ passed' = IF Allowed(count[b] + 1)
                   THEN passed \union {[key |-> b[1], at |-> job[w].chosen, number |-> count[b] + 1]}
                   ELSE passed
      /\ UNCHANGED <<setting, up, now, calls>>

\* RedisError, also when the transaction ran and the reply is lost: fail open.
CountFails(w) ==
  /\ job[w].at = "count"
  /\ \/ UNCHANGED redis
     \/ Incremented(job[w].bucket)
  /\ job' = [job EXCEPT ![w] = Answer(200, 0)]
  /\ UNCHANGED <<setting, up, now, calls, passed>>

\* Mutant: the seconds of the minute, not those left of it.
ResetInElapsed(t) == t % Minute
ResetIn(t) == Minute - (t % Minute)

\* The time to the reset is from a second look at the clock.
Decide(w) ==
  /\ job[w].at = "reset"
  /\ job' = [job EXCEPT ![w] = [Answer(IF Allowed(job[w].number) THEN 200 ELSE 429, ResetIn(now))
                                  EXCEPT !.bucket = job[w].bucket]]
  /\ UNCHANGED <<setting, up, now, redis, calls, passed>>

Respond(w) ==
  /\ job[w].at = "done"
  /\ job' = [job EXCEPT ![w] = Idle]
  /\ UNCHANGED <<setting, up, now, redis, calls, passed>>

-----------------------------------------------------------------------------
Tick ==
  /\ now < MaxTime
  /\ \A w \in Workers : job[w].at = "count" => now - job[w].chosen < Patience
  /\ now' = now + 1
  /\ UNCHANGED <<setting, up, redis, job, calls, passed>>

Expire(b) ==
  /\ count[b] > 0
  /\ now >= expires[b]
  /\ count' = [count EXCEPT ![b] = 0]
  /\ UNCHANGED <<setting, up, now, redisUp, expires, forgotten, job, calls, passed>>

Evict(b) ==
  /\ count[b] > 0
  /\ Cardinality(forgotten) < MaxLosses
  /\ count' = [count EXCEPT ![b] = 0]
  /\ forgotten' = forgotten \union {b}
  /\ UNCHANGED <<setting, up, now, redisUp, expires, job, calls, passed>>

RedisStops ==
  /\ redisUp
  /\ redisUp' = FALSE
  /\ UNCHANGED <<setting, up, now, count, expires, forgotten, job, calls, passed>>

\* It comes back with its data or without.
RedisStarts ==
  /\ ~redisUp
  /\ redisUp' = TRUE
  /\ \/ UNCHANGED <<count, forgotten>>
     \/ /\ Cardinality(forgotten) < MaxLosses
        /\ count' = [b \in Buckets |-> 0]
        /\ forgotten' = forgotten \union {b \in Buckets : count[b] > 0}
  /\ UNCHANGED <<setting, up, now, expires, job, calls, passed>>

Next ==
  \/ Start \/ Tick \/ RedisStops \/ RedisStarts
  \/ \E w \in Workers : \/ Unauthorized(w) \/ Unlimited(w) \/ Choose(w) \/ Count(w)
                        \/ CountFails(w) \/ Decide(w) \/ Respond(w)
  \/ \E b \in Buckets : Expire(b) \/ Evict(b)

Spec == Init /\ [][Next]_vars

-----------------------------------------------------------------------------
(* Properties *)

Passed == [key : Keys, at : 0..MaxTime, number : 1..Limit]
Jobs == [at : {"idle", "count", "reset", "done"}, bucket : Buckets \union {<<>>},
         chosen : 0..MaxTime, number : Nat,
         status : {0, 200, 401, 429}, reset : Nat, answered : 0..MaxTime]

\* The variables' types; nothing is let through with a number above Limit.
TypeOK ==
  /\ setting \in Settings
  /\ up \in BOOLEAN /\ redisUp \in BOOLEAN
  /\ now \in 0..MaxTime /\ calls \in Nat
  /\ count \in [Buckets -> Nat]
  /\ expires \in [Buckets -> Nat]
  /\ job \in [Workers -> Jobs]
  /\ \A w \in Workers : job[w].at \in {"count", "reset"} => job[w].bucket \in Buckets
  /\ passed \in SUBSET Passed
  /\ forgotten \in SUBSET Buckets

\* The limit holds over all replicas: in any minute, wherever it begins, the
\* counters let through at most twice the limit of one key (the burst across a
\* window boundary that the class's docstring names), unless Redis has lost one
\* of the counters.  It needs the counter to outlive its window by as much as
\* the slowest request is late.
PassedFrom(k, t) == {r \in passed : r.key = k /\ t <= r.at /\ r.at < t + Minute}
AtMostTwicePerMinute ==
  \A k \in Keys, t \in 0..MaxTime :
    /\ Limit > 0
    /\ \A b \in forgotten : b[1] # k \/ b[2] \notin {WindowOf(t), WindowOf(t) + 1}
    => Cardinality(PassedFrom(k, t)) <= 2 * Limit

\* A caller that waits for Retry-After asks again in a later window than the
\* one it was turned away in, although the clock was read twice, and waits no
\* longer than a minute.
RetryLandsInNewWindow ==
  \A w \in Workers :
    job[w].status = 429 =>
      /\ WindowOf(job[w].answered + job[w].reset) > job[w].bucket[2]
      /\ job[w].reset <= Minute
=============================================================================
