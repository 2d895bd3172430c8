------------------------------ MODULE RateLimit ------------------------------
(***************************************************************************)
(* The token buckets of ratelimit.py: one per scope in Redis (the Lua       *)
(* script) and, for the checks Redis does not answer, one per scope in the  *)
(* memory of the bridge.  A bucket is refilled lazily, by the time since    *)
(* the last check.  Tokens are counted in parts, Unit of them to a token,   *)
(* so that rates below one token a second are whole numbers; time is        *)
(* counted in seconds.                                                      *)
(***************************************************************************)
EXTENDS Integers

CONSTANTS
    Scopes,      \* buckets: pairs of actor and scope
    Unit,        \* parts of a token
    Burst,       \* capacity of a bucket, in tokens
    Refill,      \* parts gained per second
    Slack,       \* seconds a bucket outlives being full (60)
    MaxJump,     \* bound: seconds the clock of Redis is moved at once
    NoBucket

ASSUME RateLimitAssumption ==
    /\ Unit \in Nat \ {0} /\ Burst \in Nat \ {0} /\ Refill \in Nat \ {0}
    /\ Slack \in Nat \ {0} /\ MaxJump \in Nat
    /\ NoBucket \notin [tokens : Int, age : Int]

VARIABLES
    redis,     \* bucket:{actor}:{scope}: [tokens, age], age = TIME - last_refill_ms
    memory,    \* RateLimiter._buckets
    redisUp,
    credit     \* history: parts an eagerly refilled bucket would hold

limitVars == <<redis, memory, redisUp, credit>>

Full == Burst * Unit

(* A divided by B, rounded up (math.ceil).                                  *)
CeilDiv(a, b) == (a + b - 1) \div b

(* Seconds that fill an empty bucket, and the life of an idle one.          *)
FillTime == CeilDiv(Full, Refill)
IdleLife == FillTime + Slack

AtMost(a, b) == IF a <= b THEN a ELSE b

(* Every variable keeps its type; an idle bucket is gone when IdleLife is.  *)
LimitTypeOK ==
    /\ redis \in [Scopes -> [tokens : 0..Full, age : Int] \cup {NoBucket}]
    /\ \A s \in Scopes : redis[s] # NoBucket => redis[s].age < IdleLife
    /\ memory \in [Scopes -> [tokens : 0..Full, age : 0..FillTime] \cup {NoBucket}]
    /\ credit \in [Scopes -> [redis : Int, memory : Int]]
    /\ redisUp \in BOOLEAN

LimitInit ==
    /\ redis = [s \in Scopes |-> NoBucket]
    /\ memory = [s \in Scopes |-> NoBucket]
    /\ redisUp = TRUE
    /\ credit = [s \in Scopes |-> [redis |-> Full, memory |-> Full]]

----------------------------------------------------------------------------
(* One check of a bucket                                                    *)

(* Mutant: the refill is not capped by the burst.                           *)
Refilled_Uncapped(bucket) ==
    IF bucket = NoBucket THEN Full
    ELSE bucket.tokens + (IF bucket.age > 0 THEN bucket.age * Refill ELSE 0)

(* A missing bucket is full; time that ran backwards refills nothing.       *)
Refilled(bucket) ==
    IF bucket = NoBucket THEN Full
    ELSE AtMost(Full, bucket.tokens + (IF bucket.age > 0 THEN bucket.age * Refill ELSE 0))

Allowed(bucket) == Refilled(bucket) >= Unit

(* The time of the check is stored whether a token was taken or not.        *)
AfterCheck(bucket) ==
    [tokens |-> Refilled(bucket) - (IF Allowed(bucket) THEN Unit ELSE 0), age |-> 0]

(* Retry-After of require_rate: whole seconds, rounded up, at least one.    *)
RetryAfter(bucket) ==
    LET wait == CeilDiv(Unit - Refilled(bucket), Refill)
    IN  IF wait < 1 THEN 1 ELSE wait

(* check_async: Redis answers, or the bucket in memory does.                *)
Bucket(s) == IF redisUp THEN redis[s] ELSE memory[s]

Check(s) ==
    /\ IF redisUp
       THEN /\ redis' = [redis EXCEPT ![s] = AfterCheck(redis[s])]
            /\ credit' = [credit EXCEPT ![s].redis = @ - (IF Allowed(redis[s]) THEN Unit ELSE 0)]
            /\ UNCHANGED memory
       ELSE /\ memory' = [memory EXCEPT ![s] = AfterCheck(memory[s])]
            /\ credit' = [credit EXCEPT ![s].memory = @ - (IF Allowed(memory[s]) THEN Unit ELSE 0)]
            /\ UNCHANGED redis
    /\ UNCHANGED redisUp

----------------------------------------------------------------------------
(* Time and faults                                                          *)

(* EXPIRE: the key goes with the second in which its life ends.             *)
Aged(bucket, seconds) ==
    IF bucket = NoBucket \/ bucket.age + seconds >= IdleLife THEN NoBucket
    ELSE [bucket EXCEPT !.age = @ + seconds]

(* A second passes.  The age of a bucket in memory is capped where it is    *)
(* full again: time.monotonic never runs backwards.                         *)
Second ==
    /\ redis' = [s \in Scopes |-> Aged(redis[s], 1)]
    /\ memory' = [s \in Scopes |->
          IF memory[s] # NoBucket /\ memory[s].age < FillTime
          THEN [memory[s] EXCEPT !.age = @ + 1] ELSE memory[s]]
    /\ credit' = [s \in Scopes |-> [redis |-> AtMost(Full, credit[s].redis + Refill),
                                    memory |-> AtMost(Full, credit[s].memory + Refill)]]
    /\ UNCHANGED redisUp

(* The wall clock, from which the script takes its time, is moved forward   *)
(* or back.  Only a step forward may let anybody in earlier.                *)
ClockJumps(seconds) ==
    /\ redis' = [s \in Scopes |-> Aged(redis[s], seconds)]
    /\ credit' = [s \in Scopes |->
          [credit[s] EXCEPT !.redis = IF seconds > 0 THEN AtMost(Full, @ + seconds * Refill)
                                      ELSE @]]
    /\ UNCHANGED <<memory, redisUp>>

(* Redis stops, and comes back empty: it runs without persistence.          *)
RedisStops ==
    /\ redisUp
    /\ redisUp' = FALSE
    /\ UNCHANGED <<redis, memory, credit>>

RedisStarts ==
    /\ ~redisUp
    /\ redisUp' = TRUE
    /\ redis' = [s \in Scopes |-> NoBucket]
    /\ credit' = [s \in Scopes |-> [credit[s] EXCEPT !.redis = Full]]
    /\ UNCHANGED memory

(* The bridge restarts: its buckets are new.                                *)
ForgetMemory ==
    /\ memory' = [s \in Scopes |-> NoBucket]
    /\ credit' = [s \in Scopes |-> [credit[s] EXCEPT !.memory = Full]]
    /\ UNCHANGED <<redis, redisUp>>

(* RateLimiter.clear: tests and an administrator's reset.                   *)
Clear ==
    /\ memory' = [s \in Scopes |-> NoBucket]
    /\ redis' = IF redisUp THEN [s \in Scopes |-> NoBucket] ELSE redis
    /\ credit' = [s \in Scopes |-> [redis |-> IF redisUp THEN Full ELSE credit[s].redis,
                                    memory |-> Full]]
    /\ UNCHANGED redisUp

LimitNext ==
    \/ \E s \in Scopes : Check(s)
    \/ Second
    \/ \E seconds \in -MaxJump..MaxJump : ClockJumps(seconds)
    \/ RedisStops \/ RedisStarts \/ ForgetMemory \/ Clear

LimitSpec == LimitInit /\ [][LimitNext]_limitVars

----------------------------------------------------------------------------
(* Properties                                                               *)

(* Lazily refilled, expired, restarted or asked by a clock that is moved, a *)
(* bucket never lets more through than one that is refilled second by       *)
(* second: what it may still give never exceeds what that one holds.  The   *)
(* two backends are two budgets: around an outage of Redis a caller may     *)
(* spend both, and Redis is full again when it returns.                     *)
BudgetHolds ==
    \A s \in Scopes : /\ credit[s].redis >= 0 /\ credit[s].memory >= 0
                      /\ Refilled(redis[s]) <= credit[s].redis
                      /\ Refilled(memory[s]) <= credit[s].memory
=============================================================================
