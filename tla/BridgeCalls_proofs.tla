-------------------------- MODULE BridgeCalls_proofs --------------------------
(***************************************************************************)
(* What is proved of BridgeCalls and of the two modules it is composed of,  *)
(* in three parts.                                                          *)
(*                                                                          *)
(* Idempotency, for any keys, bodies, number of concurrent requests, time   *)
(* to live and number of faults: what comes out of the table is true, and a *)
(* second success has a reason.                                             *)
(*                                                                          *)
(* RateLimit, for any burst, rate, jump of the clock and set of scopes: a   *)
(* bucket never lets more through than one that is refilled second by       *)
(* second.                                                                  *)
(*                                                                          *)
(* BridgeCalls, for any number of callers, calls, retries and upsets: the   *)
(* composition steps only as Idempotency and RateLimit do, so that their    *)
(* theorems hold of it; a call has one effect at most; and what is charged  *)
(* is recorded.                                                             *)
(***************************************************************************)
EXTENDS BridgeCalls, FiniteSetTheorems, TLAPS

------------------------------------------------------------------------------
(* The idempotency table                                                    *)

Inside(r) == request[r].pc # "idle"
Outcomes == {"started", "ok", "failed"}
RunRecords == [key : Keys, body : Bodies, outcome : Outcomes]

(* A request inside the middleware is the only one that runs its run, and   *)
(* the run knows its key and body.                                          *)
RequestsMatchRuns ==
    /\ \A r \in Requests :
          /\ ~Inside(r) => request[r] = NoRequest
          /\ Inside(r) => /\ request[r].run \in Runs /\ request[r].key \in Keys
                          /\ request[r].body \in Bodies
                          /\ ran[request[r].run] # None
                          /\ ran[request[r].run].key = request[r].key
                          /\ ran[request[r].run].body = request[r].body
                          /\ request[r].pc = "running" <=> ran[request[r].run].outcome = "started"
    /\ \A r, q \in Requests : Inside(r) /\ Inside(q) /\ request[r].run = request[q].run => r = q

(* What the table holds of a run that succeeded is its key and its body.    *)
Stands(x, k, b) ==
    x \in Runs /\ ran[x] # None /\ ran[x].key = k /\ ran[x].body = b /\ ran[x].outcome = "ok"

StoredHaveSucceeded == \A k \in Keys : store[k] # None => Stands(store[k].run, k, store[k].body)

(* The answer that came last is that of a run that succeeded.               *)
AnswerHasSucceeded ==
    answer # None =>
        /\ answer.run \in Runs /\ ran[answer.run] # None
        /\ ran[answer.run].key = answer.key /\ ran[answer.run].outcome = "ok"
        /\ (answer.kind = "replay") <=> (ran[answer.run].body = answer.body)
        /\ answer.age <= TTL

(* The runs of a key that have succeeded or still may.                      *)
Open(k) == {x \in Runs : ran[x] # None /\ ran[x].key = k /\ ran[x].outcome # "failed"}

(* One of them needs no excuse: the one the table holds, or the one a       *)
(* request is about to store.                                               *)
Expected(k) ==
    \/ store[k] # None
    \/ \E r \in Requests : /\ Inside(r) /\ request[r].key = k
                           /\ ran[request[r].run].outcome # "failed"

Owed(k) == IF Expected(k) THEN 1 ELSE 0

RunsHaveReasons == \A k \in Keys : Cardinality(Open(k)) <= excuses[k] + lapsed[k] + Owed(k)

(* The inductive invariant.                                                 *)
IdempotencyInv ==
    TypeOK /\ RequestsMatchRuns /\ StoredHaveSucceeded /\ AnswerHasSucceeded /\ RunsHaveReasons

LEMMA IdempotencyInit == Init => IdempotencyInv
  <1>. SUFFICES ASSUME Init PROVE IdempotencyInv
    OBVIOUS
  <1>. USE IdempotencyAssumption DEF Init, NoRequest
  <1>1. TypeOK
    BY DEF TypeOK
  <1>2. RequestsMatchRuns /\ StoredHaveSucceeded /\ AnswerHasSucceeded
    BY DEF RequestsMatchRuns, StoredHaveSucceeded, AnswerHasSucceeded, Inside
  <1>3. RunsHaveReasons
    <2>. SUFFICES ASSUME NEW k \in Keys
                  PROVE  Cardinality(Open(k)) <= excuses[k] + lapsed[k] + Owed(k)
      BY DEF RunsHaveReasons
    <2>1. Open(k) = {}
      BY DEF Open
    <2>2. excuses[k] = 0 /\ lapsed[k] = 0 /\ Owed(k) \in {0, 1}
      BY DEF Owed
    <2>3. Cardinality(Open(k)) = 0
      BY <2>1, FS_EmptySet
    <2>. QED BY ONLY <2>2, <2>3
  <1>. QED BY <1>1, <1>2, <1>3 DEF IdempotencyInv

----------------------------------------------------------------------------
(* The types                                                                *)

LEMMA TypeStep ==
  ASSUME TypeOK, RequestsMatchRuns, Next
  PROVE  TypeOK'
  <1>. USE IdempotencyAssumption DEF TypeOK, Entries
  <1>0. /\ Pruned \in [Keys -> Entries \cup {None}]
        /\ \A ks \in SUBSET Keys : \A c \in [Keys -> Nat] : Count(c, ks) \in [Keys -> Nat]
    BY DEF Pruned, Count
  <1>1. ASSUME NEW k \in Keys, NEW b \in Bodies, AnswerFromTable(k, b) PROVE TypeOK'
    <2>1. Lookup(k) \in Entries /\ OutOfDate \subseteq Keys
      BY <1>0, <1>1 DEF AnswerFromTable, Lookup, OutOfDate
    <2>2. answer' \in [key : Keys, body : Bodies, run : Runs, age : 0..(TTL + 1),
                       kind : {"replay", "conflict"}]
      BY <1>1, <2>1 DEF AnswerFromTable, SendCached, SendConflict, Answer
    <2>. QED BY <1>0, <1>1, <2>1, <2>2 DEF AnswerFromTable
  <1>2. ASSUME NEW k \in Keys, NEW b \in Bodies, NEW r \in Requests, NEW x \in Runs,
               CallApplication(r, k, b, x)
        PROVE  TypeOK'
    <2>1. OutOfDate \subseteq Keys /\ (IF Overlapping(k) THEN {k} ELSE {}) \subseteq Keys
      BY DEF OutOfDate
    <2>2. /\ Count(lapsed, OutOfDate) \in [Keys -> Nat]
          /\ Count(excuses, IF Overlapping(k) THEN {k} ELSE {}) \in [Keys -> Nat]
      BY <1>0, <2>1
    <2>3. request' \in [Requests -> [pc : {"idle", "running", "sending"}, key : Keys \cup {None},
                                     body : Bodies \cup {None}, run : Runs \cup {None}]]
      BY <1>2 DEF CallApplication, Buffered
    <2>4. ran' \in [Runs -> RunRecords \cup {None}]
      BY <1>2 DEF CallApplication, RunRecords, Outcomes
    <2>5. store' \in [Keys -> Entries \cup {None}]
      BY <1>0, <1>2 DEF CallApplication
    <2>6. lapsed' \in [Keys -> Nat] /\ excuses' \in [Keys -> Nat] /\ UNCHANGED <<answer, faults>>
      BY <1>2, <2>2 DEF CallApplication
    <2>7. ran' \in [Runs -> [key : Keys, body : Bodies,
                              outcome : {"started", "ok", "failed"}] \cup {None}]
      BY <2>4 DEF RunRecords, Outcomes
    <2>8. answer' \in [key : Keys, body : Bodies, run : Runs, age : 0..(TTL + 1),
                       kind : {"replay", "conflict"}] \cup {None}
      BY <2>6
    <2>9. faults' \in 0..MaxFaults
      BY <2>6
    <2>. HIDE DEF Entries
    <2>. QED BY ONLY <2>3, <2>5, <2>6, <2>7, <2>8, <2>9 DEF TypeOK
  <1>3. ASSUME NEW r \in Requests, NEW outcome \in {"ok", "failed"}, ApplicationAnswers(r, outcome)
        PROVE  TypeOK'
    <2>1. request[r].run \in Runs /\ ran[request[r].run] # None
      BY <1>3 DEF ApplicationAnswers, RequestsMatchRuns, Inside
    <2>2. ran' \in [Runs -> [key : Keys, body : Bodies,
                              outcome : {"started", "ok", "failed"}] \cup {None}]
      BY <1>3, <2>1 DEF ApplicationAnswers
    <2>3. request' \in [Requests -> [pc : {"idle", "running", "sending"}, key : Keys \cup {None},
                                     body : Bodies \cup {None}, run : Runs \cup {None}]]
      BY <1>3 DEF ApplicationAnswers
    <2>. QED BY <1>3, <2>2, <2>3 DEF ApplicationAnswers
  <1>4. ASSUME NEW r \in Requests, StoreAnswer(r) PROVE TypeOK'
    <2>1. request[r].run \in Runs /\ request[r].key \in Keys /\ request[r].body \in Bodies
      BY <1>4 DEF StoreAnswer, RequestsMatchRuns, Inside
    <2>. QED BY <1>4, <2>1 DEF StoreAnswer, NoRequest
  <1>5. ASSUME NEW r \in Requests, StoreFails(r) PROVE TypeOK'
    <2>1. {request[r].key} \subseteq Keys
      BY <1>5 DEF StoreFails, RequestsMatchRuns, Inside
    <2>2. Count(excuses, {request[r].key}) \in [Keys -> Nat]
      BY <1>0, <2>1
    <2>3. request' \in [Requests -> [pc : {"idle", "running", "sending"}, key : Keys \cup {None},
                                     body : Bodies \cup {None}, run : Runs \cup {None}]]
      BY <1>5 DEF StoreFails, NoRequest
    <2>4. excuses' \in [Keys -> Nat] /\ faults' \in 0..MaxFaults
      <3>1. excuses' = Count(excuses, {request[r].key}) /\ faults' = faults + 1 /\ faults < MaxFaults
        BY <1>5 DEF StoreFails
      <3>2. faults' \in 0..MaxFaults
        BY <3>1
      <3>. QED BY <2>2, <3>1, <3>2
    <2>. QED BY <1>5, <2>3, <2>4 DEF StoreFails
  <1>6. CASE BridgeRestart
    <2>1. Count(excuses, {request[r].key : r \in Requests}) \in [Keys -> Nat]
      BY DEF Count
    <2>. QED BY <1>6, <2>1 DEF BridgeRestart, NoRequest
  <1>7. CASE Tick
    BY <1>7 DEF Tick
  <1>. QED BY <1>1, <1>2, <1>3, <1>4, <1>5, <1>6, <1>7 DEF Next

----------------------------------------------------------------------------
(* Requests and their runs                                                  *)

LEMMA RequestsStep ==
  ASSUME TypeOK, RequestsMatchRuns, Next
  PROVE  RequestsMatchRuns'
  <1>. USE IdempotencyAssumption DEF RequestsMatchRuns, Inside
  <1>1. CASE UNCHANGED <<request, ran>>
    BY <1>1
  <1>2. ASSUME NEW k \in Keys, NEW b \in Bodies, NEW r \in Requests, NEW x \in Runs,
               CallApplication(r, k, b, x)
        PROVE  RequestsMatchRuns'
    <2>1. /\ request[r].pc = "idle" /\ Unused(x)
          /\ request' = [request EXCEPT ![r] = Buffered(k, b, x)]
          /\ ran' = [ran EXCEPT ![x] = [key |-> k, body |-> b, outcome |-> "started"]]
      BY <1>2 DEF CallApplication
    <2>2. ran'[x] = [key |-> k, body |-> b, outcome |-> "started"] /\ ran'[x] # None
          /\ \A y \in Runs : y # x => ran'[y] = ran[y]
      BY <2>1 DEF TypeOK
    <2>3. request'[r] = Buffered(k, b, x) /\ \A q \in Requests : q # r => request'[q] = request[q]
      BY <2>1 DEF TypeOK
    <2>4. \A q \in Requests : request[q].pc # "idle" => request[q].run # x
      <3>. SUFFICES ASSUME NEW q \in Requests, request[q].pc # "idle", request[q].run = x PROVE FALSE
        OBVIOUS
      <3>1. ran[x] # None
        OBVIOUS
      <3>. QED BY <2>1, <3>1 DEF Unused
    <2>. QED BY <2>1, <2>2, <2>3, <2>4 DEF Buffered
  <1>3. ASSUME NEW r \in Requests, NEW outcome \in {"ok", "failed"}, ApplicationAnswers(r, outcome)
        PROVE  RequestsMatchRuns'
    <2>. DEFINE x == request[r].run
    <2>1. /\ request[r].pc = "running" /\ x \in Runs /\ ran[x] # None
          /\ request' = [request EXCEPT ![r].pc = "sending"]
          /\ ran' = [ran EXCEPT ![x].outcome = outcome]
      BY <1>3 DEF ApplicationAnswers
    <2>2. ran[x] \in RunRecords
      BY <2>1 DEF TypeOK, RunRecords, Outcomes
    <2>3. /\ ran'[x] \in RunRecords /\ ran'[x].key = ran[x].key /\ ran'[x].body = ran[x].body
          /\ ran'[x].outcome = outcome /\ \A y \in Runs : y # x => ran'[y] = ran[y]
      BY <2>1, <2>2 DEF TypeOK, RunRecords, Outcomes
    <2>4. ran'[x] # None
      BY <2>3 DEF RunRecords, Outcomes
    <2>5. /\ request'[r].pc = "sending" /\ request'[r].run = x
          /\ request'[r].key = request[r].key /\ request'[r].body = request[r].body
          /\ \A q \in Requests : q # r => request'[q] = request[q]
      BY <2>1 DEF TypeOK
    <2>6. \A q \in Requests : q # r /\ request[q].pc # "idle" => request[q].run # x
      BY <2>1
    <2>. QED BY <2>1, <2>3, <2>4, <2>5, <2>6
  <1>4. ASSUME NEW r \in Requests, request' = [request EXCEPT ![r] = NoRequest], UNCHANGED ran
        PROVE  RequestsMatchRuns'
    <2>1. request'[r] = NoRequest /\ \A q \in Requests : q # r => request'[q] = request[q]
      BY <1>4 DEF TypeOK
    <2>. QED BY <1>4, <2>1 DEF NoRequest
  <1>5. CASE BridgeRestart
    BY <1>5 DEF BridgeRestart, NoRequest
  <1>6. ASSUME NEW r \in Requests, StoreAnswer(r) \/ StoreFails(r) PROVE RequestsMatchRuns'
    <2>1. request' = [request EXCEPT ![r] = NoRequest] /\ UNCHANGED ran
      BY <1>6 DEF StoreAnswer, StoreFails
    <2>. QED BY <1>4, <2>1
  <1>7. (\E k \in Keys, b \in Bodies : AnswerFromTable(k, b)) \/ Tick => UNCHANGED <<request, ran>>
    BY DEF AnswerFromTable, Tick
  <1>. QED BY <1>1, <1>2, <1>3, <1>5, <1>6, <1>7 DEF Next

----------------------------------------------------------------------------
(* What the table holds                                                     *)

(* A run that has succeeded stays what it is.                               *)
LEMMA SuccessStays ==
  ASSUME TypeOK, RequestsMatchRuns, Next, NEW x \in Runs, ran[x] # None, ran[x].outcome = "ok"
  PROVE  ran'[x] = ran[x]
  <1>1. ASSUME NEW k \in Keys, NEW b \in Bodies, NEW r \in Requests, NEW y \in Runs,
               CallApplication(r, k, b, y)
        PROVE  ran'[x] = ran[x]
    <2>1. Unused(y) /\ ran' = [ran EXCEPT ![y] = [key |-> k, body |-> b, outcome |-> "started"]]
      BY <1>1 DEF CallApplication
    <2>2. y # x
      BY <2>1 DEF Unused
    <2>. QED BY <2>1, <2>2 DEF TypeOK
  <1>2. ASSUME NEW r \in Requests, NEW outcome \in {"ok", "failed"}, ApplicationAnswers(r, outcome)
        PROVE  ran'[x] = ran[x]
    <2>1. request[r].run # x /\ ran' = [ran EXCEPT ![request[r].run].outcome = outcome]
      BY <1>2 DEF ApplicationAnswers, RequestsMatchRuns, Inside
    <2>. QED BY <2>1 DEF TypeOK
  <1>3. CASE UNCHANGED ran
    BY <1>3
  <1>. QED BY <1>1, <1>2, <1>3
        DEF Next, AnswerFromTable, StoreAnswer, StoreFails, BridgeRestart, Tick

LEMMA StoredStep ==
  ASSUME TypeOK, RequestsMatchRuns, StoredHaveSucceeded, Next
  PROVE  StoredHaveSucceeded'
  <1>. USE IdempotencyAssumption DEF StoredHaveSucceeded
  <1>1. ASSUME NEW k \in Keys, Stands(store[k].run, k, store[k].body)
        PROVE  Stands(store[k].run, k, store[k].body)' \/ store'[k] # store[k]
    BY <1>1, SuccessStays DEF Stands
  <1>2. CASE \A k \in Keys : store'[k] \in {None, store[k]}
    BY <1>1, <1>2
  <1>3. ASSUME NEW r \in Requests, StoreAnswer(r), Cacheable(request[r].run) PROVE StoredHaveSucceeded'
    <2>. DEFINE q == request[r]
    <2>1. /\ store' = [store EXCEPT ![q.key] = [body |-> q.body, run |-> q.run, age |-> 0]]
          /\ UNCHANGED ran
      BY <1>3 DEF StoreAnswer
    <2>2. Stands(q.run, q.key, q.body)
      BY <1>3 DEF StoreAnswer, Cacheable, Stands, RequestsMatchRuns, Inside
    <2>. QED BY <2>1, <2>2 DEF TypeOK, Stands
  <1>4. CASE Tick
    <2>1. \A k \in Keys : /\ store'[k] # None => store[k] # None
                          /\ store[k] # None => /\ store'[k].run = store[k].run
                                                /\ store'[k].body = store[k].body
      BY <1>4 DEF Tick, TypeOK, Entries
    <2>. QED BY <1>4, <2>1 DEF Tick, Stands
  <1>5. CASE store' = Pruned
    BY <1>2, <1>5 DEF Pruned
  <1>6. CASE UNCHANGED store
    BY <1>2, <1>6
  <1>. QED BY <1>3, <1>4, <1>5, <1>6
        DEF Next, AnswerFromTable, CallApplication, ApplicationAnswers, StoreAnswer, StoreFails, BridgeRestart

LEMMA AnswerStep ==
  ASSUME TypeOK, RequestsMatchRuns, StoredHaveSucceeded, AnswerHasSucceeded, Next
  PROVE  AnswerHasSucceeded'
  <1>1. CASE UNCHANGED answer
    BY <1>1, SuccessStays DEF AnswerHasSucceeded
  <1>2. ASSUME NEW k \in Keys, NEW b \in Bodies, AnswerFromTable(k, b) PROVE AnswerHasSucceeded'
    <2>. DEFINE e == store[k]
    <2>1. /\ Lookup(k) # None /\ UNCHANGED ran
          /\ SendCached(k, b, Lookup(k)) \/ SendConflict(k, b, Lookup(k))
      BY <1>2 DEF AnswerFromTable
    <2>2. Lookup(k) = e /\ e \in Entries /\ e.age <= TTL
      BY <2>1, IdempotencyAssumption DEF Lookup, Pruned, Expired, TypeOK, Entries
    <2>3. Stands(e.run, k, e.body)
      BY <2>1, <2>2 DEF StoredHaveSucceeded
    <2>4. /\ answer'.key = k /\ answer'.body = b /\ answer'.run = e.run /\ answer'.age = e.age
          /\ (answer'.kind = "replay") <=> (e.body = b)
      BY <2>1, <2>2 DEF SendCached, SendConflict, Answer, SameBody
    <2>. QED BY <2>1, <2>2, <2>3, <2>4 DEF AnswerHasSucceeded, Stands
  <1>. QED BY <1>1, <1>2
        DEF Next, CallApplication, ApplicationAnswers, StoreAnswer, StoreFails, BridgeRestart, Tick

----------------------------------------------------------------------------
(* The reasons of a second run                                              *)

LEMMA OpenIsFinite == \A k \in Keys : IsFiniteSet(Open(k)) /\ Cardinality(Open(k)) \in Nat
  <1>. SUFFICES ASSUME NEW k \in Keys PROVE IsFiniteSet(Open(k)) /\ Cardinality(Open(k)) \in Nat
    OBVIOUS
  <1>1. Open(k) \subseteq Runs
    BY DEF Open
  <1>. QED BY <1>1, IdempotencyAssumption, FS_Subset, FS_CardinalityType

(* Whoever finds the table empty for a key pays: with the entry that was    *)
(* out of date, or with the overlap.                                        *)
LEMMA PruningIsCounted ==
  ASSUME TypeOK, store' = Pruned, lapsed' = Count(lapsed, OutOfDate),
         NEW k \in Keys
  PROVE  /\ lapsed'[k] \in Nat /\ lapsed'[k] >= lapsed[k]
         /\ store[k] # None /\ store'[k] = None => lapsed'[k] = lapsed[k] + 1
         /\ store[k] = None => store'[k] = None
  BY DEF TypeOK, Pruned, Expired, Count, OutOfDate

LEMMA ReasonsStep ==
  ASSUME IdempotencyInv, TypeOK', Next
  PROVE  RunsHaveReasons'
  <1>. SUFFICES ASSUME NEW k \in Keys
                PROVE  Cardinality(Open(k)') <= excuses'[k] + lapsed'[k] + Owed(k)'
    BY DEF RunsHaveReasons
  <1>0. /\ TypeOK /\ RequestsMatchRuns
        /\ Cardinality(Open(k)) <= excuses[k] + lapsed[k] + Owed(k)
        /\ excuses[k] \in Nat /\ lapsed[k] \in Nat /\ excuses'[k] \in Nat /\ lapsed'[k] \in Nat
        /\ Owed(k) \in {0, 1} /\ Owed(k)' \in {0, 1}
        /\ IsFiniteSet(Open(k)) /\ Cardinality(Open(k)) \in Nat
    BY OpenIsFinite DEF IdempotencyInv, RunsHaveReasons, TypeOK, Owed
  <1>. DEFINE Goal == Cardinality(Open(k)') <= excuses'[k] + lapsed'[k] + Owed(k)'
  <1>s. ASSUME Open(k)' = Open(k), excuses'[k] + lapsed'[k] + Owed(k)' >= excuses[k] + lapsed[k] + Owed(k)
        PROVE  Goal
    BY <1>0, <1>s
  <1>1. ASSUME NEW h \in Keys, NEW b \in Bodies, AnswerFromTable(h, b) PROVE Goal
    <2>1. /\ store' = Pruned /\ lapsed' = Count(lapsed, OutOfDate) /\ UNCHANGED <<request, ran, excuses>>
      BY <1>1 DEF AnswerFromTable
    <2>2. Open(k)' = Open(k)
      BY <2>1 DEF Open
    <2>3. /\ lapsed'[k] >= lapsed[k]
          /\ store[k] # None /\ store'[k] = None => lapsed'[k] = lapsed[k] + 1
      BY <1>0, <2>1, PruningIsCounted
    <2>4. Owed(k)' >= Owed(k) \/ (store[k] # None /\ store'[k] = None)
      BY <2>1 DEF Owed, Expected, Inside
    <2>. QED BY <1>0, <1>s, <2>1, <2>2, <2>3, <2>4
  <1>2. ASSUME NEW h \in Keys, NEW b \in Bodies, NEW r \in Requests, NEW x \in Runs,
               CallApplication(r, h, b, x)
        PROVE  Goal
    <2>1. /\ request[r].pc = "idle" /\ Unused(x) /\ Lookup(h) = None /\ store' = Pruned
          /\ request' = [request EXCEPT ![r] = Buffered(h, b, x)]
          /\ ran' = [ran EXCEPT ![x] = [key |-> h, body |-> b, outcome |-> "started"]]
          /\ lapsed' = Count(lapsed, OutOfDate)
          /\ excuses' = Count(excuses, IF Overlapping(h) THEN {h} ELSE {})
      BY <1>2 DEF CallApplication
    <2>2. /\ lapsed'[k] >= lapsed[k]
          /\ store[k] # None /\ store'[k] = None => lapsed'[k] = lapsed[k] + 1
          /\ store[k] = None => store'[k] = None
      BY <1>0, <2>1, PruningIsCounted
    <2>3. /\ ran'[x] = [key |-> h, body |-> b, outcome |-> "started"]
          /\ \A y \in Runs : y # x => ran'[y] = ran[y]
          /\ ran'[x] # None
      BY <1>0, <2>1, IdempotencyAssumption DEF TypeOK
    <2>4. x \notin Open(k)
      BY <2>1 DEF Open, Unused
    <2>5. \A q \in Requests : Inside(q) => q # r /\ request[q].run # x /\ request'[q] = request[q]
      BY <1>0, <2>1 DEF TypeOK, Inside, Unused, RequestsMatchRuns
    <2>6. CASE h # k
      <3>1. Open(k)' = Open(k)
        BY <2>3, <2>4, <2>6 DEF Open
      <3>2. excuses'[k] = excuses[k]
        BY <1>0, <2>1, <2>6 DEF Count, TypeOK
      <3>3. Owed(k)' >= Owed(k) \/ (store[k] # None /\ store'[k] = None)
        <4>1. ASSUME NEW q \in Requests, Inside(q), request[q].key = k,
                     ran[request[q].run].outcome # "failed"
              PROVE  Expected(k)'
          <5>1. request'[q] = request[q] /\ ran'[request[q].run] = ran[request[q].run]
            BY <1>0, <2>3, <2>5, <4>1 DEF RequestsMatchRuns
          <5>. QED BY <4>1, <5>1 DEF Expected, Inside
        <4>2. store'[k] # None => Expected(k)'
          BY DEF Expected
        <4>. QED BY <4>1, <4>2 DEF Owed, Expected
      <3>. QED BY <1>0, <1>s, <2>2, <3>1, <3>2, <3>3
    <2>7. CASE h = k
      <3>1. Open(k)' = Open(k) \cup {x}
        BY <2>3, <2>7 DEF Open
      <3>2. Cardinality(Open(k)') = Cardinality(Open(k)) + 1
        BY <1>0, <2>4, <3>1, FS_AddElement
      <3>3. Owed(k)' = 1
        <4>1. request'[r] = Buffered(k, b, x) /\ ran'[request'[r].run].outcome = "started"
          BY <1>0, <2>1, <2>3, <2>7 DEF TypeOK, Buffered
        <4>2. Inside(r)' /\ request'[r].key = k
          BY <4>1 DEF Inside, Buffered
        <4>. QED BY <4>1, <4>2 DEF Owed, Expected
      <3>4. store'[k] = None
        BY <2>1, <2>7 DEF Lookup
      <3>5. Overlapping(k) => excuses'[k] = excuses[k] + 1
        BY <1>0, <2>1, <2>7 DEF Count, TypeOK
      <3>6. excuses'[k] >= excuses[k]
        BY <1>0, <2>1, <2>7 DEF Count, TypeOK
      <3>7. ~Overlapping(k) /\ store[k] = None => Owed(k) = 0
        BY DEF Owed, Expected, Overlapping
      <3>. QED BY <1>0, <2>2, <3>2, <3>3, <3>4, <3>5, <3>6, <3>7
    <2>. QED BY <2>6, <2>7
  <1>3. ASSUME NEW r \in Requests, NEW outcome \in {"ok", "failed"}, ApplicationAnswers(r, outcome)
        PROVE  Goal
    <2>. DEFINE x == request[r].run
    <2>1. /\ request[r].pc = "running" /\ x \in Runs /\ ran[x] # None /\ ran[x].outcome = "started"
          /\ request' = [request EXCEPT ![r].pc = "sending"]
          /\ ran' = [ran EXCEPT ![x].outcome = outcome]
          /\ UNCHANGED <<store, lapsed, excuses>> /\ ran[x].key = request[r].key
      BY <1>0, <1>3 DEF ApplicationAnswers, RequestsMatchRuns, Inside
    <2>2. /\ ran'[x] # None /\ ran'[x].key = ran[x].key /\ ran'[x].outcome = outcome
          /\ \A y \in Runs : y # x => ran'[y] = ran[y]
      BY <1>0, <2>1, IdempotencyAssumption DEF TypeOK
    <2>3. /\ request'[r].pc = "sending" /\ request'[r].run = x /\ request'[r].key = request[r].key
          /\ \A q \in Requests : q # r => request'[q] = request[q] /\ (Inside(q) => request[q].run # x)
      BY <1>0, <2>1 DEF TypeOK, RequestsMatchRuns, Inside
    <2>4. ASSUME NEW q \in Requests, q # r, Inside(q), request[q].key = k,
                 ran[request[q].run].outcome # "failed"
          PROVE  Expected(k)'
      <3>1. request'[q] = request[q] /\ ran'[request[q].run] = ran[request[q].run]
        BY <1>0, <2>2, <2>3, <2>4 DEF RequestsMatchRuns
      <3>. QED BY <2>4, <3>1 DEF Expected, Inside
    <2>5. store[k] # None => Expected(k)'
      BY <2>1 DEF Expected
    <2>6. CASE outcome = "ok" \/ ran[x].key # k
      <3>1. Open(k)' = Open(k)
        BY <2>1, <2>2, <2>6 DEF Open
      <3>2. Owed(k)' >= Owed(k)
        <4>1. request[r].key = k => Expected(k)'
          BY <2>1, <2>2, <2>3, <2>6 DEF Expected, Inside
        <4>. QED BY <2>4, <2>5, <4>1 DEF Owed, Expected
      <3>. QED BY <1>0, <1>s, <2>1, <3>1, <3>2
    <2>7. CASE outcome = "failed" /\ ran[x].key = k
      <3>1. Open(k)' = Open(k) \ {x} /\ x \in Open(k)
        BY <2>1, <2>2, <2>7 DEF Open
      <3>2. Cardinality(Open(k)') = Cardinality(Open(k)) - 1
        <4>1. ASSUME NEW S, IsFiniteSet(S), NEW y \in S PROVE Cardinality(S \ {y}) = Cardinality(S) - 1
          BY <4>1, FS_RemoveElement
        <4>. QED BY <1>0, <3>1, <4>1
      <3>. QED BY <1>0, <2>1, <3>2
    <2>. QED BY <2>6, <2>7
  <1>4. ASSUME NEW r \in Requests, StoreAnswer(r) PROVE Goal
    <2>. DEFINE q == request[r]
    <2>1. /\ q.pc = "sending" /\ q.key \in Keys /\ q.run \in Runs /\ q.body \in Bodies
          /\ ran[q.run].outcome # "started" /\ ran[q.run] # None
          /\ request' = [request EXCEPT ![r] = NoRequest] /\ UNCHANGED <<ran, lapsed, excuses>>
      BY <1>0, <1>4 DEF StoreAnswer, RequestsMatchRuns, Inside
    <2>2. ran[q.run].outcome \in {"ok", "failed"}
      BY <1>0, <2>1 DEF TypeOK
    <2>3. \A p \in Requests : p # r => request'[p] = request[p]
      BY <1>0, <2>1 DEF TypeOK
    <2>4. Open(k)' = Open(k)
      BY <2>1 DEF Open
    <2>5. store[k] # None => store'[k] # None
      BY <1>0, <1>4, <2>1, IdempotencyAssumption DEF StoreAnswer, TypeOK, Entries
    <2>6. ASSUME NEW p \in Requests, p # r, Inside(p), request[p].key = k,
                 ran[request[p].run].outcome # "failed"
          PROVE  Expected(k)'
      BY <2>1, <2>3, <2>6 DEF Expected, Inside
    <2>7. q.key = k /\ ran[q.run].outcome # "failed" => store'[k] # None
      BY <1>0, <1>4, <2>1, <2>2, IdempotencyAssumption DEF StoreAnswer, TypeOK, Entries, Cacheable
    <2>8. Owed(k)' >= Owed(k)
      BY <2>5, <2>6, <2>7 DEF Owed, Expected
    <2>. QED BY <1>0, <1>s, <2>1, <2>4, <2>8
  <1>5. ASSUME NEW r \in Requests, StoreFails(r) PROVE Goal
    <2>1. /\ request' = [request EXCEPT ![r] = NoRequest] /\ UNCHANGED <<ran, store, lapsed>>
          /\ excuses' = Count(excuses, {request[r].key})
      BY <1>5 DEF StoreFails
    <2>2. Open(k)' = Open(k)
      BY <2>1 DEF Open
    <2>3. excuses'[k] = IF request[r].key = k THEN excuses[k] + 1 ELSE excuses[k]
      BY <1>0, <2>1 DEF Count, TypeOK
    <2>4. \A p \in Requests : p # r => request'[p] = request[p]
      BY <1>0, <2>1 DEF TypeOK
    <2>5. request[r].key # k => Owed(k)' >= Owed(k)
      BY <2>1, <2>4 DEF Owed, Expected, Inside
    <2>. QED BY <1>0, <1>s, <2>1, <2>2, <2>3, <2>5
  <1>6. CASE BridgeRestart
    <2>1. /\ UNCHANGED <<ran, store, lapsed>>
          /\ excuses' = Count(excuses, {request[r].key : r \in Requests})
      BY <1>6 DEF BridgeRestart
    <2>2. Open(k)' = Open(k)
      BY <2>1 DEF Open
    <2>3. excuses'[k] = IF \E r \in Requests : request[r].key = k THEN excuses[k] + 1 ELSE excuses[k]
      BY <1>0, <2>1 DEF Count, TypeOK
    <2>4. (\A r \in Requests : request[r].key # k) => Owed(k)' >= Owed(k)
      BY <2>1 DEF Owed, Expected
    <2>. QED BY <1>0, <1>s, <2>1, <2>2, <2>3, <2>4
  <1>7. CASE Tick
    <2>1. /\ UNCHANGED <<request, ran, lapsed, excuses>>
          /\ store' = [j \in Keys |-> IF store[j] # None /\ store[j].age <= TTL
                                      THEN [store[j] EXCEPT !.age = store[j].age + 1] ELSE store[j]]
      BY <1>7 DEF Tick
    <2>2. Open(k)' = Open(k)
      BY <2>1 DEF Open
    <2>3. store[k] # None => store'[k] # None
      <3>1. CASE store[k] # None /\ store[k].age <= TTL
        <4>1. store[k] \in Entries
          BY <1>0, <3>1 DEF TypeOK
        <4>2. store'[k] \in Entries
          BY <2>1, <3>1, <4>1, IdempotencyAssumption DEF Entries
        <4>. QED BY <4>2, IdempotencyAssumption DEF Entries
      <3>. QED BY <2>1, <3>1
    <2>4. Owed(k)' >= Owed(k)
      BY <2>1, <2>3 DEF Owed, Expected, Inside
    <2>. QED BY <1>0, <1>s, <2>1, <2>2, <2>4
  <1>. QED BY <1>1, <1>2, <1>3, <1>4, <1>5, <1>6, <1>7 DEF Next

----------------------------------------------------------------------------
(* The theorems                                                             *)

LEMMA IdempotencyStep == IdempotencyInv /\ [Next]_vars => IdempotencyInv'
  <1>. SUFFICES ASSUME IdempotencyInv, [Next]_vars PROVE IdempotencyInv'
    OBVIOUS
  <1>1. CASE Next
    BY <1>1, TypeStep, RequestsStep, StoredStep, AnswerStep, ReasonsStep DEF IdempotencyInv
  <1>2. CASE UNCHANGED vars
    BY <1>2 DEF vars, IdempotencyInv, TypeOK, RequestsMatchRuns, StoredHaveSucceeded, Stands,
       AnswerHasSucceeded, RunsHaveReasons, Open, Owed, Expected, Inside
  <1>. QED BY <1>1, <1>2

LEMMA HonestFromInv == IdempotencyInv => AnswersAreHonest
  BY DEF IdempotencyInv, AnswerHasSucceeded, AnswersAreHonest

LEMMA ExcuseFromInv == IdempotencyInv => SecondRunHasExcuse
  <1>. SUFFICES ASSUME IdempotencyInv, NEW k \in Keys
                PROVE  Cardinality(Succeeded(k)) <= 1 + excuses[k] + lapsed[k]
    BY DEF SecondRunHasExcuse
  <1>1. Succeeded(k) \subseteq Open(k)
    BY DEF Succeeded, Open
  <1>2. Cardinality(Succeeded(k)) <= Cardinality(Open(k)) /\ Cardinality(Succeeded(k)) \in Nat
    BY <1>1, OpenIsFinite, FS_Subset, FS_CardinalityType
  <1>3. Cardinality(Open(k)) <= excuses[k] + lapsed[k] + Owed(k) /\ Cardinality(Open(k)) \in Nat
        /\ excuses[k] \in Nat /\ lapsed[k] \in Nat /\ Owed(k) \in {0, 1}
    BY OpenIsFinite DEF IdempotencyInv, RunsHaveReasons, TypeOK, Owed
  <1>. QED BY <1>2, <1>3

(* What comes out of the table is the answer of a successful run.           *)
THEOREM Honest == Spec => []AnswersAreHonest
  BY IdempotencyInit, IdempotencyStep, HonestFromInv, PTL DEF Spec

(* Every success of a key after the first has its own reason.               *)
THEOREM Excused == Spec => []SecondRunHasExcuse
  BY IdempotencyInit, IdempotencyStep, ExcuseFromInv, PTL DEF Spec

------------------------------------------------------------------------------
(* The token buckets                                                        *)

LEMMA ConstantTypes ==
  /\ Full \in Nat \ {0} /\ Unit \in Nat \ {0} /\ Refill \in Nat \ {0} /\ Slack \in Nat \ {0}
  <1>1. Burst * Unit \in Nat \ {0}
    BY RateLimitAssumption
  <1>. QED BY <1>1, RateLimitAssumption DEF Full

(* FillTime seconds fill a bucket.                                          *)
LEMMA FillTimeFills == FillTime \in Nat /\ FillTime * Refill >= Full
  <1>. DEFINE a == Full + Refill - 1
              q == a \div Refill
  <1>1. a \in Nat /\ Refill \in Nat \ {0}
    BY ConstantTypes
  <1>2. q \in Nat /\ a = Refill * q + (a % Refill) /\ a % Refill \in 0..(Refill - 1)
    <2>. HIDE DEF a
    <2>. QED BY <1>1
  <1>3. q * Refill >= Full
    <2>1. q * Refill = Refill * q
      <3>. HIDE DEF q
      <3>. QED BY <1>1, <1>2
    <2>. HIDE DEF q
    <2>. QED BY <1>1, <1>2, <2>1, ConstantTypes
  <1>. QED BY <1>2, <1>3 DEF FillTime, CeilDiv

(* What a bucket gains with its age.                                        *)
Gain(age) == IF age > 0 THEN age * Refill ELSE 0

LEMMA RefilledByGain ==
  ASSUME NEW b, b # NoBucket
  PROVE  Refilled(b) = AtMost(Full, b.tokens + Gain(b.age))
  BY DEF Refilled, Gain

LEMMA GainTypes == \A age \in Int : Gain(age) \in Nat
  <1>. SUFFICES ASSUME NEW age \in Int PROVE Gain(age) \in Nat
    OBVIOUS
  <1>1. CASE age > 0
    <2>1. age * Refill \in Nat
      BY <1>1, ConstantTypes
    <2>. QED BY <1>1, <2>1 DEF Gain
  <1>2. CASE ~(age > 0)
    BY <1>2 DEF Gain
  <1>. QED BY <1>1, <1>2

(* In so many seconds a bucket gains at most what they are worth, and       *)
(* nothing when the clock runs backwards.                                   *)
LEMMA GainGrows ==
  ASSUME NEW age \in Int, NEW seconds \in Int
  PROVE  /\ seconds >= 0 => seconds * Refill \in Nat /\ Gain(age + seconds) <= Gain(age) + seconds * Refill
         /\ seconds <= 0 => Gain(age + seconds) <= Gain(age)
  <1>. USE ConstantTypes
  <1>1. (age + seconds) * Refill = age * Refill + seconds * Refill
    OBVIOUS
  <1>2. age * Refill \in Int /\ seconds * Refill \in Int
    OBVIOUS
  <1>3. age <= 0 => age * Refill <= 0
    OBVIOUS
  <1>4. age >= 0 => age * Refill >= 0
    OBVIOUS
  <1>5. seconds >= 0 => seconds * Refill >= 0
    OBVIOUS
  <1>6. seconds <= 0 => seconds * Refill <= 0
    OBVIOUS
  <1>. QED BY ONLY <1>1, <1>2, <1>3, <1>4, <1>5, <1>6, age \in Int, seconds \in Int DEF Gain

(* A bucket that is old enough to expire is full.                           *)
LEMMA OldIsFull ==
  ASSUME NEW age \in Int, age >= FillTime
  PROVE  Gain(age) >= Full
  <1>1. age * Refill >= FillTime * Refill
    BY FillTimeFills, ConstantTypes
  <1>2. age > 0
    BY FillTimeFills, ConstantTypes
  <1>. QED BY <1>1, <1>2, FillTimeFills, ConstantTypes DEF Gain

----------------------------------------------------------------------------
(* One bucket and the credit it is measured against                         *)

Buckets == [tokens : 0..Full, age : Int] \cup {NoBucket}

(* What is taken by one check.                                              *)
Taken(b) == IF Allowed(b) THEN Unit ELSE 0

LEMMA RefilledTypes == \A b \in Buckets : Refilled(b) \in 0..Full
  <1>. SUFFICES ASSUME NEW b \in Buckets PROVE Refilled(b) \in 0..Full
    OBVIOUS
  <1>1. CASE b = NoBucket
    BY <1>1, ConstantTypes DEF Refilled
  <1>2. CASE b # NoBucket
    <2>1. b.tokens \in 0..Full /\ Gain(b.age) \in Nat
      BY <1>2, GainTypes DEF Buckets
    <2>. QED BY <1>2, <2>1, RefilledByGain, ConstantTypes DEF AtMost
  <1>. QED BY <1>1, <1>2

LEMMA CheckedBucket ==
  ASSUME NEW b \in Buckets, NEW c \in Int, c >= Refilled(b)
  PROVE  /\ AfterCheck(b) \in [tokens : 0..Full, age : {0}] /\ AfterCheck(b) # NoBucket
         /\ Taken(b) \in Nat /\ c - Taken(b) >= 0
         /\ Refilled(AfterCheck(b)) <= c - Taken(b)
  <1>1. /\ Refilled(b) \in 0..Full /\ Full \in Nat /\ Unit \in Nat
        /\ Taken(b) \in Nat /\ Taken(b) <= Refilled(b)
    BY RefilledTypes, ConstantTypes DEF Taken, Allowed
  <1>2. AfterCheck(b) = [tokens |-> Refilled(b) - Taken(b), age |-> 0]
    BY DEF AfterCheck, Taken
  <1>3. AfterCheck(b) \in [tokens : 0..Full, age : {0}]
    BY <1>1, <1>2
  <1>4. AfterCheck(b) # NoBucket
    BY <1>3, RateLimitAssumption
  <1>5. Refilled(AfterCheck(b)) = AtMost(Full, Refilled(b) - Taken(b))
    BY <1>1, <1>2, <1>4, RefilledByGain DEF Gain
  <1>. QED BY <1>1, <1>3, <1>4, <1>5 DEF AtMost

(* A bucket that ages, or expires, stays below a credit that grows with it. *)
LEMMA AgedBucket ==
  ASSUME NEW b \in Buckets, b # NoBucket => b.age < IdleLife, NEW c \in Int, Refilled(b) <= c,
         NEW seconds \in Int
  PROVE  /\ Aged(b, seconds) \in Buckets
         /\ Aged(b, seconds) # NoBucket => Aged(b, seconds).age < IdleLife
         /\ seconds > 0 => /\ AtMost(Full, c + seconds * Refill) \in Int
                           /\ Refilled(Aged(b, seconds)) <= AtMost(Full, c + seconds * Refill)
         /\ seconds <= 0 => Refilled(Aged(b, seconds)) <= c
  <1>0. /\ Full \in Nat /\ FillTime \in Nat /\ Slack \in Nat \ {0} /\ IdleLife \in Nat
        /\ IdleLife > FillTime /\ Refilled(b) \in 0..Full
        /\ seconds > 0 => seconds * Refill \in Nat
    BY ConstantTypes, FillTimeFills, RefilledTypes, GainGrows DEF IdleLife
  <1>1. CASE b = NoBucket
    <2>1. Aged(b, seconds) = NoBucket /\ Refilled(NoBucket) = Full /\ Full <= c
      BY <1>1 DEF Aged, Refilled
    <2>. QED BY <1>0, <2>1 DEF Buckets, AtMost
  <1>2. CASE b # NoBucket
    <2>1. /\ b \in [tokens : 0..Full, age : Int] /\ b.age < IdleLife
          /\ Refilled(b) = AtMost(Full, b.tokens + Gain(b.age))
          /\ Gain(b.age) \in Nat /\ Gain(b.age + seconds) \in Nat
      BY <1>2, RefilledByGain, GainTypes DEF Buckets
    <2>2. /\ seconds > 0 => Gain(b.age + seconds) <= Gain(b.age) + seconds * Refill
          /\ seconds <= 0 => Gain(b.age + seconds) <= Gain(b.age)
      <3>1. b.age \in Int
        BY <2>1
      <3>2. /\ seconds >= 0 => Gain(b.age + seconds) <= Gain(b.age) + seconds * Refill
            /\ seconds <= 0 => Gain(b.age + seconds) <= Gain(b.age)
        BY <3>1, GainGrows
      <3>3. seconds > 0 => seconds >= 0
        OBVIOUS
      <3>. QED BY ONLY <3>2, <3>3
    <2>3. CASE b.age + seconds >= IdleLife
      <3>1. Aged(b, seconds) = NoBucket /\ Refilled(NoBucket) = Full /\ seconds > 0
        BY <1>0, <2>1, <2>3 DEF Aged, Refilled
      <3>2. Gain(b.age + seconds) >= Full
        BY <1>0, <2>1, <2>3, OldIsFull
      <3>3. c + seconds * Refill >= Full
        BY <1>0, <2>1, <2>2, <3>1, <3>2 DEF AtMost
      <3>. QED BY <1>0, <3>1, <3>3 DEF Buckets, AtMost
    <2>4. CASE ~(b.age + seconds >= IdleLife)
      <3>1. Aged(b, seconds) = [tokens |-> b.tokens, age |-> b.age + seconds]
        BY <1>2, <2>1, <2>4 DEF Aged
      <3>2. Aged(b, seconds) \in [tokens : 0..Full, age : Int] /\ Aged(b, seconds) # NoBucket
        BY <2>1, <3>1, RateLimitAssumption
      <3>3. Refilled(Aged(b, seconds)) = AtMost(Full, b.tokens + Gain(b.age + seconds))
        BY <3>1, <3>2, RefilledByGain
      <3>4. Aged(b, seconds).age < IdleLife
        BY <1>0, <2>1, <2>4, <3>1
      <3>. QED BY <1>0, <2>1, <2>2, <3>2, <3>3, <3>4 DEF Buckets, AtMost
    <2>. QED BY <2>3, <2>4
  <1>. QED BY <1>1, <1>2

----------------------------------------------------------------------------
(* The invariant                                                            *)

LimitInv == LimitTypeOK /\ BudgetHolds

LEMMA LimitStart == LimitInit => LimitInv
  <1>. SUFFICES ASSUME LimitInit PROVE LimitInv
    OBVIOUS
  <1>1. LimitTypeOK
    BY ConstantTypes DEF LimitInit, LimitTypeOK
  <1>2. BudgetHolds
    <2>1. Refilled(NoBucket) = Full
      BY DEF Refilled
    <2>2. ASSUME NEW s \in Scopes
          PROVE  redis[s] = NoBucket /\ memory[s] = NoBucket
                 /\ credit[s].redis = Full /\ credit[s].memory = Full
      BY DEF LimitInit
    <2>3. ASSUME NEW s \in Scopes
          PROVE  /\ credit[s].redis >= 0 /\ credit[s].memory >= 0
                 /\ Refilled(redis[s]) <= credit[s].redis
                 /\ Refilled(memory[s]) <= credit[s].memory
      <3>1. Refilled(redis[s]) = Full /\ Refilled(memory[s]) = Full
        BY <2>1, <2>2
      <3>2. Full \in Nat
        BY ConstantTypes
      <3>. QED BY <2>2, <3>1, <3>2
    <2>. QED BY <2>3 DEF BudgetHolds
  <1>. QED BY <1>1, <1>2 DEF LimitInv

(* A bucket in memory is one, too.                                          *)
LEMMA BucketsOfInv ==
  ASSUME LimitInv, NEW s \in Scopes
  PROVE  /\ redis[s] \in Buckets /\ memory[s] \in Buckets
         /\ redis[s] # NoBucket => redis[s].age < IdleLife
         /\ credit[s] \in [redis : Int, memory : Int]
         /\ credit[s].redis >= Refilled(redis[s]) /\ credit[s].memory >= Refilled(memory[s])
         /\ credit[s].redis >= 0 /\ credit[s].memory >= 0
         /\ Refilled(redis[s]) \in 0..Full /\ Refilled(memory[s]) \in 0..Full
  <1>1. redis[s] \in Buckets /\ memory[s] \in Buckets
    BY FillTimeFills DEF LimitInv, LimitTypeOK, Buckets
  <1>2. Refilled(redis[s]) \in 0..Full /\ Refilled(memory[s]) \in 0..Full
    BY <1>1, RefilledTypes
  <1>3. credit[s] \in [redis : Int, memory : Int]
    BY DEF LimitInv, LimitTypeOK
  <1>. QED BY <1>1, <1>2, <1>3, ConstantTypes DEF LimitInv, LimitTypeOK, BudgetHolds

LEMMA CheckKeeps == ASSUME LimitInv, NEW s \in Scopes, Check(s) PROVE LimitInv'
  <1>0. IdleLife > 0 /\ FillTime \in Nat /\ IdleLife \in Nat
    BY FillTimeFills, ConstantTypes DEF IdleLife
  <1>1. CASE redisUp
    <2>. DEFINE b == redis[s]
                c == credit[s].redis
    <2>1. /\ redis' = [redis EXCEPT ![s] = AfterCheck(b)]
          /\ credit' = [credit EXCEPT ![s].redis = c - Taken(b)]
          /\ UNCHANGED <<memory, redisUp>>
      BY <1>1 DEF Check, Taken
    <2>2. /\ AfterCheck(b) \in [tokens : 0..Full, age : {0}] /\ AfterCheck(b) # NoBucket
          /\ c - Taken(b) \in Int /\ c - Taken(b) >= 0
          /\ Refilled(AfterCheck(b)) <= c - Taken(b)
      BY BucketsOfInv, CheckedBucket
    <2>. HIDE DEF b, c
    <2>3. LimitTypeOK'
      BY <1>0, <2>1, <2>2 DEF LimitInv, LimitTypeOK
    <2>4. ASSUME NEW t \in Scopes
          PROVE  /\ credit'[t].redis >= 0 /\ credit'[t].memory >= 0
                 /\ Refilled(redis'[t]) <= credit'[t].redis
                 /\ Refilled(memory'[t]) <= credit'[t].memory
      BY <2>1, <2>2 DEF LimitInv, LimitTypeOK, BudgetHolds
    <2>. QED BY <2>3, <2>4 DEF LimitInv, BudgetHolds
  <1>2. CASE ~redisUp
    <2>. DEFINE b == memory[s]
                c == credit[s].memory
    <2>1. /\ memory' = [memory EXCEPT ![s] = AfterCheck(b)]
          /\ credit' = [credit EXCEPT ![s].memory = c - Taken(b)]
          /\ UNCHANGED <<redis, redisUp>>
      BY <1>2 DEF Check, Taken
    <2>2. /\ AfterCheck(b) \in [tokens : 0..Full, age : {0}] /\ AfterCheck(b) # NoBucket
          /\ c - Taken(b) \in Int /\ c - Taken(b) >= 0
          /\ Refilled(AfterCheck(b)) <= c - Taken(b)
      BY BucketsOfInv, CheckedBucket
    <2>. HIDE DEF b, c
    <2>3. LimitTypeOK'
      BY <1>0, <2>1, <2>2 DEF LimitInv, LimitTypeOK
    <2>4. ASSUME NEW t \in Scopes
          PROVE  /\ credit'[t].redis >= 0 /\ credit'[t].memory >= 0
                 /\ Refilled(redis'[t]) <= credit'[t].redis
                 /\ Refilled(memory'[t]) <= credit'[t].memory
      BY <2>1, <2>2 DEF LimitInv, LimitTypeOK, BudgetHolds
    <2>. QED BY <2>3, <2>4 DEF LimitInv, BudgetHolds
  <1>. QED BY <1>1, <1>2

LEMMA ClockKeeps ==
  ASSUME LimitInv, NEW seconds \in Int, ClockJumps(seconds)
  PROVE  LimitInv'
  <1>1. ASSUME NEW s \in Scopes
        PROVE  /\ Aged(redis[s], seconds) \in Buckets
               /\ Aged(redis[s], seconds) # NoBucket => Aged(redis[s], seconds).age < IdleLife
               /\ credit'[s] \in [redis : Int, memory : Int]
               /\ credit'[s].memory = credit[s].memory
               /\ credit'[s].redis >= 0
               /\ Refilled(Aged(redis[s], seconds)) <= credit'[s].redis
    <2>1. /\ seconds > 0 => credit'[s] = [credit[s] EXCEPT !.redis = AtMost(Full, credit[s].redis + seconds * Refill)]
          /\ ~(seconds > 0) => credit'[s] = [credit[s] EXCEPT !.redis = credit[s].redis]
      BY DEF ClockJumps
    <2>2. /\ credit[s] \in [redis : Int, memory : Int] /\ credit[s].redis >= 0
          /\ credit[s].redis >= Refilled(redis[s])
      BY BucketsOfInv
    <2>3. /\ Aged(redis[s], seconds) \in Buckets
          /\ Aged(redis[s], seconds) # NoBucket => Aged(redis[s], seconds).age < IdleLife
          /\ seconds > 0 => /\ AtMost(Full, credit[s].redis + seconds * Refill) \in Int
                            /\ Refilled(Aged(redis[s], seconds)) <= AtMost(Full, credit[s].redis + seconds * Refill)
          /\ seconds <= 0 => Refilled(Aged(redis[s], seconds)) <= credit[s].redis
      <3>1. /\ redis[s] \in Buckets /\ credit[s].redis \in Int /\ Refilled(redis[s]) <= credit[s].redis
            /\ redis[s] # NoBucket => redis[s].age < IdleLife
        BY BucketsOfInv
      <3>. QED BY <3>1, AgedBucket
    <2>4. Refilled(Aged(redis[s], seconds)) \in Nat
      BY <2>3, RefilledTypes
    <2>5. CASE seconds > 0
      BY <2>1, <2>2, <2>3, <2>4, <2>5
    <2>6. CASE ~(seconds > 0)
      BY <2>1, <2>2, <2>3, <2>4, <2>6
    <2>. QED BY <2>5, <2>6
  <1>2. /\ redis' = [s \in Scopes |-> Aged(redis[s], seconds)] /\ UNCHANGED <<memory, redisUp>>
        /\ credit' = [s \in Scopes |-> credit'[s]]
    BY DEF ClockJumps
  <1>3. LimitTypeOK'
    BY <1>1, <1>2 DEF LimitInv, LimitTypeOK, Buckets
  <1>4. BudgetHolds'
    BY <1>1, <1>2 DEF LimitInv, BudgetHolds
  <1>. QED BY <1>3, <1>4 DEF LimitInv

LEMMA SecondKeeps == ASSUME LimitInv, Second PROVE LimitInv'
  <1>. DEFINE Older(b) == IF b # NoBucket /\ b.age < FillTime THEN [b EXCEPT !.age = b.age + 1] ELSE b
  <1>0. FillTime \in Nat /\ FillTime < IdleLife /\ IdleLife \in Nat
    BY FillTimeFills, ConstantTypes DEF IdleLife
  <1>1. /\ redis' = [s \in Scopes |-> Aged(redis[s], 1)]
        /\ memory' = [s \in Scopes |-> Older(memory[s])]
        /\ credit' = [s \in Scopes |-> [redis |-> AtMost(Full, credit[s].redis + Refill),
                                        memory |-> AtMost(Full, credit[s].memory + Refill)]]
        /\ UNCHANGED redisUp
    BY DEF Second
  <1>. HIDE DEF Older
  <1>2. ASSUME NEW b \in Buckets, b # NoBucket => b.age < IdleLife,
               NEW c \in Int, Refilled(b) <= c
        PROVE  /\ Aged(b, 1) \in Buckets
               /\ Aged(b, 1) # NoBucket => Aged(b, 1).age < IdleLife
               /\ AtMost(Full, c + Refill) \in Int
               /\ Refilled(Aged(b, 1)) <= AtMost(Full, c + Refill)
    <2>1. 1 * Refill = Refill
      BY ConstantTypes
    <2>2. /\ Aged(b, 1) \in Buckets
          /\ Aged(b, 1) # NoBucket => Aged(b, 1).age < IdleLife
          /\ AtMost(Full, c + 1 * Refill) \in Int
          /\ Refilled(Aged(b, 1)) <= AtMost(Full, c + 1 * Refill)
      <3>1. 1 \in Int /\ 1 > 0
        OBVIOUS
      <3>. QED BY <1>2, <3>1, AgedBucket
    <2>. QED BY <2>1, <2>2
  <1>3. ASSUME NEW s \in Scopes
        PROVE  /\ Aged(redis[s], 1) \in Buckets
               /\ Aged(redis[s], 1) # NoBucket => Aged(redis[s], 1).age < IdleLife
               /\ AtMost(Full, credit[s].redis + Refill) \in Int
               /\ Refilled(Aged(redis[s], 1)) <= AtMost(Full, credit[s].redis + Refill)
    BY <1>2, BucketsOfInv
  <1>4. ASSUME NEW s \in Scopes
        PROVE  /\ Older(memory[s]) \in [tokens : 0..Full, age : 0..FillTime] \cup {NoBucket}
               /\ AtMost(Full, credit[s].memory + Refill) \in Int
               /\ Refilled(Older(memory[s])) <= AtMost(Full, credit[s].memory + Refill)
    <2>0. /\ memory[s] \in [tokens : 0..Full, age : 0..FillTime] \cup {NoBucket}
          /\ memory[s] \in Buckets /\ credit[s].memory \in Int
          /\ Refilled(memory[s]) <= credit[s].memory
      BY BucketsOfInv DEF LimitInv, LimitTypeOK
    <2>1. memory[s] # NoBucket => memory[s].age \in 0..FillTime
      BY <2>0
    <2>2. AtMost(Full, credit[s].memory + Refill) \in Int
      BY <2>0, ConstantTypes DEF AtMost
    <2>3. CASE memory[s] # NoBucket /\ memory[s].age < FillTime
      <3>1. Older(memory[s]) = [tokens |-> memory[s].tokens, age |-> memory[s].age + 1]
        BY <2>0, <2>3 DEF Older
      <3>2. Older(memory[s]) \in [tokens : 0..Full, age : 0..FillTime]
        BY <1>0, <2>0, <2>3, <3>1
      <3>3. Aged(memory[s], 1) = Older(memory[s])
        <4>1. ~(memory[s].age + 1 >= IdleLife)
          BY <1>0, <2>1, <2>3
        <4>. QED BY <2>3, <4>1 DEF Aged, Older
      <3>. QED BY <1>0, <1>2, <2>0, <2>1, <2>3, <3>2, <3>3
    <2>4. CASE ~(memory[s] # NoBucket /\ memory[s].age < FillTime)
      <3>1. Older(memory[s]) = memory[s]
        BY <2>4 DEF Older
      <3>2. Refilled(memory[s]) = Full
        <4>1. CASE memory[s] = NoBucket
          BY <4>1 DEF Refilled
        <4>2. CASE memory[s] # NoBucket
          <5>1. memory[s].age \in Int /\ memory[s].age >= FillTime /\ memory[s].tokens \in 0..Full
            BY <1>0, <2>0, <2>1, <2>4, <4>2
          <5>2. Gain(memory[s].age) >= Full /\ Gain(memory[s].age) \in Nat
            BY <5>1, OldIsFull, GainTypes
          <5>. QED BY <4>2, <5>1, <5>2, RefilledByGain, ConstantTypes DEF AtMost
        <4>. QED BY <4>1, <4>2
      <3>. QED BY <2>0, <2>2, <3>1, <3>2, ConstantTypes DEF AtMost
    <2>. QED BY <2>3, <2>4
  <1>5. ASSUME NEW s \in Scopes
        PROVE  credit'[s] \in [redis : Int, memory : Int] /\ credit'[s].redis >= 0 /\ credit'[s].memory >= 0
    <2>1. credit[s].redis \in Int /\ credit[s].memory \in Int /\ credit[s].redis >= 0 /\ credit[s].memory >= 0
      BY BucketsOfInv
    <2>. QED BY <1>1, <2>1, ConstantTypes DEF AtMost
  <1>6. LimitTypeOK'
    <2>1. credit' \in [Scopes -> [redis : Int, memory : Int]]
      BY <1>1, <1>5
    <2>. QED BY <1>1, <1>3, <1>4, <2>1 DEF LimitInv, LimitTypeOK, Buckets
  <1>7. BudgetHolds'
    BY <1>1, <1>3, <1>4, <1>5 DEF BudgetHolds
  <1>. QED BY <1>6, <1>7 DEF LimitInv

(* A bucket that is missing is full, and so is its credit.                  *)
LEMMA ResetKeeps ==
  ASSUME LimitInv, RedisStops \/ RedisStarts \/ ForgetMemory \/ Clear
  PROVE  LimitInv'
  <1>1. Refilled(NoBucket) = Full /\ Full \in Nat
    BY ConstantTypes DEF Refilled
  <1>2. CASE RedisStops
    BY <1>2 DEF RedisStops, LimitInv, LimitTypeOK, BudgetHolds
  <1>3. CASE RedisStarts
    BY <1>1, <1>3 DEF RedisStarts, LimitInv, LimitTypeOK, BudgetHolds
  <1>4. CASE ForgetMemory
    BY <1>1, <1>4 DEF ForgetMemory, LimitInv, LimitTypeOK, BudgetHolds
  <1>5. CASE Clear
    BY <1>1, <1>5 DEF Clear, LimitInv, LimitTypeOK, BudgetHolds
  <1>. QED BY <1>2, <1>3, <1>4, <1>5

LEMMA LimitStep == LimitInv /\ [LimitNext]_limitVars => LimitInv'
  <1>. SUFFICES ASSUME LimitInv, [LimitNext]_limitVars PROVE LimitInv'
    OBVIOUS
  <1>1. ASSUME NEW s \in Scopes, Check(s) PROVE LimitInv'
    BY <1>1, CheckKeeps
  <1>2. ASSUME NEW seconds \in -MaxJump..MaxJump, ClockJumps(seconds) PROVE LimitInv'
    BY <1>2, ClockKeeps, RateLimitAssumption
  <1>3. CASE UNCHANGED limitVars
    BY <1>3 DEF limitVars, LimitInv, LimitTypeOK, BudgetHolds
  <1>. QED BY <1>1, <1>2, <1>3, SecondKeeps, ResetKeeps DEF LimitNext

(* A bucket never lets more through than one that is refilled second by     *)
(* second, whatever happens to Redis, the bridge and the clock.             *)
THEOREM Budget == LimitSpec => []BudgetHolds
  BY LimitStart, LimitStep, PTL DEF LimitSpec, LimitInv

------------------------------------------------------------------------------
(* The calls                                                                *)

CallRecords ==
    [pc : {"idle", "ready", "waiting"}, op : Bodies \cup {None}, key : Keys \cup {None},
     attempt : Nat, left : Int, effects : Nat, result : Results]

(* A call under way has no result yet, and no effect while it can still be  *)
(* sent; one that is over reports what it had.                              *)
Sound(q) ==
    /\ q \in CallRecords
    /\ q.effects <= 1
    /\ q.pc # "idle" => q.op \in Bodies /\ q.key \in Keys /\ q.result = "none"
    /\ q.pc = "ready" => q.effects = 0
    /\ q.result = "ok" => q.effects = 1
    /\ q.result \in {"limited", "replayed"} => q.effects = 0

CallsAreSound == call \in [Callers -> CallRecords] /\ \A c \in Callers : Sound(call[c])

Stages == {"none", "limit", "handler", "publish", "provider", "record"}

(* A caller waits for one request, which is running, and has its effect     *)
(* once that has passed the handler.                                        *)
WaitersMatch ==
    /\ stage \in [Requests -> Stages] /\ waiter \in [Requests -> Callers \cup {None}]
    /\ \A r \in Requests : waiter[r] # None =>
          /\ request[r].pc = "running"
          /\ stage[r] \in {"limit", "handler", "publish", "provider"}
          /\ call[waiter[r]].pc = "waiting"
          /\ call[waiter[r]].effects = IF stage[r] = "publish" THEN 1 ELSE 0
    /\ \A r, q \in Requests : waiter[r] # None /\ waiter[r] = waiter[q] => r = q

(* The books: a row that is still to be written is that of a completion.    *)
BooksMatch ==
    /\ billed \subseteq Runs /\ forgiven \subseteq Runs
    /\ rows \in [Runs -> {"success", "error", "timeout", None}]
    /\ \A r \in Requests :
          /\ stage[r] # "none" => Inside(r)
          /\ stage[r] = "record" => request[r].pc = "sending" /\ request[r].run \in billed
    /\ BilledIsRecorded

CallsInv == IdempotencyInv /\ LimitInv /\ CallsAreSound /\ WaitersMatch /\ BooksMatch

LEMMA CallsStart == CallsInit => CallsInv
  <1>. SUFFICES ASSUME CallsInit PROVE CallsInv
    OBVIOUS
  <1>. USE DEF CallsInit
  <1>1. IdempotencyInv /\ LimitInv
    BY IdempotencyInit, LimitStart
  <1>2. CallsAreSound
    BY DEF CallsAreSound, Sound, CallRecords, NoCall, Idle, Results
  <1>3. WaitersMatch
    BY DEF WaitersMatch, Stages
  <1>4. BooksMatch
    BY BridgeCallsAssumption DEF BooksMatch, BilledIsRecorded
  <1>. QED BY <1>1, <1>2, <1>3, <1>4 DEF CallsInv

----------------------------------------------------------------------------
(* The parts                                                                *)

(* The table and the bucket are used in no other way than their modules     *)
(* say.                                                                     *)
LEMMA PartsStep ==
  ASSUME CallsAreSound, CallsNext
  PROVE  [Next]_vars /\ [LimitNext]_limitVars
  <1>. USE DEF callVars, handlerVars, effectVars
  <1>1. ASSUME NEW c \in Callers, NEW op, NEW k, BeginCall(c, op, k)
        PROVE  UNCHANGED <<vars, limitVars>>
    BY <1>1 DEF BeginCall
  <1>2. ASSUME NEW c \in Callers, Attempt(c) PROVE Next /\ UNCHANGED limitVars
    <2>1. call[c].key \in Keys /\ call[c].op \in Bodies
      BY <1>2 DEF Attempt, CallsAreSound, Sound
    <2>. QED BY <1>2, <2>1 DEF Attempt, Next
  <1>3. ASSUME NEW c \in Callers, TimeOut(c) PROVE UNCHANGED <<vars, limitVars>>
    BY <1>3 DEF TimeOut
  <1>4. ASSUME NEW r \in Requests, CheckRate(r) PROVE [Next]_vars /\ LimitNext
    <2>1. Check(ScopeOf(request[r].body)) /\ ScopeOf(request[r].body) \in Scopes
      BY <1>4, BridgeCallsAssumption DEF CheckRate, ScopeOf
    <2>2. UNCHANGED vars \/ ApplicationAnswers(r, "failed")
      BY <1>4 DEF CheckRate, Raise
    <2>. QED BY <2>1, <2>2 DEF Next, LimitNext
  <1>5. ASSUME NEW r \in Requests,
               \/ WriteVault(r) \/ PublishChange(r) \/ AskProvider(r)
               \/ ProviderGarbles(r) \/ ProviderCompletes(r)
               \/ \E lost \in BOOLEAN :
                     \/ RefuseToAsk(r, lost) \/ RecordCall(r, lost)
                     \/ \E kind \in {"timeout", "error"}, charged \in BOOLEAN :
                           ProviderFails(r, kind, charged, lost)
        PROVE  [Next]_vars /\ UNCHANGED limitVars
    <2>1. /\ UNCHANGED limitVars
          /\ UNCHANGED vars \/ ApplicationAnswers(r, "failed") \/ ApplicationAnswers(r, "ok")
      BY <1>5 DEF WriteVault, PublishChange, AskProvider, RefuseToAsk, ProviderFails, ProviderGarbles,
         ProviderCompletes, RecordCall, Raise, Unhandled
    <2>. QED BY <2>1 DEF Next
  <1>6. ASSUME NEW r \in Requests, Finish(r) PROVE Next /\ UNCHANGED limitVars
    BY <1>6 DEF Finish, Next
  <1>7. CASE CrashBridge
    BY <1>7 DEF CrashBridge, Next, LimitNext
  <1>8. CASE Outage
    BY <1>8 DEF Outage, LimitNext
  <1>9. CASE MoveClock
    BY <1>9 DEF MoveClock, LimitNext
  <1>10. CASE SecondPasses
    BY <1>10 DEF SecondPasses, LimitNext
  <1>11. CASE HalfDay
    BY <1>11 DEF HalfDay, Next
  <1>12. CASE DeleteNote
    BY <1>12 DEF DeleteNote
  <1>13. ASSUME NEW r \in Requests, Handler(r) PROVE [Next]_vars /\ [LimitNext]_limitVars
    BY <1>4, <1>5, <1>6, <1>13 DEF Handler
  <1>14. ASSUME NEW c \in Callers,
                \/ \E k \in Keys : Complete(c, k) \/ \E op \in Bodies : WritePage(c, op, k)
                \/ Attempt(c) \/ TimeOut(c)
         PROVE  [Next]_vars /\ [LimitNext]_limitVars
    BY <1>1, <1>2, <1>3, <1>14 DEF Complete, WritePage
  <1>. QED BY <1>7, <1>8, <1>9, <1>10, <1>11, <1>12, <1>13, <1>14 DEF CallsNext

----------------------------------------------------------------------------
(* The calls                                                                *)

LEMMA SleepIsTyped ==
  ASSUME NEW attempt \in Nat, NEW wait \in Int
  PROVE  SleepFor(attempt, wait) \in Int
  <1>1. 2 ^ attempt \in Int
    OBVIOUS
  <1>2. ASSUME NEW a \in Int PROVE CeilDiv(a, 2) \in Int
    BY DEF CeilDiv
  <1>. QED BY <1>1, <1>2 DEF SleepFor

(* A call that is over is sound if its result fits its effects.             *)
LEMMA EndedIsSound ==
  ASSUME NEW effects \in {0, 1}, NEW result \in Results,
         result = "ok" => effects = 1, result \in {"limited", "replayed"} => effects = 0
  PROVE  Sound(Idle(effects, result)) /\ Idle(effects, result).pc = "idle"
  BY DEF Sound, CallRecords, Idle

(* A 2xx for a call that had its effect, a 429 for one that had none.       *)
LEMMA AnsweredIsSound ==
  ASSUME NEW q, Sound(q), q.pc = "waiting", NEW status \in Int, NEW wait \in Int,
         status \in {200, 201} => q.effects = 1, status = 429 => q.effects = 0
  PROVE  Sound(Answered(q, status, wait)) /\ Answered(q, status, wait).pc # "waiting"
  <1>1. q.effects \in {0, 1} /\ q.attempt \in Nat /\ q.op \in Bodies /\ q.key \in Keys
    BY DEF Sound, CallRecords
  <1>2. CASE ~Retried(status)
    <2>1. Answered(q, status, wait) = Idle(q.effects, Outcome(q.op, status))
      BY <1>2 DEF Answered, Ended
    <2>2. /\ Outcome(q.op, status) \in {"ok", "failed"}
          /\ Outcome(q.op, status) = "ok" => q.effects = 1
      BY DEF Outcome, LLMOutcome, VaultOutcome
    <2>. QED BY <1>1, <2>1, <2>2, EndedIsSound DEF Results
  <1>3. CASE Retried(status)
    <2>1. q.effects = 0
      BY <1>3 DEF Retried
    <2>2. \/ Answered(q, status, wait) = Idle(0, "limited")
          \/ Answered(q, status, wait) = Ready(q.op, q.key, q.attempt + 1, SleepFor(q.attempt, wait), 0)
      BY <1>3, <2>1 DEF Answered, Ended
    <2>3. Sound(Idle(0, "limited")) /\ Idle(0, "limited").pc # "waiting"
      BY EndedIsSound DEF Results
    <2>4. ASSUME NEW left \in Int
          PROVE  /\ Sound(Ready(q.op, q.key, q.attempt + 1, left, 0))
                 /\ Ready(q.op, q.key, q.attempt + 1, left, 0).pc # "waiting"
      BY <1>1 DEF Ready, Sound, CallRecords, Results
    <2>. QED BY <1>1, <2>2, <2>3, <2>4, SleepIsTyped
  <1>. QED BY <1>2, <1>3

(* The effect of its run is counted for a call that had none.               *)
LEMMA CountedIsSound ==
  ASSUME NEW q, Sound(q), q.pc = "waiting", q.effects = 0
  PROVE  LET p == [q EXCEPT !.effects = @ + 1]
         IN  Sound(p) /\ p.pc = "waiting" /\ p.effects = 1
  BY DEF Sound, CallRecords

(* What request r answers, once its effect is counted or not.               *)
LEMMA DeliveryKeeps ==
  ASSUME CallsAreSound, WaitersMatch, NEW r \in Requests, NEW counted \in BOOLEAN,
         NEW status \in Int, NEW wait \in Int,
         call' = [c \in Callers |->
            IF c = waiter[r]
            THEN Answered(IF counted THEN CountEffect(call[c], c, r) ELSE call[c], status, wait)
            ELSE call[c]],
         waiter[r] # None =>
            /\ counted => stage[r] # "publish"
            /\ status \in {200, 201} => counted \/ stage[r] = "publish"
            /\ status = 429 => ~counted /\ stage[r] # "publish"
  PROVE  CallsAreSound' /\ \A c \in Callers : c # waiter[r] => call'[c] = call[c]
  <1>1. ASSUME NEW c \in Callers PROVE Sound(call'[c])
    <2>1. CASE c # waiter[r]
      BY <2>1 DEF CallsAreSound
    <2>2. CASE c = waiter[r]
      <3>. DEFINE q == IF counted THEN CountEffect(call[c], c, r) ELSE call[c]
      <3>1. /\ waiter[r] # None /\ Sound(call[c]) /\ call[c].pc = "waiting"
            /\ call[c].effects = IF stage[r] = "publish" THEN 1 ELSE 0
        BY <2>2, BridgeCallsAssumption DEF CallsAreSound, WaitersMatch
      <3>2. CASE counted
        <4>1. q = [call[c] EXCEPT !.effects = @ + 1] /\ call[c].effects = 0
          BY <2>2, <3>1, <3>2 DEF CountEffect
        <4>2. Sound(q) /\ q.pc = "waiting" /\ q.effects = 1
          <5>. HIDE DEF q
          <5>. QED BY <3>1, <4>1, CountedIsSound
        <4>3. Sound(Answered(q, status, wait))
          <5>. HIDE DEF q
          <5>. QED BY <3>1, <3>2, <4>2, AnsweredIsSound
        <4>. QED BY <2>2, <4>3
      <3>3. CASE ~counted
        <4>1. Sound(Answered(call[c], status, wait))
          BY <3>1, <3>3, AnsweredIsSound
        <4>. QED BY <2>2, <3>3, <4>1
      <3>. QED BY <3>2, <3>3
    <2>. QED BY <2>1, <2>2
  <1>2. call' \in [Callers -> CallRecords]
    BY <1>1 DEF Sound
  <1>. QED BY <1>1, <1>2 DEF CallsAreSound

(* The wait of a bucket that turned a check away is a number.               *)
LEMMA WaitIsTyped ==
  ASSUME LimitInv, NEW s \in Scopes
  PROVE  RetryAfter(AfterCheck(Bucket(s))) \in Int
  <1>1. Refilled(AfterCheck(Bucket(s))) \in Int
    BY BucketsOfInv, CheckedBucket, RefilledTypes DEF Bucket, Buckets, LimitInv
  <1>2. ASSUME NEW n \in Int PROVE CeilDiv(Unit - n, Refill) \in Int
    BY ConstantTypes DEF CeilDiv
  <1>. QED BY <1>1, <1>2 DEF RetryAfter

(* Every answer a handler gives leaves the calls sound.                     *)
DeliversAs(r, counted, status, wait) ==
    /\ call' = [c \in Callers |->
            IF c = waiter[r]
            THEN Answered(IF counted THEN CountEffect(call[c], c, r) ELSE call[c], status, wait)
            ELSE call[c]]
    /\ counted => stage[r] # "publish"
    /\ status \in {200, 201} => counted \/ stage[r] = "publish"
    /\ status = 429 => ~counted /\ stage[r] # "publish"

Delivers(r) ==
    \E counted \in BOOLEAN, status \in Int, wait \in Int : DeliversAs(r, counted, status, wait)

(* The handler of r goes on, or it answers.                                 *)
HandlerAnswers(r) ==
    /\ request[r].pc = "running" /\ Delivers(r)
    /\ waiter' = [waiter EXCEPT ![r] = None]
    /\ \E s \in {"none", "record"} : GoTo(r, s)
    /\ \E outcome \in {"ok", "failed"} : ApplicationAnswers(r, outcome)

LEMMA PlainAnswer ==
  ASSUME NEW r, NEW status \in Int, NEW wait \in Int, Deliver(r, status, wait),
         status \in {200, 201} => stage[r] = "publish",
         status = 429 => stage[r] # "publish"
  PROVE  Delivers(r)
  <1>1. call' = [c \in Callers |->
            IF c = waiter[r]
            THEN Answered(IF FALSE THEN CountEffect(call[c], c, r) ELSE call[c], status, wait)
            ELSE call[c]]
    BY DEF Deliver
  <1>2. DeliversAs(r, FALSE, status, wait)
    BY <1>1 DEF DeliversAs
  <1>. QED BY <1>2 DEF Delivers

LEMMA RaiseAnswers ==
  ASSUME NEW r, NEW code \in DOMAIN StatusOf, NEW wait \in Int, Raise(r, code, wait),
         stage[r] # "publish"
  PROVE  HandlerAnswers(r)
  <1>1. StatusOf[code] \in Int /\ StatusOf[code] \notin {200, 201}
    BY DEF StatusOf
  <1>2. Delivers(r)
    BY <1>1, PlainAnswer DEF Raise
  <1>. QED BY <1>2 DEF Raise, HandlerAnswers, Deliver, ApplicationAnswers

LEMMA CheckRateCases ==
  ASSUME CallsInv, NEW r \in Requests, CheckRate(r)
  PROVE  /\ UNCHANGED effectVars
         /\ \/ /\ At(r, "limit") /\ GoTo(r, "handler") /\ UNCHANGED <<vars, call, waiter>>
            \/ HandlerAnswers(r) /\ GoTo(r, "none")
  <1>1. UNCHANGED effectVars /\ At(r, "limit")
    BY DEF CheckRate
  <1>2. ScopeOf(request[r].body) \in Scopes
    BY BridgeCallsAssumption DEF ScopeOf
  <1>3. RetryAfter(AfterCheck(Bucket(ScopeOf(request[r].body)))) \in Int
    BY <1>2, WaitIsTyped DEF CallsInv
  <1>4. CASE ~(GoTo(r, "handler") /\ UNCHANGED <<vars, call, waiter>>)
    <2>1. Raise(r, "rate_limited", RetryAfter(AfterCheck(Bucket(ScopeOf(request[r].body)))))
      BY <1>4 DEF CheckRate
    <2>2. "rate_limited" \in DOMAIN StatusOf /\ stage[r] # "publish"
      BY <1>1 DEF StatusOf, At
    <2>. QED BY <1>1, <1>3, <2>1, <2>2, RaiseAnswers DEF Raise
  <1>. QED BY <1>1, <1>4

LEMMA WriteVaultCases ==
  ASSUME NEW r \in Requests, WriteVault(r)
  PROVE  /\ UNCHANGED <<billed, rows, forgiven>>
         /\ \/ /\ At(r, "handler") /\ GoTo(r, "publish") /\ UNCHANGED <<vars, waiter>>
               /\ call' = [c \in Callers |-> CountEffect(call[c], c, r)]
            \/ HandlerAnswers(r) /\ GoTo(r, "none")
  <1>1. CASE Raise(r, IF request[r].body = "create" THEN "conflict" ELSE "not_found", 0)
    <2>1. (IF request[r].body = "create" THEN "conflict" ELSE "not_found") \in DOMAIN StatusOf
      BY DEF StatusOf
    <2>2. stage[r] # "publish"
      BY DEF WriteVault, At
    <2>. QED BY <1>1, <2>1, <2>2, RaiseAnswers DEF Raise, WriteVault
  <1>. QED BY <1>1 DEF WriteVault

(* The answers of the other handlers.                                       *)
LEMMA OtherAnswers ==
  ASSUME NEW r \in Requests
  PROVE  /\ PublishChange(r) => HandlerAnswers(r)
         /\ \A lost \in BOOLEAN : RefuseToAsk(r, lost) => HandlerAnswers(r)
         /\ \A kind, charged, lost :
               charged \in BOOLEAN /\ ProviderFails(r, kind, charged, lost) => HandlerAnswers(r)
         /\ ProviderGarbles(r) => HandlerAnswers(r)
         /\ ProviderCompletes(r) => HandlerAnswers(r)
  <1>1. ASSUME PublishChange(r) PROVE HandlerAnswers(r)
    <2>1. Deliver(r, IF request[r].body = "create" THEN 201 ELSE 200, 0) /\ stage[r] = "publish"
      BY <1>1 DEF PublishChange, At
    <2>2. Delivers(r)
      BY <2>1, PlainAnswer
    <2>. QED BY <1>1, <2>2 DEF PublishChange, HandlerAnswers, Deliver, At
  <1>2. ASSUME NEW lost \in BOOLEAN, RefuseToAsk(r, lost) PROVE HandlerAnswers(r)
    <2>1. "dependency_unavailable" \in DOMAIN StatusOf /\ stage[r] # "publish"
      BY <1>2 DEF StatusOf, RefuseToAsk, At
    <2>. QED BY <1>2, <2>1, RaiseAnswers DEF RefuseToAsk
  <1>3. ASSUME NEW kind, NEW lost, NEW charged \in BOOLEAN, ProviderFails(r, kind, charged, lost)
        PROVE  HandlerAnswers(r)
    BY <1>3 DEF ProviderFails, HandlerAnswers, Delivers, DeliversAs, At
  <1>4. ASSUME ProviderGarbles(r) PROVE HandlerAnswers(r)
    <2>1. call' = [c \in Callers |->
            IF c = waiter[r]
            THEN Answered(IF TRUE THEN CountEffect(call[c], c, r) ELSE call[c], 500, 0)
            ELSE call[c]]
      BY <1>4 DEF ProviderGarbles
    <2>2. DeliversAs(r, TRUE, 500, 0)
      BY <1>4, <2>1 DEF DeliversAs, ProviderGarbles, At
    <2>3. Delivers(r)
      <3>. SUFFICES \E counted \in BOOLEAN, status \in Int, wait \in Int :
                       DeliversAs(r, counted, status, wait)
        BY DEF Delivers
      <3>. WITNESS TRUE \in BOOLEAN, 500 \in Int, 0 \in Int
      <3>. QED BY <2>2
    <2>. QED BY <1>4, <2>3 DEF ProviderGarbles, HandlerAnswers, Unhandled, At
  <1>5. ASSUME ProviderCompletes(r) PROVE HandlerAnswers(r)
    <2>1. call' = [c \in Callers |->
            IF c = waiter[r]
            THEN Answered(IF TRUE THEN CountEffect(call[c], c, r) ELSE call[c], 200, 0)
            ELSE call[c]]
      BY <1>5 DEF ProviderCompletes
    <2>2. DeliversAs(r, TRUE, 200, 0)
      BY <1>5, <2>1 DEF DeliversAs, ProviderCompletes, At
    <2>3. Delivers(r)
      <3>. SUFFICES \E counted \in BOOLEAN, status \in Int, wait \in Int :
                       DeliversAs(r, counted, status, wait)
        BY DEF Delivers
      <3>. WITNESS TRUE \in BOOLEAN, 200 \in Int, 0 \in Int
      <3>. QED BY <2>2
    <2>. QED BY <1>5, <2>3 DEF ProviderCompletes, HandlerAnswers, At
  <1>. QED BY <1>1, <1>2, <1>3, <1>4, <1>5

(* An answer frees its caller and leaves the others waiting.                *)
LEMMA AnswerKeeps ==
  ASSUME CallsInv, NEW r \in Requests, HandlerAnswers(r)
  PROVE  CallsAreSound' /\ WaitersMatch'
  <1>1. PICK counted \in BOOLEAN, status \in Int, wait \in Int : DeliversAs(r, counted, status, wait)
    BY DEF HandlerAnswers, Delivers
  <1>2. CallsAreSound' /\ \A c \in Callers : c # waiter[r] => call'[c] = call[c]
    BY <1>1, DeliveryKeeps DEF CallsInv, DeliversAs
  <1>3. PICK s \in {"none", "record"} : stage' = [stage EXCEPT ![r] = s]
    BY DEF HandlerAnswers, GoTo
  <1>4. waiter' = [waiter EXCEPT ![r] = None]
    BY DEF HandlerAnswers
  <1>5. \A q \in Requests : q # r => request'[q] = request[q]
    BY DEF HandlerAnswers, ApplicationAnswers, CallsInv, IdempotencyInv, TypeOK
  <1>6. WaitersMatch
    BY DEF CallsInv
  <1>. QED BY <1>2, <1>3, <1>4, <1>5, <1>6 DEF WaitersMatch, Stages

LEMMA AttemptKeeps ==
  ASSUME CallsInv, NEW c \in Callers, Attempt(c)
  PROVE  CallsAreSound' /\ WaitersMatch'
  <1>1. /\ Sound(call[c]) /\ call[c].pc = "ready" /\ call[c].effects = 0
        /\ \A r \in Requests : waiter[r] # c
    BY BridgeCallsAssumption DEF Attempt, CallsInv, CallsAreSound, Sound, WaitersMatch
  <1>2. CASE AnswerFromTable(call[c].key, call[c].op) /\ UNCHANGED handlerVars
              /\ call' = [call EXCEPT ![c] =
                   Ended(call[c], IF answer'.kind = "replay" THEN "replayed" ELSE "failed")]
    <2>. DEFINE result == IF answer'.kind = "replay" THEN "replayed" ELSE "failed"
    <2>1. call' = [call EXCEPT ![c] = Idle(0, result)] /\ UNCHANGED <<request, stage, waiter>>
      BY <1>1, <1>2 DEF Ended, AnswerFromTable, handlerVars
    <2>2. Sound(Idle(0, result))
      BY EndedIsSound DEF Results
    <2>. HIDE DEF result
    <2>3. CallsAreSound'
      BY <2>1, <2>2 DEF CallsInv, CallsAreSound, Sound
    <2>4. WaitersMatch'
      BY <1>1, <2>1 DEF CallsInv, CallsAreSound, WaitersMatch
    <2>. QED BY <2>3, <2>4
  <1>3. ASSUME NEW r \in Requests, NEW x \in Runs, CallApplication(r, call[c].key, call[c].op, x),
               call' = [call EXCEPT ![c].pc = "waiting"],
               stage' = [stage EXCEPT ![r] = "limit"], waiter' = [waiter EXCEPT ![r] = c]
        PROVE  CallsAreSound' /\ WaitersMatch'
    <2>1. CallsAreSound'
      BY <1>1, <1>3 DEF CallsInv, CallsAreSound, Sound, CallRecords
    <2>2. /\ request'[r].pc = "running"
          /\ \A q \in Requests : q # r => request'[q] = request[q]
      BY <1>3 DEF CallApplication, Buffered, CallsInv, IdempotencyInv, TypeOK
    <2>3. /\ call'[c].pc = "waiting" /\ call'[c].effects = 0
          /\ \A d \in Callers : d # c => call'[d] = call[d]
      BY <1>1, <1>3 DEF CallsInv, CallsAreSound
    <2>4. /\ stage' \in [Requests -> Stages] /\ waiter' \in [Requests -> Callers \cup {None}]
          /\ stage'[r] = "limit" /\ waiter'[r] = c
          /\ \A q \in Requests : q # r => stage'[q] = stage[q] /\ waiter'[q] = waiter[q]
      BY <1>3 DEF CallsInv, WaitersMatch, Stages
    <2>5. WaitersMatch'
      BY <1>1, <2>2, <2>3, <2>4 DEF CallsInv, WaitersMatch
    <2>. QED BY <2>1, <2>5
  <1>. QED BY <1>2, <1>3 DEF Attempt

(* A handler goes on: the call that waits for it has its effect with the    *)
(* write.                                                                   *)
LEMMA ProgressKeeps ==
  ASSUME CallsInv, NEW r \in Requests, request[r].pc = "running",
         UNCHANGED <<vars, waiter>>,
         \/ At(r, "limit") /\ GoTo(r, "handler") /\ UNCHANGED call
         \/ At(r, "handler") /\ GoTo(r, "provider") /\ UNCHANGED call
         \/ /\ At(r, "handler") /\ GoTo(r, "publish")
            /\ call' = [c \in Callers |-> CountEffect(call[c], c, r)]
  PROVE  CallsAreSound' /\ WaitersMatch'
  <1>1. WaitersMatch /\ CallsAreSound /\ UNCHANGED <<request, waiter>>
    BY DEF CallsInv, vars
  <1>2. CASE UNCHANGED call /\ \E s \in {"handler", "provider"} : stage' = [stage EXCEPT ![r] = s]
              /\ stage[r] # "publish"
    <2>1. CallsAreSound'
      BY <1>1, <1>2 DEF CallsAreSound, Sound
    <2>2. WaitersMatch'
      BY <1>1, <1>2 DEF WaitersMatch, Stages
    <2>. QED BY <2>1, <2>2
  <1>3. CASE /\ At(r, "handler") /\ GoTo(r, "publish")
             /\ call' = [c \in Callers |-> CountEffect(call[c], c, r)]
    <2>1. ASSUME NEW c \in Callers
          PROVE  /\ Sound(call'[c]) /\ call'[c].pc = call[c].pc
                 /\ c # waiter[r] => call'[c] = call[c]
                 /\ c = waiter[r] => call'[c].effects = 1
      <3>1. Sound(call[c]) /\ call'[c] = CountEffect(call[c], c, r)
        BY <1>1, <1>3 DEF CallsAreSound
      <3>2. CASE c = waiter[r]
        <4>1. call[c].pc = "waiting" /\ call[c].effects = 0
          BY <1>1, <1>3, <3>2, BridgeCallsAssumption DEF WaitersMatch, At
        <4>. QED BY <3>1, <3>2, <4>1, CountedIsSound DEF CountEffect
      <3>. QED BY <3>1, <3>2 DEF CountEffect
    <2>2. CallsAreSound'
      BY <1>3, <2>1 DEF CallsAreSound, Sound
    <2>3. stage' = [stage EXCEPT ![r] = "publish"]
      BY <1>3 DEF GoTo
    <2>4. WaitersMatch'
      BY <1>1, <2>1, <2>3 DEF WaitersMatch, Stages
    <2>. QED BY <2>2, <2>4
  <1>. QED BY <1>2, <1>3 DEF GoTo, At

LEMMA HandlerKeeps ==
  ASSUME CallsInv, NEW r \in Requests, Handler(r)
  PROVE  CallsAreSound' /\ WaitersMatch'
  <1>1. CASE CheckRate(r)
    BY <1>1, CheckRateCases, AnswerKeeps, ProgressKeeps DEF At
  <1>2. CASE WriteVault(r)
    BY <1>2, WriteVaultCases, AnswerKeeps, ProgressKeeps DEF At
  <1>3. CASE \/ PublishChange(r) \/ ProviderGarbles(r) \/ ProviderCompletes(r)
             \/ \E lost \in BOOLEAN :
                   \/ RefuseToAsk(r, lost)
                   \/ \E kind \in {"timeout", "error"}, charged \in BOOLEAN :
                         ProviderFails(r, kind, charged, lost)
    BY <1>3, OtherAnswers, AnswerKeeps
  <1>4. CASE AskProvider(r)
    BY <1>4, ProgressKeeps DEF AskProvider, callVars, At
  <1>5. CASE \E lost \in BOOLEAN : RecordCall(r, lost)
    <2>1. /\ UNCHANGED <<request, call, waiter>> /\ request[r].pc = "sending"
          /\ stage' = [stage EXCEPT ![r] = "none"]
      BY <1>5 DEF RecordCall, vars, callVars, GoTo
    <2>2. waiter[r] = None
      BY <2>1 DEF CallsInv, WaitersMatch
    <2>. QED BY <2>1, <2>2 DEF CallsInv, CallsAreSound, Sound, WaitersMatch, Stages
  <1>6. CASE Finish(r)
    <2>1. /\ UNCHANGED <<call, stage, waiter>> /\ request[r].pc = "sending"
          /\ request' = [request EXCEPT ![r] = NoRequest]
      BY <1>6 DEF Finish, StoreAnswer, StoreFails, callVars, handlerVars
    <2>2. waiter[r] = None
      BY <2>1 DEF CallsInv, WaitersMatch
    <2>3. \A q \in Requests : q # r => request'[q] = request[q]
      BY <2>1 DEF CallsInv, IdempotencyInv, TypeOK
    <2>. QED BY <2>1, <2>2, <2>3 DEF CallsInv, CallsAreSound, Sound, WaitersMatch
  <1>. QED BY <1>1, <1>2, <1>3, <1>4, <1>5, <1>6 DEF Handler

(* Every step leaves the calls sound and the callers waiting for their own. *)
LEMMA CallersStep ==
  ASSUME CallsInv, [CallsNext]_allVars
  PROVE  CallsAreSound' /\ WaitersMatch'
  <1>. USE DEF callVars, handlerVars, effectVars
  <1>0. WaitersMatch /\ CallsAreSound
    BY DEF CallsInv
  <1>1. ASSUME UNCHANGED <<request, call, stage, waiter>> PROVE CallsAreSound' /\ WaitersMatch'
    BY <1>0, <1>1 DEF CallsAreSound, Sound, WaitersMatch
  <1>2. ASSUME NEW c \in Callers, NEW op \in Bodies, NEW k \in Keys, BeginCall(c, op, k)
        PROVE  CallsAreSound' /\ WaitersMatch'
    <2>1. /\ call' = [call EXCEPT ![c] = Stamped(op, k)] /\ call[c].pc = "idle"
          /\ UNCHANGED <<request, stage, waiter>>
      BY <1>2 DEF BeginCall, vars
    <2>2. Sound(Stamped(op, k))
      BY DEF Stamped, Ready, Sound, CallRecords, Results
    <2>3. CallsAreSound'
      BY <1>0, <2>1, <2>2 DEF CallsAreSound, Sound
    <2>4. WaitersMatch'
      BY <1>0, <2>1 DEF CallsAreSound, WaitersMatch
    <2>. QED BY <2>3, <2>4
  <1>3. ASSUME NEW c \in Callers, TimeOut(c) PROVE CallsAreSound' /\ WaitersMatch'
    <2>1. /\ call' = [call EXCEPT ![c] = Idle(call[c].effects, "lost")]
          /\ waiter' = [r \in Requests |-> IF waiter[r] = c THEN None ELSE waiter[r]]
          /\ UNCHANGED <<request, stage>>
      BY <1>3 DEF TimeOut, vars, Ended
    <2>2. Sound(Idle(call[c].effects, "lost"))
      <3>1. call[c].effects \in {0, 1}
        BY <1>0 DEF CallsAreSound, Sound, CallRecords
      <3>. QED BY <3>1, EndedIsSound DEF Results
    <2>3. CallsAreSound'
      BY <1>0, <2>1, <2>2 DEF CallsAreSound, Sound
    <2>4. \A d \in Callers : d # c => call'[d] = call[d]
      BY <1>0, <2>1 DEF CallsAreSound
    <2>5. WaitersMatch'
      BY <1>0, <2>1, <2>4, BridgeCallsAssumption DEF WaitersMatch
    <2>. QED BY <2>3, <2>5
  <1>4. CASE CrashBridge
    <2>1. /\ waiter' = [r \in Requests |-> None] /\ stage' = [r \in Requests |-> "none"]
          /\ call' = [c \in Callers |->
                IF call[c].pc = "waiting" THEN Idle(call[c].effects, "lost") ELSE call[c]]
      BY <1>4 DEF CrashBridge, Ended
    <2>2. ASSUME NEW c \in Callers PROVE Sound(call'[c])
      <3>1. call[c].effects \in {0, 1} /\ Sound(call[c])
        BY <1>0 DEF CallsAreSound, Sound, CallRecords
      <3>. QED BY <2>1, <3>1, EndedIsSound DEF Results
    <2>3. CallsAreSound'
      BY <2>1, <2>2 DEF CallsAreSound, Sound
    <2>4. WaitersMatch'
      BY <2>1 DEF WaitersMatch, Stages
    <2>. QED BY <2>3, <2>4
  <1>5. CASE Outage \/ MoveClock \/ DeleteNote
    BY <1>1, <1>5 DEF Outage, MoveClock, DeleteNote, vars
  <1>6. CASE HalfDay
    BY <1>1, <1>6 DEF HalfDay, Tick
  <1>7. CASE SecondPasses
    <2>1. /\ call' = [c \in Callers |-> IF call[c].left > 0 THEN [call[c] EXCEPT !.left = @ - 1]
                                        ELSE call[c]]
          /\ UNCHANGED <<request, stage, waiter>>
      BY <1>7 DEF SecondPasses, vars
    <2>2. ASSUME NEW c \in Callers
          PROVE  /\ Sound(call'[c]) /\ call'[c].pc = call[c].pc
                 /\ call'[c].effects = call[c].effects
      <3>1. Sound(call[c])
        BY <1>0 DEF CallsAreSound
      <3>. QED BY <2>1, <3>1 DEF Sound, CallRecords
    <2>3. CallsAreSound'
      BY <2>1, <2>2 DEF CallsAreSound, Sound
    <2>4. WaitersMatch'
      BY <1>0, <2>1, <2>2 DEF WaitersMatch
    <2>. QED BY <2>3, <2>4
  <1>8. ASSUME NEW c \in Callers,
               \/ \E k \in Keys : Complete(c, k) \/ \E op \in Bodies : WritePage(c, op, k)
               \/ Attempt(c) \/ TimeOut(c)
        PROVE  CallsAreSound' /\ WaitersMatch'
    BY <1>2, <1>3, <1>8, AttemptKeeps DEF Complete, WritePage
  <1>9. CASE UNCHANGED allVars
    BY <1>1, <1>9 DEF allVars, vars
  <1>. QED BY <1>4, <1>5, <1>6, <1>7, <1>8, <1>9, HandlerKeeps DEF CallsNext

----------------------------------------------------------------------------
(* The books                                                                *)

(* A handler that leaves note of a charge, of a row, or of neither.         *)
LEMMA EntryKeeps ==
  ASSUME CallsInv, NEW r \in Requests, stage[r] # "record",
         NEW x \in Runs, x = request[r].run,
         \A q \in Requests : request'[q].run = request[q].run
                             /\ (q # r => request'[q] = request[q] /\ stage'[q] = stage[q]),
         request'[r].pc # "idle", stage' \in [Requests -> Stages],
         billed' = billed \/ billed' = billed \cup {x},
         forgiven' = forgiven \/ forgiven' = forgiven \cup {x},
         rows' = rows \/ \E s \in {"error", "timeout"} : rows' = [rows EXCEPT ![x] = s],
         stage'[r] = "record" => request'[r].pc = "sending" /\ x \in billed',
         x \in billed' \ billed => rows'[x] # None \/ x \in forgiven' \/ stage'[r] = "record"
  PROVE  BooksMatch'
  <1>1. BooksMatch /\ None \notin {"error", "timeout"}
    BY BridgeCallsAssumption DEF CallsInv
  <1>2. /\ billed' \subseteq Runs /\ forgiven' \subseteq Runs /\ billed \subseteq billed'
        /\ forgiven \subseteq forgiven' /\ \A y \in billed' : y # x => y \in billed
        /\ rows' \in [Runs -> {"success", "error", "timeout", None}]
    BY <1>1 DEF BooksMatch
  <1>3. \A q \in Requests :
          /\ stage'[q] # "none" => request'[q].pc # "idle"
          /\ stage'[q] = "record" => request'[q].pc = "sending" /\ request'[q].run \in billed'
    BY <1>1, <1>2 DEF BooksMatch, Inside
  <1>4. \A y \in Runs : /\ rows[y] # None => rows'[y] # None
                        /\ rows'[y] = "success" => rows[y] = "success"
    BY <1>1 DEF BooksMatch
  <1>5. \A y \in InHand("record") : y \in InHand("record")'
    BY DEF InHand
  <1>6. \A y \in billed' : rows'[y] # None \/ y \in forgiven' \/ y \in InHand("record")'
    <2>. SUFFICES ASSUME NEW y \in billed', y \notin billed
                  PROVE  rows'[y] # None \/ y \in forgiven' \/ y \in InHand("record")'
      BY <1>1, <1>2, <1>4, <1>5 DEF BooksMatch, BilledIsRecorded
    <2>1. y = x
      BY <1>2
    <2>. QED BY <2>1 DEF InHand
  <1>7. \A y \in Runs : rows'[y] = "success" => y \in billed'
    BY <1>1, <1>2, <1>4 DEF BooksMatch, BilledIsRecorded
  <1>. QED BY <1>2, <1>3, <1>6, <1>7 DEF BooksMatch, BilledIsRecorded, Inside

(* A new run is given a name no request has and no row is owed to.          *)
LEMMA NewRunKeeps ==
  ASSUME CallsInv, NEW r \in Requests, NEW x \in Runs, NEW k, NEW b,
         CallApplication(r, k, b, x), stage' = [stage EXCEPT ![r] = "limit"], ForgetRun(x)
  PROVE  BooksMatch'
  <1>1. BooksMatch /\ RequestsMatchRuns
    BY DEF CallsInv, IdempotencyInv
  <1>2. \A q \in Requests : stage[q] # "none" => request[q].run # x /\ q # r
    BY <1>1 DEF BooksMatch, RequestsMatchRuns, Inside, CallApplication, Unused
  <1>3. /\ request'[r].pc = "running"
        /\ \A q \in Requests : q # r => request'[q] = request[q]
    BY DEF CallApplication, Buffered, CallsInv, IdempotencyInv, TypeOK
  <1>4. /\ stage'[r] = "limit" /\ \A q \in Requests : q # r => stage'[q] = stage[q]
    BY DEF CallsInv, WaitersMatch
  <1>5. /\ billed' = billed \ {x} /\ forgiven' = forgiven \ {x}
        /\ rows' = [rows EXCEPT ![x] = None]
        /\ rows' \in [Runs -> {"success", "error", "timeout", None}]
    BY <1>1 DEF ForgetRun, BooksMatch
  <1>6. \A q \in Requests :
          /\ stage'[q] # "none" => request'[q].pc # "idle"
          /\ stage'[q] = "record" => request'[q].pc = "sending" /\ request'[q].run \in billed'
    BY <1>1, <1>2, <1>3, <1>4, <1>5 DEF BooksMatch, Inside
  <1>7. \A y \in InHand("record") : y \in InHand("record")'
    BY <1>2, <1>3, <1>4 DEF InHand
  <1>8. BilledIsRecorded'
    BY <1>1, <1>5, <1>7, BridgeCallsAssumption DEF BooksMatch, BilledIsRecorded
  <1>. QED BY <1>1, <1>5, <1>6, <1>8 DEF BooksMatch, Inside

(* An answer leaves its request with the run it had.                        *)
LEMMA AnswerMoves ==
  ASSUME CallsInv, NEW r \in Requests, NEW outcome, NEW s,
         ApplicationAnswers(r, outcome), GoTo(r, s)
  PROVE  /\ request[r].run \in Runs
         /\ \A q \in Requests : request'[q].run = request[q].run
                                /\ (q # r => request'[q] = request[q] /\ stage'[q] = stage[q])
         /\ request'[r].pc = "sending" /\ stage'[r] = s
         /\ s \in Stages => stage' \in [Requests -> Stages]
  <1>1. request[r].pc = "running" /\ request' = [request EXCEPT ![r].pc = "sending"]
    BY DEF ApplicationAnswers
  <1>2. request[r].run \in Runs
    BY <1>1 DEF CallsInv, IdempotencyInv, RequestsMatchRuns, Inside
  <1>3. stage' = [stage EXCEPT ![r] = s]
    BY DEF GoTo
  <1>. QED BY <1>1, <1>2, <1>3 DEF CallsInv, WaitersMatch, IdempotencyInv, TypeOK

LEMMA HandlerBooks ==
  ASSUME CallsInv, NEW r \in Requests, Handler(r)
  PROVE  BooksMatch'
  <1>. USE DEF effectVars, Stages
  <1>1. CASE /\ UNCHANGED <<billed, rows, forgiven>> /\ stage[r] # "record"
             /\ GoTo(r, "none") /\ \E outcome \in {"ok", "failed"} : ApplicationAnswers(r, outcome)
    <2>1. PICK outcome \in {"ok", "failed"} : ApplicationAnswers(r, outcome)
      BY <1>1
    <2>. QED BY <1>1, <2>1, AnswerMoves, EntryKeeps
  <1>2. CASE /\ UNCHANGED <<request, billed, rows, forgiven>> /\ request[r].pc = "running"
             /\ \E s \in {"handler", "provider", "publish"} : stage' = [stage EXCEPT ![r] = s]
    <2>1. stage[r] # "record" /\ BooksMatch
      BY <1>2 DEF CallsInv, BooksMatch
    <2>2. \A q \in Requests : (stage'[q] = "record") <=> (stage[q] = "record")
      BY <1>2, <2>1 DEF CallsInv, WaitersMatch
    <2>3. InHand("record")' = InHand("record")
      BY <1>2, <2>2 DEF InHand
    <2>. QED BY <1>2, <2>1, <2>2, <2>3 DEF BooksMatch, BilledIsRecorded, Inside, CallsInv, WaitersMatch
  <1>3. CASE CheckRate(r)
    <2>1. CASE HandlerAnswers(r) /\ GoTo(r, "none")
      BY <1>1, <1>3, <2>1, CheckRateCases DEF HandlerAnswers, CheckRate, At
    <2>2. CASE At(r, "limit") /\ GoTo(r, "handler") /\ UNCHANGED <<vars, call, waiter>>
      BY <1>2, <1>3, <2>2, CheckRateCases DEF At, GoTo, vars
    <2>. QED BY <1>3, <2>1, <2>2, CheckRateCases
  <1>4. CASE WriteVault(r)
    <2>1. CASE HandlerAnswers(r) /\ GoTo(r, "none")
      BY <1>1, <1>4, <2>1, WriteVaultCases DEF HandlerAnswers, WriteVault, At
    <2>2. CASE At(r, "handler") /\ GoTo(r, "publish") /\ UNCHANGED <<vars, waiter>>
      BY <1>2, <1>4, <2>2, WriteVaultCases DEF At, GoTo, vars
    <2>. QED BY <1>4, <2>1, <2>2, WriteVaultCases
  <1>5. CASE PublishChange(r)
    BY <1>1, <1>5 DEF PublishChange, At
  <1>6. CASE AskProvider(r)
    BY <1>2, <1>6 DEF AskProvider, At, GoTo, vars
  <1>7. ASSUME NEW lost \in BOOLEAN, RefuseToAsk(r, lost) PROVE BooksMatch'
    <2>1. ApplicationAnswers(r, "failed") /\ GoTo(r, "none")
      BY <1>7 DEF RefuseToAsk, Raise
    <2>2. /\ \/ rows' = rows
             \/ \E s \in {"error", "timeout"} : rows' = [rows EXCEPT ![request[r].run] = s]
          /\ forgiven' = forgiven \/ forgiven' = forgiven \cup {request[r].run}
          /\ UNCHANGED billed /\ stage[r] # "record"
      BY <1>7 DEF RefuseToAsk, WriteRow, At
    <2>3. /\ request[r].run \in Runs
          /\ \A q \in Requests : request'[q].run = request[q].run
                                 /\ (q # r => request'[q] = request[q] /\ stage'[q] = stage[q])
          /\ request'[r].pc = "sending" /\ stage'[r] = "none" /\ stage' \in [Requests -> Stages]
      BY <2>1, AnswerMoves
    <2>. QED BY <2>2, <2>3, EntryKeeps
  <1>8. ASSUME NEW kind \in {"timeout", "error"}, NEW charged \in BOOLEAN, NEW lost \in BOOLEAN,
               ProviderFails(r, kind, charged, lost)
        PROVE  BooksMatch'
    <2>. DEFINE x == request[r].run
    <2>1. /\ ApplicationAnswers(r, "failed") /\ GoTo(r, "none") /\ stage[r] # "record"
          /\ FailureRow(kind) \in {"error", "timeout"}
          /\ WriteRow(x, FailureRow(kind), lost)
          /\ billed' = billed \/ billed' = billed \cup {x}
      BY <1>8 DEF ProviderFails, FailureRow, At
    <2>2. /\ x \in Runs /\ request'[r].pc = "sending" /\ stage'[r] = "none"
          /\ \A q \in Requests : request'[q].run = request[q].run
                                 /\ (q # r => request'[q] = request[q] /\ stage'[q] = stage[q])
          /\ stage' \in [Requests -> Stages]
      BY <2>1, AnswerMoves
    <2>3. /\ \/ rows' = rows
             \/ \E s \in {"error", "timeout"} : rows' = [rows EXCEPT ![x] = s]
          /\ forgiven' = forgiven \/ forgiven' = forgiven \cup {x}
      BY <2>1 DEF WriteRow
    <2>4. rows'[x] # None \/ x \in forgiven'
      BY <2>1, <2>2, BridgeCallsAssumption DEF WriteRow, CallsInv, BooksMatch
    <2>. HIDE DEF x
    <2>. QED BY ONLY CallsInv, r \in Requests, <2>1, <2>2, <2>3, <2>4, EntryKeeps DEF x
  <1>9. CASE ProviderGarbles(r)
    <2>1. ApplicationAnswers(r, "failed") /\ GoTo(r, "none") /\ stage[r] # "record"
      BY <1>9 DEF ProviderGarbles, Unhandled, At
    <2>2. /\ billed' = billed \cup {request[r].run} /\ forgiven' = forgiven \cup {request[r].run}
          /\ UNCHANGED rows
      BY <1>9 DEF ProviderGarbles
    <2>. QED BY <2>1, <2>2, AnswerMoves, EntryKeeps
  <1>10. CASE ProviderCompletes(r)
    <2>1. /\ ApplicationAnswers(r, "ok") /\ GoTo(r, "record") /\ stage[r] # "record"
          /\ billed' = billed \cup {request[r].run} /\ UNCHANGED <<rows, forgiven>>
      BY <1>10 DEF ProviderCompletes, At
    <2>. QED BY <2>1, AnswerMoves, EntryKeeps
  <1>11. ASSUME NEW lost \in BOOLEAN, RecordCall(r, lost) PROVE BooksMatch'
    <2>. DEFINE x == request[r].run
    <2>1. /\ stage' = [stage EXCEPT ![r] = "none"] /\ UNCHANGED <<request, billed>>
          /\ request[r].pc = "sending" /\ stage[r] = "record"
      BY <1>11 DEF RecordCall, GoTo, vars
    <2>2. x \in billed /\ x \in Runs /\ BooksMatch
      BY <2>1 DEF CallsInv, BooksMatch
    <2>3. /\ rows' \in [Runs -> {"success", "error", "timeout", None}]
          /\ forgiven' \subseteq Runs /\ forgiven \subseteq forgiven'
          /\ rows'[x] # None \/ x \in forgiven'
          /\ \A y \in Runs : y # x => rows'[y] = rows[y]
      BY <1>11, <2>2, BridgeCallsAssumption DEF RecordCall, WriteRow, BooksMatch
    <2>4. \A y \in InHand("record") : y # x => y \in InHand("record")'
      BY <2>1 DEF InHand, CallsInv, WaitersMatch
    <2>5. BilledIsRecorded'
      BY <2>1, <2>2, <2>3, <2>4 DEF BooksMatch, BilledIsRecorded
    <2>. QED BY <2>1, <2>2, <2>3, <2>5 DEF BooksMatch, Inside, CallsInv, WaitersMatch
  <1>12. CASE Finish(r)
    <2>1. /\ request' = [request EXCEPT ![r] = NoRequest] /\ stage[r] = "none"
          /\ UNCHANGED <<stage, billed, rows, forgiven>>
      BY <1>12 DEF Finish, StoreAnswer, StoreFails, handlerVars
    <2>2. \A q \in Requests : q # r => request'[q] = request[q]
      BY <2>1 DEF CallsInv, IdempotencyInv, TypeOK
    <2>3. InHand("record")' = InHand("record")
      BY <2>1, <2>2 DEF InHand
    <2>. QED BY <2>1, <2>2, <2>3 DEF CallsInv, BooksMatch, BilledIsRecorded, Inside
  <1>. QED BY <1>3, <1>4, <1>5, <1>6, <1>7, <1>8, <1>9, <1>10, <1>11, <1>12 DEF Handler

(* Every step keeps the books.                                              *)
LEMMA BooksStep ==
  ASSUME CallsInv, [CallsNext]_allVars
  PROVE  BooksMatch'
  <1>. USE DEF callVars, handlerVars, effectVars
  <1>0. BooksMatch
    BY DEF CallsInv
  <1>1. ASSUME UNCHANGED <<request, stage, billed, rows, forgiven>> PROVE BooksMatch'
    BY <1>0, <1>1 DEF BooksMatch, BilledIsRecorded, InHand, Inside
  <1>2. ASSUME NEW c \in Callers,
               \/ \E k \in Keys : Complete(c, k) \/ \E op \in Bodies : WritePage(c, op, k)
               \/ TimeOut(c)
        PROVE  BooksMatch'
    BY <1>1, <1>2 DEF Complete, WritePage, BeginCall, TimeOut, vars
  <1>3. ASSUME NEW c \in Callers, Attempt(c) PROVE BooksMatch'
    BY <1>1, <1>3, NewRunKeeps DEF Attempt, AnswerFromTable
  <1>4. CASE CrashBridge
    <2>1. PICK charged \in SUBSET InHand("provider") : billed' = billed \cup charged
      BY <1>4 DEF CrashBridge
    <2>2. InHand("provider") \subseteq Runs /\ InHand("record") \subseteq Runs
      BY <1>0 DEF InHand, BooksMatch, CallsInv, IdempotencyInv, RequestsMatchRuns
    <2>3. /\ forgiven' = forgiven \cup InHand("provider") \cup InHand("record") /\ UNCHANGED rows
          /\ stage' = [r \in Requests |-> "none"]
      BY <1>4 DEF CrashBridge
    <2>4. BilledIsRecorded'
      BY <1>0, <2>1, <2>3 DEF BooksMatch, BilledIsRecorded
    <2>. QED BY <1>0, <2>1, <2>2, <2>3, <2>4 DEF BooksMatch
  <1>5. CASE Outage \/ MoveClock \/ SecondPasses \/ DeleteNote
    BY <1>1, <1>5 DEF Outage, MoveClock, SecondPasses, DeleteNote, vars
  <1>6. CASE HalfDay
    BY <1>1, <1>6 DEF HalfDay, Tick
  <1>7. CASE UNCHANGED allVars
    BY <1>1, <1>7 DEF allVars, vars
  <1>. QED BY <1>2, <1>3, <1>4, <1>5, <1>6, <1>7, HandlerBooks DEF CallsNext

----------------------------------------------------------------------------
(* The theorems                                                             *)

LEMMA CallsStep == CallsInv /\ [CallsNext]_allVars => CallsInv'
  <1>. SUFFICES ASSUME CallsInv, [CallsNext]_allVars PROVE CallsInv'
    OBVIOUS
  <1>1. [Next]_vars /\ [LimitNext]_limitVars
    <2>1. CASE CallsNext
      BY <2>1, PartsStep DEF CallsInv
    <2>2. CASE UNCHANGED allVars
      BY <2>2 DEF allVars
    <2>. QED BY <2>1, <2>2
  <1>2. IdempotencyInv' /\ LimitInv'
    BY <1>1, IdempotencyStep, LimitStep DEF CallsInv
  <1>. QED BY <1>2, CallersStep, BooksStep DEF CallsInv

THEOREM CallsInductive == CallsSpec => []CallsInv
  BY CallsStart, CallsStep, PTL DEF CallsSpec

(* The composition uses the table and the buckets as their modules say:     *)
(* what the SDK, the middleware and the handlers do together is a behaviour *)
(* of Idempotency and one of RateLimit.                                     *)
THEOREM PartsAreUsedAsSpecified == CallsSpec => Spec /\ LimitSpec
  <1>1. CallsInit => Init /\ LimitInit
    BY DEF CallsInit
  <1>2. CallsInv /\ [CallsNext]_allVars => [Next]_vars /\ [LimitNext]_limitVars
    <2>1. CASE UNCHANGED allVars
      BY <2>1 DEF allVars
    <2>. QED BY <2>1, PartsStep DEF CallsInv
  <1>. QED BY <1>1, <1>2, CallsInductive, PTL DEF CallsSpec, Spec, LimitSpec

(* Whatever is timed out, killed or repeated, the answers out of the table  *)
(* are true ones, a key succeeds twice only with an excuse, and no bucket   *)
(* gives more than its budget.                                              *)
THEOREM CallsAreAnsweredHonestly == CallsSpec => []AnswersAreHonest
  BY PartsAreUsedAsSpecified, Honest, PTL

THEOREM CallsAreExcused == CallsSpec => []SecondRunHasExcuse
  BY PartsAreUsedAsSpecified, Excused, PTL

THEOREM CallsKeepBudget == CallsSpec => []BudgetHolds
  BY PartsAreUsedAsSpecified, Budget, PTL

(* For any number of callers and retries, one call of the SDK writes or is  *)
(* charged at most once, and the result it reports says which.              *)
THEOREM OnceOnly == CallsSpec => []CallRunsOnce
  <1>1. CallsInv => CallRunsOnce
    BY DEF CallsInv, CallsAreSound, Sound, CallRunsOnce
  <1>. QED BY <1>1, CallsInductive, PTL

(* Every completion that was charged has its row in llm_calls, is about to  *)
(* get it, or lost it in one of the ways the model names.                   *)
THEOREM Booked == CallsSpec => []BilledIsRecorded
  <1>1. CallsInv => BilledIsRecorded
    BY DEF CallsInv, BooksMatch
  <1>. QED BY <1>1, CallsInductive, PTL
=============================================================================
