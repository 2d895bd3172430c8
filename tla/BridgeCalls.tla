----------------------------- MODULE BridgeCalls -----------------------------
(***************************************************************************)
(* Calls of the SDK, from BridgeClient to the effect and back.  A call is   *)
(* POST /v1/vault/write or POST /v1/llm/complete.  Its transport stamps a   *)
(* key, repeats the request while the answer is 429 and sleeps in between;  *)
(* in the bridge each attempt goes through the table of answers             *)
(* (Idempotency), the token bucket of its scope (RateLimit) and the         *)
(* handler, which writes a note and announces it, or asks the provider and  *)
(* records what it cost.  The body of a request is its operation.           *)
(***************************************************************************)
EXTENDS Idempotency, RateLimit

CONSTANTS
    Callers,      \* tasks of a brain; each has one call at a time
    MaxRetries,   \* _MAX_429_RETRIES
    RetryCap,     \* _RETRY_AFTER_CAP_S
    MaxCalls,     \* bound: calls begun
    MaxUpsets     \* bound: timeouts, outages, moved clocks, lost rows

ASSUME BridgeCallsAssumption ==
    /\ Bodies \subseteq {"create", "append", "replace", "complete"}
    /\ Scopes = {"vault", "llm"}
    /\ None \notin Callers \cup {"success", "error", "timeout"}
    /\ MaxRetries \in Nat /\ RetryCap \in Nat /\ MaxCalls \in Nat /\ MaxUpsets \in Nat

VARIABLES
    call,       \* the transport: caller -> the call it is in
    stage,      \* request slot -> where its handler is suspended
    waiter,     \* request slot -> the caller that waits for its answer
    note,       \* the file: the runs whose content it holds, or None
    announced,  \* runs whose vault.changed was published
    billed,     \* runs the provider completed, and charged for
    rows,       \* llm_calls: run -> status, or None
    forgiven,   \* history: runs whose row is missing for a known reason
    begun,
    upsets

callVars == <<call, begun>>
handlerVars == <<stage, waiter>>
effectVars == <<note, announced, billed, rows, forgiven>>
allVars == <<vars, limitVars, callVars, handlerVars, effectVars, upsets>>

Idle(effects, result) ==
    [pc |-> "idle", op |-> None, key |-> None, attempt |-> 0, left |-> 0,
     effects |-> effects, result |-> result]

NoCall == Idle(0, "none")

CallsInit ==
    /\ Init /\ LimitInit
    /\ call = [c \in Callers |-> NoCall]
    /\ stage = [r \in Requests |-> "none"] /\ waiter = [r \in Requests |-> None]
    /\ note = None /\ announced = {} /\ billed = {}
    /\ rows = [x \in Runs |-> None] /\ forgiven = {}
    /\ begun = 0 /\ upsets = 0

Results == {"none", "ok", "replayed", "failed", "limited", "lost"}

ScopeOf(op) == IF op = "complete" THEN "llm" ELSE "vault"

----------------------------------------------------------------------------
(* The client                                                               *)

Active == {c \in Callers : call[c].pc # "idle"}

(* The transport stamps a key: a new one, or the one idempotency_key() has  *)
(* pinned; a caller may so repeat an earlier call.                          *)
Ready(op, k, attempt, left, effects) ==
    [pc |-> "ready", op |-> op, key |-> k, attempt |-> attempt, left |-> left,
     effects |-> effects, result |-> "none"]

Stamped(op, k) == Ready(op, k, 0, 0, 0)

BeginCall(c, op, k) ==
    /\ call[c].pc = "idle"
    /\ begun < MaxCalls
    /\ begun' = begun + 1
    /\ call' = [call EXCEPT ![c] = Stamped(op, k)]
    /\ UNCHANGED <<vars, limitVars, handlerVars, effectVars, upsets>>

(* obsidian.write_page and append_to_inbox                                  *)
WritePage(c, op, k) == op # "complete" /\ BeginCall(c, op, k)

(* llm.complete and its five shortcuts                                      *)
Complete(c, k) == "complete" \in Bodies /\ BeginCall(c, "complete", k)

(* Mutant: answers of a failed dependency are retried as well.              *)
Retried_Errors(status) == status \in {429, 502}

Retried(status) == status = 429

(* The generated endpoint parses a 200 (for the LLM) or leaves the answer   *)
(* as it is; write_page takes 200 and 201, complete only what was parsed.   *)
VaultOutcome(status) == IF status \in {200, 201} THEN "ok" ELSE "failed"

LLMOutcome(status) == IF status = 200 THEN "ok" ELSE "failed"

Outcome(op, status) == IF op = "complete" THEN LLMOutcome(status) ELSE VaultOutcome(status)

Ended(q, result) == Idle(q.effects, result)

(* Retry-After if there is one, otherwise half a second, doubled each time. *)
SleepFor(attempt, wait) == IF wait > 0 THEN wait ELSE CeilDiv(2 ^ attempt, 2)

(* What the transport makes of an answer: sleep and repeat, or end the      *)
(* call - with the answer, or with BridgeClientError once the attempts are  *)
(* used up or the wait exceeds the cap.                                     *)
Answered(q, status, wait) ==
    IF ~Retried(status) THEN Ended(q, Outcome(q.op, status))
    ELSE IF q.attempt = MaxRetries \/ SleepFor(q.attempt, wait) > RetryCap
    THEN Ended(q, "limited")
    ELSE Ready(q.op, q.key, q.attempt + 1, SleepFor(q.attempt, wait), q.effects)

(* The answer of request r reaches the caller that still waits for it.      *)
Deliver(r, status, wait) ==
    /\ call' = [c \in Callers |-> IF c = waiter[r] THEN Answered(call[c], status, wait)
                                  ELSE call[c]]
    /\ waiter' = [waiter EXCEPT ![r] = None]

(* The name of a failed run is given to another one.                        *)
ForgetRun(x) ==
    /\ billed' = billed \ {x} /\ forgiven' = forgiven \ {x}
    /\ rows' = [rows EXCEPT ![x] = None]
    /\ UNCHANGED <<note, announced>>

(* One attempt: the middleware answers from the table or calls the          *)
(* application, whose first stop is the bucket.                             *)
Attempt(c) ==
    LET q == call[c] IN
    /\ q.pc = "ready" /\ q.left = 0
    /\ \/ /\ AnswerFromTable(q.key, q.op)
          /\ call' = [call EXCEPT ![c] =
                Ended(q, IF answer'.kind = "replay" THEN "replayed" ELSE "failed")]
          /\ UNCHANGED <<handlerVars, effectVars>>
       \/ \E r \in Requests, x \in Runs :
             /\ CallApplication(r, q.key, q.op, x)
             /\ call' = [call EXCEPT ![c].pc = "waiting"]
             /\ stage' = [stage EXCEPT ![r] = "limit"]
             /\ waiter' = [waiter EXCEPT ![r] = c]
             /\ ForgetRun(x)
    /\ UNCHANGED <<limitVars, begun, upsets>>

(* httpx.ReadTimeout: the call fails; the handler knows nothing of it.      *)
TimeOut(c) ==
    /\ call[c].pc = "waiting"
    /\ upsets < MaxUpsets
    /\ upsets' = upsets + 1
    /\ call' = [call EXCEPT ![c] = Ended(call[c], "lost")]
    /\ waiter' = [r \in Requests |-> IF waiter[r] = c THEN None ELSE waiter[r]]
    /\ UNCHANGED <<vars, limitVars, stage, effectVars, begun>>

----------------------------------------------------------------------------
(* The handlers                                                             *)

At(r, s) == request[r].pc = "running" /\ stage[r] = s

GoTo(r, s) == stage' = [stage EXCEPT ![r] = s]

(* The classes of errors.py and the answers they become.                    *)
StatusOf == [conflict |-> 409, not_found |-> 404, rate_limited |-> 429,
             dependency_unavailable |-> 502, internal_error |-> 500]

(* The handler raises a BridgeError; its exception handler answers.         *)
Raise(r, code, wait) ==
    /\ ApplicationAnswers(r, "failed")
    /\ GoTo(r, "none")
    /\ Deliver(r, StatusOf[code], wait)

(* Anything else it raises becomes the 500 of RequestIDMiddleware.          *)
Unhandled(r) == ApplicationAnswers(r, "failed") /\ GoTo(r, "none")

(* The run's effect is the effect of the call that waits for it.            *)
CountEffect(q, c, r) == IF c = waiter[r] THEN [q EXCEPT !.effects = @ + 1] ELSE q

(* require_rate: 429 with Retry-After, or on to the handler.                *)
CheckRate(r) ==
    LET s == ScopeOf(request[r].body)
        bucket == Bucket(s) IN
    /\ At(r, "limit")
    /\ Check(s)
    /\ \/ /\ Allowed(bucket)
          /\ GoTo(r, "handler")
          /\ UNCHANGED <<vars, call, waiter>>
       \/ /\ ~Allowed(bucket)
          /\ Raise(r, "rate_limited", RetryAfter(AfterCheck(bucket)))
    /\ UNCHANGED <<effectVars, begun, upsets>>

(* VaultProvider.write of one note; nothing is awaited in it.  create wants *)
(* no file, replace wants one, append takes either.                         *)
WriteRefused(op) == (op = "create" /\ note # None) \/ (op = "replace" /\ note = None)

Written(op, x) == IF op = "append" /\ note # None THEN note \cup {x} ELSE {x}

WriteVault(r) ==
    LET op == request[r].body IN
    /\ At(r, "handler") /\ op # "complete"
    /\ \/ /\ WriteRefused(op)
          /\ Raise(r, IF op = "create" THEN "conflict" ELSE "not_found", 0)
          /\ UNCHANGED note
       \/ /\ ~WriteRefused(op)
          /\ note' = Written(op, request[r].run)
          /\ GoTo(r, "publish")
          /\ call' = [c \in Callers |-> CountEffect(call[c], c, r)]
          /\ UNCHANGED <<vars, waiter>>
    /\ UNCHANGED <<limitVars, announced, billed, rows, forgiven, begun, upsets>>

(* vault.changed is best effort: an error of Redis is logged, no more.      *)
PublishChange(r) ==
    /\ At(r, "publish")
    /\ announced' = IF redisUp THEN announced \cup {request[r].run} ELSE announced
    /\ ApplicationAnswers(r, "ok")
    /\ GoTo(r, "none")
    /\ Deliver(r, IF request[r].body = "create" THEN 201 ELSE 200, 0)
    /\ UNCHANGED <<limitVars, note, billed, rows, forgiven, begun, upsets>>

(* write_llm_call: an error of the database is logged, no more.             *)
WriteRow(x, status, lost) ==
    /\ lost => upsets < MaxUpsets
    /\ upsets' = IF lost THEN upsets + 1 ELSE upsets
    /\ rows' = IF lost THEN rows ELSE [rows EXCEPT ![x] = status]
    /\ forgiven' = IF lost THEN forgiven \cup {x} ELSE forgiven

(* LLMRouter and OpenRouterProvider.complete: a hint for a local provider,  *)
(* or no key in the Keychain, is refused before anything is sent.           *)
AskProvider(r) ==
    /\ At(r, "handler") /\ request[r].body = "complete"
    /\ GoTo(r, "provider")
    /\ UNCHANGED <<vars, limitVars, waiter, callVars, effectVars, upsets>>

RefuseToAsk(r, lost) ==
    /\ At(r, "handler") /\ request[r].body = "complete"
    /\ WriteRow(request[r].run, "error", lost)
    /\ Raise(r, "dependency_unavailable", 0)
    /\ UNCHANGED <<limitVars, note, announced, billed, begun>>

(* Mutant: a timeout writes no row.                                         *)
FailureRow_NotTimeouts(kind) == IF kind = "timeout" THEN None ELSE "error"

(* A failure of the provider is recorded before the error is raised.        *)
FailureRow(kind) == IF kind = "timeout" THEN "timeout" ELSE "error"

(* The provider fails us: a status of 400 or more, a transport error, or no *)
(* answer in time - when it may have completed and charged all the same.    *)
ProviderFails(r, kind, charged, lost) ==
    LET x == request[r].run IN
    /\ At(r, "provider")
    /\ charged => kind = "timeout"
    /\ WriteRow(x, FailureRow(kind), lost)
    /\ billed' = IF charged THEN billed \cup {x} ELSE billed
    /\ ApplicationAnswers(r, "failed")
    /\ GoTo(r, "none")
    /\ call' = [c \in Callers |->
          IF c = waiter[r] THEN Answered(IF charged THEN CountEffect(call[c], c, r) ELSE call[c], 502, 0)
          ELSE call[c]]
    /\ waiter' = [waiter EXCEPT ![r] = None]
    /\ UNCHANGED <<limitVars, note, announced, begun>>

(* A 200 that is not the JSON expected raises something that is no          *)
(* BridgeError: 500 of RequestIDMiddleware, and no row.                     *)
ProviderGarbles(r) ==
    LET x == request[r].run IN
    /\ At(r, "provider")
    /\ upsets < MaxUpsets
    /\ upsets' = upsets + 1
    /\ billed' = billed \cup {x} /\ forgiven' = forgiven \cup {x}
    /\ Unhandled(r)
    /\ call' = [c \in Callers |->
          IF c = waiter[r] THEN Answered(CountEffect(call[c], c, r), 500, 0) ELSE call[c]]
    /\ waiter' = [waiter EXCEPT ![r] = None]
    /\ UNCHANGED <<limitVars, note, announced, rows, begun>>

(* The provider completes; the row is a background task of the answer.      *)
ProviderCompletes(r) ==
    LET x == request[r].run IN
    /\ At(r, "provider")
    /\ billed' = billed \cup {x}
    /\ ApplicationAnswers(r, "ok")
    /\ GoTo(r, "record")
    /\ call' = [c \in Callers |->
          IF c = waiter[r] THEN Answered(CountEffect(call[c], c, r), 200, 0) ELSE call[c]]
    /\ waiter' = [waiter EXCEPT ![r] = None]
    /\ UNCHANGED <<limitVars, note, announced, rows, forgiven, begun, upsets>>

(* The background task.                                                     *)
RecordCall(r, lost) ==
    /\ request[r].pc = "sending" /\ stage[r] = "record"
    /\ WriteRow(request[r].run, "success", lost)
    /\ GoTo(r, "none")
    /\ UNCHANGED <<vars, limitVars, waiter, callVars, note, announced, billed>>

(* The application has returned: the middleware stores the answer, or       *)
(* fails to.                                                                *)
Finish(r) ==
    /\ stage[r] = "none"
    /\ StoreAnswer(r) \/ StoreFails(r)
    /\ UNCHANGED <<limitVars, callVars, handlerVars, effectVars, upsets>>

----------------------------------------------------------------------------
(* The bridge, Redis and time                                               *)

InHand(s) == {request[r].run : r \in {r \in Requests : stage[r] = s}}

(* The bridge is killed and started again.  Callers that wait get a         *)
(* transport error.  A completion that was asked for may have been charged. *)
CrashBridge ==
    /\ BridgeRestart
    /\ ForgetMemory
    /\ stage' = [r \in Requests |-> "none"]
    /\ waiter' = [r \in Requests |-> None]
    /\ call' = [c \in Callers |-> IF call[c].pc = "waiting" THEN Ended(call[c], "lost")
                                  ELSE call[c]]
    /\ \E charged \in SUBSET InHand("provider") : billed' = billed \cup charged
    /\ forgiven' = forgiven \cup InHand("provider") \cup InHand("record")
    /\ UNCHANGED <<note, announced, rows, begun, upsets>>

Outage ==
    /\ \/ RedisStops /\ upsets < MaxUpsets /\ upsets' = upsets + 1
       \/ RedisStarts /\ UNCHANGED upsets
    /\ UNCHANGED <<vars, callVars, handlerVars, effectVars>>

MoveClock ==
    /\ upsets < MaxUpsets
    /\ upsets' = upsets + 1
    /\ \E seconds \in -MaxJump..MaxJump : seconds # 0 /\ ClockJumps(seconds)
    /\ UNCHANGED <<vars, callVars, handlerVars, effectVars>>

SecondPasses ==
    /\ Second
    /\ call' = [c \in Callers |-> IF call[c].left > 0
                                  THEN [call[c] EXCEPT !.left = @ - 1] ELSE call[c]]
    /\ UNCHANGED <<vars, begun, handlerVars, effectVars, upsets>>

(* Half a day passes while no call is under way.                            *)
HalfDay ==
    /\ Active = {} /\ \A r \in Requests : request[r].pc = "idle"
    /\ Tick
    /\ UNCHANGED <<limitVars, callVars, handlerVars, effectVars, upsets>>

(* Somebody deletes the note in Obsidian.                                   *)
DeleteNote ==
    /\ note # None
    /\ note' = None
    /\ UNCHANGED <<vars, limitVars, callVars, handlerVars, announced, billed, rows,
                   forgiven, upsets>>

Handler(r) ==
    \/ CheckRate(r)
    \/ WriteVault(r) \/ PublishChange(r)
    \/ AskProvider(r) \/ ProviderGarbles(r) \/ ProviderCompletes(r)
    \/ \E lost \in BOOLEAN :
          \/ RefuseToAsk(r, lost) \/ RecordCall(r, lost)
          \/ \E kind \in {"timeout", "error"}, charged \in BOOLEAN :
                ProviderFails(r, kind, charged, lost)
    \/ Finish(r)

CallsNext ==
    \/ \E c \in Callers :
          \/ \E k \in Keys : Complete(c, k) \/ \E op \in Bodies : WritePage(c, op, k)
          \/ Attempt(c) \/ TimeOut(c)
    \/ \E r \in Requests : Handler(r)
    \/ CrashBridge \/ Outage \/ MoveClock \/ SecondPasses \/ HalfDay \/ DeleteNote

CallsSpec == CallsInit /\ [][CallsNext]_allVars

----------------------------------------------------------------------------
(* Properties                                                               *)

(* Every variable keeps its type, and every bounded counter its bound.      *)
CallsTypeOK ==
    /\ TypeOK /\ LimitTypeOK
    /\ call \in [Callers -> [pc : {"idle", "ready", "waiting"}, op : Bodies \cup {None},
                             key : Keys \cup {None}, attempt : 0..MaxRetries,
                             left : 0..RetryCap, effects : Nat, result : Results]]
    /\ stage \in [Requests -> {"none", "limit", "handler", "publish", "provider", "record"}]
    /\ waiter \in [Requests -> Callers \cup {None}]
    /\ note \in SUBSET Runs \cup {None}
    /\ announced \subseteq Runs /\ billed \subseteq Runs /\ forgiven \subseteq Runs
    /\ rows \in [Runs -> {"success", "error", "timeout", None}]
    /\ begun \in 0..MaxCalls /\ upsets \in 0..MaxUpsets

(* However often the transport repeats a request, one call writes the note  *)
(* at most once and pays for at most one completion: what is repeated is    *)
(* what the bucket turned away, and the bucket stands before the handler.   *)
(* A call that reports success had its effect now, or was answered from the *)
(* table; one that was turned away to the end had none.                     *)
CallRunsOnce ==
    \A c \in Callers :
        /\ call[c].effects <= 1
        /\ call[c].result = "ok" => call[c].effects = 1
        /\ call[c].result \in {"limited", "replayed"} => call[c].effects = 0

(* Every completion that is paid for has its row in llm_calls once its      *)
(* request is over, and a row of a success is of a completion - except for  *)
(* a kill, a failed write and an answer that cannot be parsed.              *)
BilledIsRecorded ==
    /\ \A x \in billed : \/ rows[x] # None \/ x \in forgiven
                         \/ x \in InHand("record")
    /\ \A x \in Runs : rows[x] = "success" => x \in billed
=============================================================================
