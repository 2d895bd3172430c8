----------------------------- MODULE Idempotency -----------------------------
(***************************************************************************)
(* IdempotencyMiddleware: POST requests that carry an Idempotency-Key, the  *)
(* table of cached answers, and the application behind it.  The middleware  *)
(* looks a key up when the request arrives and stores the answer when it    *)
(* has been sent; in between other requests run, the bridge may be killed,  *)
(* and time passes.  Requests without a key are passed through and have no  *)
(* part here.                                                               *)
(***************************************************************************)
EXTENDS Naturals, FiniteSets

CONSTANTS
    Keys,       \* Idempotency-Keys
    Bodies,     \* request bodies, up to their sha256
    Requests,   \* slots for concurrent requests
    Runs,       \* bound: executions of the application; a failed one is used again
    None,
    TTL,        \* TTL_SECONDS
    MaxFaults   \* bound: failed stores and crashes

ASSUME IdempotencyAssumption ==
    /\ TTL \in Nat \ {0}
    /\ MaxFaults \in Nat
    /\ IsFiniteSet(Runs)
    /\ None \notin Runs \cup Keys \cup Bodies
    /\ None \notin [body : Bodies, run : Runs, age : Nat]
    /\ None \notin [key : Keys, body : Bodies, outcome : {"started", "ok", "failed"}]

VARIABLES
    store,    \* the table: key -> [body, run, age], or None
    request,  \* the requests inside the middleware
    ran,      \* history: run -> what the application did in it
    answer,   \* history: the last answer that came out of the table
    lapsed,   \* history: key -> how often its entry was out of date
    excuses,  \* history: key -> overlaps and answers lost
    faults

vars == <<store, request, ran, answer, lapsed, excuses, faults>>

Entries == [body : Bodies, run : Runs, age : 0..(TTL + 1)]
NoRequest == [pc |-> "idle", key |-> None, body |-> None, run |-> None]

(* Every variable keeps its type, and every bounded counter its bound.      *)
TypeOK ==
    /\ store \in [Keys -> Entries \cup {None}]
    /\ request \in [Requests -> [pc : {"idle", "running", "sending"},
                                 key : Keys \cup {None}, body : Bodies \cup {None},
                                 run : Runs \cup {None}]]
    /\ ran \in [Runs -> [key : Keys, body : Bodies,
                         outcome : {"started", "ok", "failed"}] \cup {None}]
    /\ answer \in [key : Keys, body : Bodies, run : Runs, age : 0..(TTL + 1),
                   kind : {"replay", "conflict"}] \cup {None}
    /\ lapsed \in [Keys -> Nat] /\ excuses \in [Keys -> Nat]
    /\ faults \in 0..MaxFaults

Init ==
    /\ store = [k \in Keys |-> None]
    /\ request = [r \in Requests |-> NoRequest]
    /\ ran = [x \in Runs |-> None]
    /\ answer = None
    /\ lapsed = [k \in Keys |-> 0] /\ excuses = [k \in Keys |-> 0]
    /\ faults = 0

----------------------------------------------------------------------------
(* The table                                                                *)

(* Mutant: an entry expires at once.                                        *)
Expired_AtOnce(k) == store[k] # None /\ store[k].age > 0

(* _prune_expired: created_at < now - TTL                                   *)
Expired(k) == store[k] # None /\ store[k].age > TTL

Pruned == [k \in Keys |-> IF Expired(k) THEN None ELSE store[k]]

(* Mutant: the body is not compared.                                        *)
SameBody_Any(entry, b) == TRUE

SameBody(entry, b) == entry.body = b

Count(counter, ks) == [k \in Keys |-> counter[k] + (IF k \in ks THEN 1 ELSE 0)]

(* The entries whose time to live is over by the clock.                     *)
OutOfDate == {k \in Keys : store[k] # None /\ store[k].age > TTL}

----------------------------------------------------------------------------
(* __call__: nothing is awaited from the lookup to the call of the          *)
(* application or to the cached answer.                                     *)

(* _lookup, after _prune_expired.                                           *)
Lookup(k) == Pruned[k]

Answer(k, b, entry, kind) ==
    [key |-> k, body |-> b, run |-> entry.run, age |-> entry.age, kind |-> kind]

(* The stored status, headers and body once more.                           *)
SendCached(k, b, entry) == SameBody(entry, b) /\ answer' = Answer(k, b, entry, "replay")

(* 409 idempotency_replay.                                                  *)
SendConflict(k, b, entry) == ~SameBody(entry, b) /\ answer' = Answer(k, b, entry, "conflict")

AnswerFromTable(k, b) ==
    /\ Lookup(k) # None
    /\ store' = Pruned
    /\ lapsed' = Count(lapsed, OutOfDate)
    /\ SendCached(k, b, Lookup(k)) \/ SendConflict(k, b, Lookup(k))
    /\ UNCHANGED <<request, ran, excuses, faults>>

(* A run that failed and is over leaves nothing in the table.               *)
Unused(x) ==
    ran[x] # None => ran[x].outcome = "failed" /\ (\A r \in Requests : request[r].run # x)

(* Another request with this key is inside the middleware.                  *)
Overlapping(k) == \E r \in Requests : request[r].key = k

(* The body has been read to its end; the application reads it again.       *)
Buffered(k, b, x) == [pc |-> "running", key |-> k, body |-> b, run |-> x]

CallApplication(r, k, b, x) ==
    /\ request[r].pc = "idle"
    /\ Lookup(k) = None
    /\ Unused(x)
    /\ store' = Pruned
    /\ request' = [request EXCEPT ![r] = Buffered(k, b, x)]
    /\ ran' = [ran EXCEPT ![x] = [key |-> k, body |-> b, outcome |-> "started"]]
    /\ lapsed' = Count(lapsed, OutOfDate)
    /\ excuses' = Count(excuses, IF Overlapping(k) THEN {k} ELSE {})
    /\ UNCHANGED <<answer, faults>>

(* The application answers; the messages pass through to the client.        *)
ApplicationAnswers(r, outcome) ==
    /\ request[r].pc = "running"
    /\ ran' = [ran EXCEPT ![request[r].run].outcome = outcome]
    /\ request' = [request EXCEPT ![r].pc = "sending"]
    /\ UNCHANGED <<store, answer, lapsed, excuses, faults>>

Cacheable(x) == ran[x].outcome = "ok"

(* The answer has been sent; only a 2xx is stored (INSERT OR REPLACE).      *)
StoreAnswer(r) ==
    LET q == request[r] IN
    /\ q.pc = "sending"
    /\ store' = IF Cacheable(q.run)
                THEN [store EXCEPT ![q.key] = [body |-> q.body, run |-> q.run, age |-> 0]]
                ELSE store
    /\ request' = [request EXCEPT ![r] = NoRequest]
    /\ UNCHANGED <<ran, answer, lapsed, excuses, faults>>

(* sqlite3.Error is logged; the client keeps its answer.                    *)
StoreFails(r) ==
    /\ request[r].pc = "sending"
    /\ Cacheable(request[r].run)
    /\ faults < MaxFaults
    /\ faults' = faults + 1
    /\ excuses' = Count(excuses, {request[r].key})
    /\ request' = [request EXCEPT ![r] = NoRequest]
    /\ UNCHANGED <<store, ran, answer, lapsed>>

(* The bridge is killed and restarted: what ran, ran; the table is on disk. *)
BridgeRestart ==
    /\ faults < MaxFaults
    /\ faults' = faults + 1
    /\ excuses' = Count(excuses, {request[r].key : r \in Requests})
    /\ request' = [r \in Requests |-> NoRequest]
    /\ UNCHANGED <<store, ran, answer, lapsed>>

(* Time passes.  An entry that is out of date stays so, its age capped.     *)
Tick ==
    /\ store' = [k \in Keys |-> IF store[k] # None /\ store[k].age <= TTL
                                THEN [store[k] EXCEPT !.age = @ + 1] ELSE store[k]]
    /\ UNCHANGED <<request, ran, answer, lapsed, excuses, faults>>

Next ==
    \/ \E k \in Keys, b \in Bodies :
          \/ AnswerFromTable(k, b)
          \/ \E r \in Requests, x \in Runs : CallApplication(r, k, b, x)
    \/ \E r \in Requests :
          \/ \E outcome \in {"ok", "failed"} : ApplicationAnswers(r, outcome)
          \/ StoreAnswer(r) \/ StoreFails(r)
    \/ BridgeRestart \/ Tick

Spec == Init /\ [][Next]_vars

----------------------------------------------------------------------------
(* Properties                                                               *)

(* What a replay returns is the 2xx answer of a run of this very key with   *)
(* this very body, and a 409 means the key really succeeded with another    *)
(* body - whichever of several overlapping runs stored its answer last, and *)
(* with no answer older than the time to live.                              *)
AnswersAreHonest ==
    answer # None =>
        LET run == ran[answer.run] IN
        /\ run.key = answer.key /\ run.outcome = "ok"
        /\ (answer.kind = "replay") <=> (run.body = answer.body)
        /\ answer.age <= TTL

Succeeded(k) == {x \in Runs : ran[x] # None /\ ran[x].key = k /\ ran[x].outcome = "ok"}

(* A key succeeds a second time only for a reason: its requests overlapped, *)
(* an answer could not be stored or was lost with the bridge, or the time   *)
(* to live was over - one further run for each at most.                     *)
SecondRunHasExcuse ==
    \A k \in Keys : Cardinality(Succeeded(k)) <= 1 + excuses[k] + lapsed[k]
=============================================================================
