--------------------------- MODULE DraftDispatch ---------------------------
(***************************************************************************)
(* The life of a draft reply, from its row in agent.db to the message that  *)
(* leaves Messages.app and back:                                            *)
(*                                                                          *)
(*   operator --PATCH--> bridge --RPUSH--> Redis list --BLPOP--> bridge     *)
(*        --200--> relay --osascript--> Messages                            *)
(*        --POST /sent--> bridge --PUBLISH, then UPDATE--> agent.db         *)
(*                                                                          *)
(* The bridge is one asyncio process: a handler runs without interruption   *)
(* from one await to the next, so every action below is one such stretch.   *)
(* The relay's outbound thread is sequential.  Processes may be killed and  *)
(* restarted; Redis keeps nothing across a restart (no persistence); the    *)
(* SQLite rows survive everything.                                          *)
(***************************************************************************)
EXTENDS Naturals, Sequences

CONSTANTS
    Drafts,        \* draft ids
    EmailDrafts,   \* the drafts whose channel is "email"
    Bodies,        \* message bodies
    EmptyBody,     \* the body "", which PATCH accepts and the relay refuses
    Mids,          \* message ids (uuid4), never reused
    Patchers,      \* slots for concurrent handlers that queue a job
    None,          \* SQL NULL / Python None
    MaxAttempts,   \* _MAX_ATTEMPTS of the relay's HTTP client
    RedisTries,    \* how often redis-py tries one command (1 + its retries)
    FaultKinds,    \* which faults may happen
    MaxFaults      \* bound on how many of them

(* "link" is the connection between the bridge and Redis, "net" the one     *)
(* between the relay and the bridge.                                        *)
Faults == {"bridge", "redis", "link", "relay", "net", "protocol", "sqlite"}

ASSUME FaultKindsAssumption == FaultKinds \subseteq Faults

Statuses == {"pending", "approved", "rejected", "sent", "send_failed"}
Terminal == {"sent", "rejected"}

(* What is pushed onto imessage:outbound:{agent}; draft is None for a job   *)
(* of POST /v1/imessage/send.                                               *)
Jobs == [mid : Mids, draft : Drafts \cup {None}, body : Bodies]

ASSUME ConstantsAssumption ==
    /\ EmailDrafts \subseteq Drafts
    /\ EmptyBody \in Bodies
    /\ None \notin Drafts \cup Bodies \cup Mids \cup Statuses \cup Jobs
    /\ MaxAttempts \in Nat \ {0}
    /\ RedisTries \in Nat \ {0}
    /\ MaxFaults \in Nat

(* A row of agent.db, the outbound thread, a POST /sent handler.            *)
Rows == [status : Statuses \cup {None}, dispatch : Mids \cup {None},
         body : Bodies \cup {None}]
Relays == [pc : {"down", "idle", "polling", "sending", "posting", "awaiting",
                 "dead"},
           job : Jobs \cup {None}, ok : BOOLEAN, attempt : 0..MaxAttempts]
Reports == [mid : Mids, ok : BOOLEAN, attempt : 1..MaxAttempts,
            pc : {"publish", "correlate"}]

VARIABLES
    rows,       \* agent.db: draft -> [status, dispatch, body]; status None = no row
    patch,      \* PATCH and POST /v1/imessage/send handlers suspended at an await
    redisUp,
    queue,      \* the Redis list imessage:outbound:{agent}
    bridgeUp,
    poll,       \* the BLPOP the relay is waiting for
    orphans,    \* BLPOPs the bridge still runs for connections that are gone
    relay,      \* the relay's outbound thread
    posts,      \* POST /v1/imessage/sent handlers suspended at an await
    issued,     \* history: the job each message id was minted for
    pushes,     \* history: how often Redis ran the RPUSH of an id
    unanswered, \* history: ids with an RPUSH whose reply never reached the bridge
    delivered,  \* history: how often Messages.app sent the job of an id
    outcomes,   \* history: imessage.sent / imessage.send.failed events published
    lost,       \* history: ids whose job or report was dropped
    faults      \* number of faults so far (bounded)

bridgeVars == <<rows, patch, posts>>
relayVars  == <<relay, poll, orphans>>
redisVars  == <<redisUp, queue>>
pushHistory == <<pushes, unanswered>>
history    == <<issued, pushHistory, delivered, outcomes, lost>>
vars == <<rows, patch, redisUp, queue, bridgeUp, poll, orphans, relay, posts,
          issued, pushes, unanswered, delivered, outcomes, lost, faults>>

NoPoll    == [pc |-> "none", job |-> None]
IdleRelay == [pc |-> "idle", job |-> None, ok |-> FALSE, attempt |-> 0]
IdlePatch == [pc |-> "idle", job |-> None]
NoRow     == [status |-> None, dispatch |-> None, body |-> None]

(* Every variable keeps its type, and every bounded counter its bound.      *)
TypeOK ==
    /\ rows \in [Drafts -> Rows]
    /\ patch \in [Patchers -> [pc : {"idle", "enqueue", "announce"},
                               job : Jobs \cup {None}]]
    /\ redisUp \in BOOLEAN /\ bridgeUp \in BOOLEAN
    /\ queue \in Seq(Jobs)
    /\ poll \in [pc : {"none", "blocked", "answered"}, job : Jobs \cup {None}]
    /\ orphans \in Nat
    /\ relay \in Relays
    /\ posts \subseteq Reports
    /\ issued \in [Mids -> Jobs \cup {None}]
    /\ pushes \in [Mids -> 0..RedisTries]
    /\ unanswered \subseteq Mids
    /\ delivered \in [Mids -> Nat]
    /\ outcomes \subseteq Mids \X BOOLEAN
    /\ lost \subseteq Mids
    /\ faults \in 0..MaxFaults

Init ==
    /\ rows = [d \in Drafts |-> NoRow]
    /\ patch = [p \in Patchers |-> IdlePatch]
    /\ redisUp = TRUE /\ bridgeUp = TRUE
    /\ queue = <<>>
    /\ poll = NoPoll
    /\ orphans = 0
    /\ relay = IdleRelay
    /\ posts = {}
    /\ issued = [m \in Mids |-> None]
    /\ pushes = [m \in Mids |-> 0]
    /\ unanswered = {}
    /\ delivered = [m \in Mids |-> 0]
    /\ outcomes = {}
    /\ lost = {}
    /\ faults = 0

(* One more fault of the given kind.                                        *)
Fault(kind) ==
    /\ kind \in FaultKinds
    /\ faults < MaxFaults
    /\ faults' = faults + 1

----------------------------------------------------------------------------
(* The draft store: POST and PATCH /v1/agent/drafts                         *)

(* A brain posts a draft: the row is inserted before anything is awaited.   *)
CreateDraft(d, b) ==
    /\ bridgeUp
    /\ rows[d].status = None
    /\ b # EmptyBody
    /\ rows' = [rows EXCEPT ![d] =
                  [status |-> "pending", dispatch |-> None, body |-> b]]
    /\ UNCHANGED <<patch, posts, relayVars, redisVars, history, bridgeUp, faults>>

(* _ALLOWED_TRANSITIONS                                                     *)
AllowedTransitions ==
    [s \in Statuses |->
        IF s \in Terminal THEN {} ELSE {"approved", "rejected"}]

(* The status a PATCH asks for: its own, or the row's when it has none.     *)
Target(d, st) == IF st = None THEN rows[d].status ELSE st

(* The checks of patch_draft that end in 409.                               *)
PatchAccepted(d, st, b) ==
    /\ rows[d].status # None
    /\ Target(d, st) # rows[d].status =>
          Target(d, st) \in AllowedTransitions[rows[d].status]
    /\ b # None => rows[d].status \notin Terminal

PatchedBody(d, b) == IF b = None THEN rows[d].body ELSE b

(* Mutant: the job carries the body read before the edit.                   *)
DispatchJob_StaleBody(d, b, m) ==
    [mid |-> m, draft |-> d, body |-> rows[d].body]

DispatchJob(d, b, m) == [mid |-> m, draft |-> d, body |-> PatchedBody(d, b)]

(* An accepted PATCH whose target is not "approved": one transaction and    *)
(* no side effect.                                                          *)
PatchRow(d, st, b) ==
    /\ bridgeUp
    /\ st # None \/ b # None
    /\ PatchAccepted(d, st, b)
    /\ Target(d, st) # "approved"
    /\ rows' = [rows EXCEPT ![d].status = Target(d, st),
                            ![d].body = PatchedBody(d, b)]
    /\ UNCHANGED <<patch, posts, relayVars, redisVars, history, bridgeUp, faults>>

(* An accepted PATCH whose target is "approved" - also when the row already *)
(* is, and also when only the body was given: the transaction stores a      *)
(* fresh dispatch id, then the handler waits for Redis.                     *)
PatchApprove(p, d, st, b, m) ==
    /\ bridgeUp
    /\ patch[p].pc = "idle"
    /\ st # None \/ b # None
    /\ PatchAccepted(d, st, b)
    /\ Target(d, st) = "approved"
    /\ issued[m] = None
    /\ rows' = [rows EXCEPT ![d] =
                  [status |-> "approved", dispatch |-> m, body |-> PatchedBody(d, b)]]
    /\ patch' = [patch EXCEPT ![p] = [pc |-> "enqueue", job |-> DispatchJob(d, b, m)]]
    /\ issued' = [issued EXCEPT ![m] = DispatchJob(d, b, m)]
    /\ UNCHANGED <<posts, relayVars, redisVars, pushHistory, delivered, outcomes,
                   lost, bridgeUp, faults>>

(* _enqueue_dispatch, and the same RPUSH of POST /v1/imessage/send: Redis   *)
(* appends the job, under the id minted by the handler.                     *)
RunPush(p) ==
    /\ patch[p].pc = "enqueue"
    /\ patch[p].job.draft \notin EmailDrafts
    /\ redisUp
    /\ pushes[patch[p].job.mid] < RedisTries
    /\ queue' = Append(queue, patch[p].job)
    /\ pushes' = [pushes EXCEPT ![patch[p].job.mid] = @ + 1]

(* The reply arrives: a PATCH goes on to its announcement, a send is        *)
(* answered 200.                                                            *)
EnqueueDispatch(p) ==
    /\ RunPush(p)
    /\ patch' = [patch EXCEPT ![p] =
          IF patch[p].job.draft = None THEN IdlePatch
          ELSE [pc |-> "announce", job |-> None]]
    /\ UNCHANGED <<rows, posts, redisUp, relayVars, issued, unanswered,
                   delivered, outcomes, lost, bridgeUp, faults>>

(* The RPUSH ran, but the connection breaks before its reply is read.       *)
(* redis-py does not know that, and has the same command sent again.        *)
EnqueueUnanswered(p) ==
    /\ Fault("link")
    /\ RunPush(p)
    /\ unanswered' = unanswered \cup {patch[p].job.mid}
    /\ UNCHANGED <<rows, patch, posts, redisUp, relayVars, issued, delivered,
                   outcomes, lost, bridgeUp>>

(* The ids whose handler has not had its job queued yet.                    *)
Unqueued ==
    {m \in Mids :
        /\ pushes[m] = 0
        /\ \E p \in Patchers : patch[p].pc = "enqueue" /\ patch[p].job.mid = m}

(* The answer is 502: the channel has no queue, Redis is unreachable, or    *)
(* the last try failed - which says nothing of the tries before it.  The    *)
(* transaction is not undone.                                               *)
EnqueueRefused(p) ==
    /\ patch[p].pc = "enqueue"
    /\ \/ /\ \/ patch[p].job.draft \in EmailDrafts
             \/ ~redisUp
             \/ pushes[patch[p].job.mid] = RedisTries
          /\ UNCHANGED faults
       \/ Fault("link")
    /\ patch' = [patch EXCEPT ![p] = IdlePatch]
    /\ lost' = lost \cup ({patch[p].job.mid} \cap Unqueued)
    /\ UNCHANGED <<rows, posts, redisVars, relayVars, issued, pushHistory,
                   delivered, outcomes, bridgeUp>>

(* _publish_approved is best effort, then the handler answers 200.          *)
AnnounceApproved(p) ==
    /\ patch[p].pc = "announce"
    /\ patch' = [patch EXCEPT ![p] = IdlePatch]
    /\ UNCHANGED <<rows, posts, redisVars, relayVars, history, bridgeUp, faults>>

(* POST /v1/imessage/send: a job that belongs to no draft.                  *)
DirectSend(p, m, b) ==
    /\ bridgeUp
    /\ patch[p].pc = "idle"
    /\ issued[m] = None
    /\ b # EmptyBody
    /\ LET job == [mid |-> m, draft |-> None, body |-> b] IN
          /\ issued' = [issued EXCEPT ![m] = job]
          /\ patch' = [patch EXCEPT ![p] = [pc |-> "enqueue", job |-> job]]
    /\ UNCHANGED <<rows, posts, redisVars, relayVars, pushHistory, delivered,
                   outcomes, lost, bridgeUp, faults>>

----------------------------------------------------------------------------
(* The outbox long poll: GET /v1/imessage/outbox                            *)

(* The relay's thread asks for a job; the bridge issues a BLPOP.            *)
RelayPoll ==
    /\ relay.pc = "idle"
    /\ bridgeUp
    /\ relay' = [relay EXCEPT !.pc = "polling"]
    /\ poll' = [pc |-> "blocked", job |-> None]
    /\ UNCHANGED <<bridgeVars, redisVars, history, orphans, bridgeUp, faults>>

(* Redis serves blocked clients in the order they blocked: a BLPOP whose    *)
(* HTTP client has gone is older than the relay's, and takes the job first. *)
ServeOrphan ==
    /\ redisUp /\ queue # <<>>
    /\ orphans > 0
    /\ orphans' = orphans - 1
    /\ lost' = lost \cup {Head(queue).mid}
    /\ queue' = Tail(queue)
    /\ UNCHANGED <<bridgeVars, redisUp, relay, poll, issued, pushHistory,
                   delivered, outcomes, bridgeUp, faults>>

ServePoll ==
    /\ redisUp /\ queue # <<>>
    /\ orphans = 0
    /\ poll.pc = "blocked"
    /\ poll' = [pc |-> "answered", job |-> Head(queue)]
    /\ queue' = Tail(queue)
    /\ UNCHANGED <<bridgeVars, redisUp, relay, orphans, history, bridgeUp, faults>>

(* Redis pops the job, but the connection to the bridge breaks before the   *)
(* reply is read: redis-py repeats the BLPOP, and nobody has the job.       *)
ServeUnanswered ==
    /\ Fault("link")
    /\ redisUp /\ queue # <<>>
    /\ orphans > 0 \/ poll.pc = "blocked"
    /\ lost' = lost \cup {Head(queue).mid}
    /\ queue' = Tail(queue)
    /\ UNCHANGED <<bridgeVars, redisUp, relayVars, issued, pushHistory, delivered,
                   outcomes, bridgeUp>>

(* BLPOP's timeout (204), or 502 because Redis is down or its connection    *)
(* keeps breaking: the thread polls again.                                  *)
PollEmpty ==
    /\ poll.pc = "blocked"
    /\ \/ (queue = <<>> \/ ~redisUp) /\ UNCHANGED faults
       \/ Fault("link")
    /\ poll' = NoPoll
    /\ relay' = [relay EXCEPT !.pc = "idle"]
    /\ UNCHANGED <<bridgeVars, redisVars, orphans, history, bridgeUp>>

OrphanEmpty ==
    /\ orphans > 0
    /\ queue = <<>> \/ ~redisUp
    /\ orphans' = orphans - 1
    /\ UNCHANGED <<bridgeVars, redisVars, relay, poll, history, bridgeUp, faults>>

RelayReceive ==
    /\ poll.pc = "answered"
    /\ relay' = [relay EXCEPT !.pc = "sending", !.job = poll.job]
    /\ poll' = NoPoll
    /\ UNCHANGED <<bridgeVars, redisVars, orphans, history, bridgeUp, faults>>

----------------------------------------------------------------------------
(* _dispatch_job: osascript, then POST /v1/imessage/sent                    *)

(* A job with an empty field is dropped without a report.                   *)
DropMalformed ==
    /\ relay.pc = "sending"
    /\ relay.job.body = EmptyBody
    /\ relay' = IdleRelay
    /\ lost' = lost \cup {relay.job.mid}
    /\ UNCHANGED <<bridgeVars, redisVars, poll, orphans, issued, pushHistory,
                   delivered, outcomes, bridgeUp, faults>>

(* osascript: Messages sends or not; the script reports success or fails.   *)
(* A script that times out may fail although the message has left.          *)
SendIMessage(sent, ok) ==
    /\ relay.pc = "sending"
    /\ relay.job.body # EmptyBody
    /\ ok => sent
    /\ relay' = [relay EXCEPT !.pc = "posting", !.ok = ok, !.attempt = 1]
    /\ delivered' = IF sent THEN [delivered EXCEPT ![relay.job.mid] = @ + 1]
                            ELSE delivered
    /\ UNCHANGED <<bridgeVars, redisVars, poll, orphans, issued, pushHistory,
                   outcomes, lost, bridgeUp, faults>>

(* The relay's HTTP client sends the report; attempt tells its requests     *)
(* apart.                                                                   *)
PostSent ==
    /\ relay.pc = "posting"
    /\ bridgeUp
    /\ relay' = [relay EXCEPT !.pc = "awaiting"]
    /\ posts' = posts \cup {[mid |-> relay.job.mid, ok |-> relay.ok,
                             attempt |-> relay.attempt, pc |-> "publish"]}
    /\ UNCHANGED <<rows, patch, redisVars, poll, orphans, history, bridgeUp, faults>>

(* Mutants: one attempt too many; after the last attempt the whole job is   *)
(* done again.                                                              *)
NextAttempt_OneMore ==
    IF relay.attempt <= MaxAttempts
    THEN [relay EXCEPT !.pc = "posting", !.attempt = @ + 1]
    ELSE IdleRelay

NextAttempt_SendAgain ==
    IF relay.attempt < MaxAttempts
    THEN [relay EXCEPT !.pc = "posting", !.attempt = @ + 1]
    ELSE [relay EXCEPT !.pc = "sending"]

(* The thread after a failed attempt: the next one, or BridgeClientError,   *)
(* which _dispatch_job logs and swallows.                                   *)
NextAttempt ==
    IF relay.attempt < MaxAttempts
    THEN [relay EXCEPT !.pc = "posting", !.attempt = @ + 1]
    ELSE IdleRelay

GaveUp == IF relay.attempt < MaxAttempts THEN {} ELSE {relay.job.mid}

(* Connection refused.                                                      *)
PostRefused ==
    /\ relay.pc = "posting"
    /\ ~bridgeUp
    /\ relay' = NextAttempt
    /\ lost' = lost \cup GaveUp
    /\ UNCHANGED <<bridgeVars, redisVars, poll, orphans, issued, pushHistory,
                   delivered, outcomes, bridgeUp, faults>>

(* The handler h answers the request the relay is waiting for.              *)
IsAwaited(h) ==
    relay.pc = "awaiting" /\ relay.job.mid = h.mid /\ relay.attempt = h.attempt

(* imessage_sent: the outcome event is published first ...                  *)
PublishOutcome(h) ==
    /\ h.pc = "publish"
    /\ redisUp
    /\ outcomes' = outcomes \cup {<<h.mid, h.ok>>}
    /\ posts' = (posts \ {h}) \cup {[h EXCEPT !.pc = "correlate"]}
    /\ UNCHANGED <<rows, patch, redisVars, relayVars, issued, pushHistory,
                   delivered, lost, bridgeUp, faults>>

(* ... and without Redis, or without its reply to the last try, the answer  *)
(* is 502 and the row is not touched, although the event may be out.        *)
PublishFails(h) ==
    /\ h.pc = "publish"
    /\ \/ ~redisUp /\ UNCHANGED <<outcomes, faults>>
       \/ Fault("link") /\ outcomes' \in {outcomes, outcomes \cup {<<h.mid, h.ok>>}}
    /\ posts' = posts \ {h}
    /\ IF IsAwaited(h)
       THEN relay' = NextAttempt /\ lost' = lost \cup GaveUp
       ELSE UNCHANGED <<relay, lost>>
    /\ UNCHANGED <<rows, patch, redisVars, poll, orphans, issued, pushHistory,
                   delivered, bridgeUp>>

(* Mutants: the row is found by draft instead of by dispatch id; only       *)
(* successes are correlated.                                                *)
Correlated_ByDraft(h) ==
    [d \in Drafts |->
        IF issued[h.mid].draft = d
        THEN [rows[d] EXCEPT !.status = IF h.ok THEN "sent" ELSE "send_failed"]
        ELSE rows[d]]

Correlated_OnlySuccess(h) ==
    [d \in Drafts |->
        IF rows[d].dispatch = h.mid /\ h.ok
        THEN [rows[d] EXCEPT !.status = "sent"]
        ELSE rows[d]]

(* correlate_send_outcome: the row that holds this dispatch id, whatever    *)
(* its status.                                                              *)
Correlated(h) ==
    [d \in Drafts |->
        IF rows[d].dispatch = h.mid
        THEN [rows[d] EXCEPT !.status = IF h.ok THEN "sent" ELSE "send_failed"]
        ELSE rows[d]]

(* The 200 ends the report.                                                 *)
Acknowledge(h) ==
    /\ posts' = posts \ {h}
    /\ relay' = IF IsAwaited(h) THEN IdleRelay ELSE relay

Correlate(h) ==
    /\ h.pc = "correlate"
    /\ rows' = Correlated(h)
    /\ Acknowledge(h)
    /\ UNCHANGED <<patch, redisVars, poll, orphans, history, bridgeUp, faults>>

(* An exception in the correlation (a locked or full agent.db) is logged    *)
(* and swallowed; the relay is told 200 all the same.                       *)
CorrelationFails(h) ==
    /\ h.pc = "correlate"
    /\ Fault("sqlite")
    /\ Acknowledge(h)
    /\ lost' = lost \cup {h.mid}
    /\ UNCHANGED <<rows, patch, redisVars, poll, orphans, issued, pushHistory,
                   delivered, outcomes, bridgeUp>>

----------------------------------------------------------------------------
(* Faults and restarts                                                      *)

(* The ids a fault of the relay or of its connection can lose.              *)
InReply == IF poll.pc = "answered" THEN {poll.job.mid} ELSE {}
InHand  == IF relay.pc \in {"sending", "posting", "awaiting"}
           THEN {relay.job.mid} ELSE {}

(* The relay's end of the long poll goes away.  The handler is not          *)
(* cancelled: a BLPOP that was blocked stays blocked.                       *)
AbandonPoll ==
    /\ poll' = NoPoll
    /\ orphans' = IF poll.pc = "blocked" THEN orphans + 1 ELSE orphans

(* Mutant: the poll is not repeated.                                        *)
AfterTransportError_Stuck ==
    IF relay.pc = "awaiting" THEN NextAttempt ELSE relay

(* The relay after a transport error its client catches: another poll, or   *)
(* another attempt to report.                                               *)
AfterTransportError ==
    CASE relay.pc = "polling"  -> IdleRelay
      [] relay.pc = "awaiting" -> NextAttempt
      [] OTHER                 -> relay

LostByTransportError ==
    InReply \cup (IF relay.pc = "awaiting" THEN GaveUp ELSE {})

(* ConnectError, ReadError or a timeout while a request is in flight.       *)
ConnectionLost ==
    /\ Fault("net")
    /\ relay.pc \in {"polling", "awaiting"}
    /\ AbandonPoll
    /\ relay' = AfterTransportError
    /\ lost' = lost \cup LostByTransportError
    /\ UNCHANGED <<bridgeVars, redisVars, issued, pushHistory,
                   delivered, outcomes, bridgeUp>>

(* Any other httpx error (RemoteProtocolError: "server disconnected") is    *)
(* not in the except clause; it ends the outbound thread, and the main      *)
(* thread goes on waiting for the stop event.                               *)
ThreadDies ==
    /\ Fault("protocol")
    /\ relay.pc \in {"polling", "awaiting"}
    /\ AbandonPoll
    /\ relay' = [IdleRelay EXCEPT !.pc = "dead"]
    /\ lost' = lost \cup InReply \cup InHand
    /\ UNCHANGED <<bridgeVars, redisVars, issued, pushHistory,
                   delivered, outcomes, bridgeUp>>

RelayCrash ==
    /\ Fault("relay")
    /\ relay.pc # "down"
    /\ AbandonPoll
    /\ relay' = [IdleRelay EXCEPT !.pc = "down"]
    /\ lost' = lost \cup InReply \cup InHand
    /\ UNCHANGED <<bridgeVars, redisVars, issued, pushHistory,
                   delivered, outcomes, bridgeUp>>

RelayStart ==
    /\ relay.pc = "down"
    /\ relay' = IdleRelay
    /\ UNCHANGED <<bridgeVars, redisVars, poll, orphans, history, bridgeUp, faults>>

(* Every suspended handler is gone; the rows and the Redis list are not.    *)
(* The relay's request in flight ends with ReadError; when the kernel of    *)
(* the bridge's host closes the socket in order it is the error of          *)
(* ThreadDies, which then precedes this step.                               *)
BridgeCrash ==
    /\ Fault("bridge")
    /\ bridgeUp
    /\ bridgeUp' = FALSE
    /\ patch' = [p \in Patchers |-> IdlePatch]
    /\ posts' = {}
    /\ poll' = NoPoll
    /\ orphans' = 0
    /\ relay' = AfterTransportError
    /\ lost' = lost \cup LostByTransportError \cup Unqueued
    /\ UNCHANGED <<rows, redisVars, issued, pushHistory, delivered, outcomes>>

BridgeStart ==
    /\ ~bridgeUp
    /\ bridgeUp' = TRUE
    /\ UNCHANGED <<bridgeVars, redisVars, relayVars, history, faults>>

(* redis-server runs without persistence.                                   *)
RedisCrash ==
    /\ Fault("redis")
    /\ redisUp
    /\ redisUp' = FALSE
    /\ queue' = <<>>
    /\ lost' = lost \cup {queue[i].mid : i \in 1..Len(queue)}
    /\ UNCHANGED <<bridgeVars, relayVars, issued, pushHistory,
                   delivered, outcomes, bridgeUp>>

RedisStart ==
    /\ ~redisUp
    /\ redisUp' = TRUE
    /\ UNCHANGED <<bridgeVars, queue, relayVars, history, bridgeUp, faults>>

----------------------------------------------------------------------------
(* What people and brains do, what the processes do, what goes wrong.       *)
Request ==
    \/ \E d \in Drafts, b \in Bodies : CreateDraft(d, b)
    \/ \E d \in Drafts, st \in Statuses \cup {None}, b \in Bodies \cup {None} :
          \/ PatchRow(d, st, b)
          \/ \E p \in Patchers, m \in Mids : PatchApprove(p, d, st, b, m)
    \/ \E p \in Patchers, m \in Mids, b \in Bodies : DirectSend(p, m, b)

Handler ==
    \/ \E p \in Patchers :
          EnqueueDispatch(p) \/ EnqueueRefused(p) \/ AnnounceApproved(p)
    \/ \E h \in posts : PublishOutcome(h) \/ PublishFails(h) \/ Correlate(h)

Outbound ==
    \/ ServeOrphan \/ ServePoll \/ PollEmpty \/ OrphanEmpty
    \/ RelayPoll \/ RelayReceive \/ DropMalformed
    \/ \E sent, ok \in BOOLEAN : SendIMessage(sent, ok)
    \/ PostSent \/ PostRefused

Failure ==
    \/ ConnectionLost \/ ThreadDies \/ RelayCrash \/ BridgeCrash \/ RedisCrash
    \/ ServeUnanswered
    \/ \E p \in Patchers : EnqueueUnanswered(p)
    \/ \E h \in posts : CorrelationFails(h)

Restart == RelayStart \/ BridgeStart \/ RedisStart

Next == Request \/ Handler \/ Outbound \/ Failure \/ Restart

Spec == Init /\ [][Next]_vars

(* The event loop resumes every suspended handler, the relay's thread keeps *)
(* running, and launchd and the supervisor start what has died.             *)
Fairness ==
    /\ \A p \in Patchers :
          WF_vars(EnqueueDispatch(p) \/ EnqueueRefused(p) \/ AnnounceApproved(p))
    /\ WF_vars(\E h \in posts : PublishOutcome(h) \/ PublishFails(h) \/ Correlate(h))
    /\ WF_vars(ServeOrphan \/ ServePoll)
    /\ WF_vars(RelayPoll) /\ WF_vars(RelayReceive)
    /\ WF_vars(DropMalformed \/ \E sent, ok \in BOOLEAN : SendIMessage(sent, ok))
    /\ WF_vars(PostSent \/ PostRefused)
    /\ WF_vars(RelayStart) /\ WF_vars(BridgeStart) /\ WF_vars(RedisStart)

FairSpec == Spec /\ Fairness

----------------------------------------------------------------------------
(* Properties                                                               *)

(* Redis ran the RPUSH of an id at most once, so that there is one job.     *)
Single(m) == pushes[m] <= 1

(* However often PATCH, POST /sent and the long poll are repeated, and      *)
(* whatever crashes, Messages is handed one message for every job Redis was *)
(* given, and that is one for a message id: BLPOP removes the job and       *)
(* nothing puts it back.  The exception is redis-py, which repeats an RPUSH *)
(* whose reply it did not get.                                              *)
AtMostOncePerDispatch ==
    \A m \in Mids :
        /\ delivered[m] <= pushes[m]
        /\ m \notin unanswered => Single(m)

(* A row says "sent" only if Messages really sent a job of this very draft, *)
(* under the dispatch id the row holds, and the success event of that id    *)
(* was published before: a late report of a superseded dispatch, or of      *)
(* another draft, never settles the row.                                    *)
SentMeansDelivered ==
    \A d \in Drafts :
        rows[d].status = "sent" =>
            LET m == rows[d].dispatch IN
            /\ m \in Mids
            /\ issued[m] # None /\ issued[m].draft = d
            /\ delivered[m] > 0
            /\ <<m, TRUE>> \in outcomes

(* The bus never carries both a sent and a failed event for one message id, *)
(* although reports are retried and several may be in flight; unless its    *)
(* job was queued twice.                                                    *)
OutcomesAgree ==
    \A m \in Mids :
        Single(m) => ~(<<m, TRUE>> \in outcomes /\ <<m, FALSE>> \in outcomes)

(* A draft nobody ever approved has no job, anywhere, and is never sent:    *)
(* the approval gate cannot be passed by any mix of edits and rejections.   *)
ApprovalGate ==
    \A d \in Drafts :
        rows[d].dispatch = None =>
            /\ \A m \in Mids : issued[m] # None => issued[m].draft # d
            /\ rows[d].status \in {None, "pending", "rejected"}

(* While a row is approved, the body it shows is the body of the job its    *)
(* dispatch id names, however edits and approvals interleave.               *)
ApprovedBodyIsDispatched ==
    \A d \in Drafts :
        rows[d].status = "approved" => issued[rows[d].dispatch].body = rows[d].body

(* Where the job or the report of id m still is.                            *)
InFlight(m) ==
    \/ m \in Unqueued
    \/ \E i \in 1..Len(queue) : queue[i].mid = m
    \/ m \in InReply \cup InHand
    \/ \E h \in posts : h.mid = m

(* Nothing vanishes unnoticed: an approved row has its job or its report in *)
(* flight, or a named loss (a crash, a Redis outage, an e-mail channel, an  *)
(* orphaned long poll, a malformed job, a report given up) took it.         *)
ApprovedIsAccountedFor ==
    \A d \in Drafts :
        rows[d].status = "approved" =>
            InFlight(rows[d].dispatch) \/ rows[d].dispatch \in lost

(* Once sent, a row never changes again: no PATCH, no repeated or late      *)
(* report touches it, as long as the id was queued once.                    *)
SentIsFinal ==
    [][\A d \in Drafts :
          rows[d].status = "sent" /\ Single(rows[d].dispatch) =>
              rows'[d] = rows[d]]_vars

(* Only an approved row, or one rejected after approval, becomes sent, and  *)
(* an approved one that does shows exactly the body that was delivered.     *)
SentFromApproved ==
    [][\A d \in Drafts :
          rows'[d].status = "sent" /\ rows[d].status # "sent" =>
              /\ Single(rows[d].dispatch) =>
                    rows[d].status \in {"approved", "rejected"}
              /\ rows[d].status = "approved" =>
                    issued[rows[d].dispatch].body = rows'[d].body]_vars

(* Under fairness every approved row is settled, superseded or rejected, or *)
(* its dispatch is among the named losses: it does not wait forever, unless *)
(* the outbound thread of the relay has died, which nobody notices.         *)
ApprovedSettles ==
    \A d \in Drafts, m \in Mids :
        (rows[d].status = "approved" /\ rows[d].dispatch = m)
            ~> \/ rows[d].status # "approved" \/ rows[d].dispatch # m
               \/ m \in lost
               \/ relay.pc = "dead"

(* Stated by the module docstring of routes/agent.py ("a second approve     *)
(* against an already-approved row returns the current state without        *)
(* re-publishing"); the code allocates a new dispatch id and queues again.  *)
ReapprovalIsQuiet ==
    [][\A d \in Drafts :
          rows[d].status = "approved" /\ rows'[d].status = "approved" =>
              rows'[d].dispatch = rows[d].dispatch]_vars

(* The promise of DraftLifecycle, for the rows, the dispatches of drafts    *)
(* (direct sends are not its business) and what Messages sent for them.     *)
StatusOf  == [d \in Drafts |-> rows[d].status]
CurrentOf == [d \in Drafts |-> rows[d].dispatch]
Granted   == [m \in Mids |-> IF issued[m] = None THEN None ELSE issued[m].draft]
CopiesOf  == [m \in Mids |-> IF Granted[m] = None \/ Single(m) THEN 1 ELSE pushes[m]]
SentFor   == [m \in Mids |-> IF Granted[m] = None THEN 0 ELSE delivered[m]]

Lifecycle ==
    INSTANCE DraftLifecycle WITH
        status <- StatusOf, current <- CurrentOf, grants <- Granted,
        copies <- CopiesOf, sends <- SentFor

(* Queue, long poll, osascript, retries and crashes together keep it.       *)
ImplementsLifecycle == Lifecycle!Spec
=============================================================================
