------------------------------- MODULE Inbound -------------------------------
(***************************************************************************)
(* The way of an incoming iMessage, from chat.db to a pending draft:        *)
(*                                                                          *)
(*   chat.db --poll--> relay --POST /inbound--> bridge --PUBLISH--> Redis   *)
(*        --pub/sub--> bridge --WebSocket--> brain --POST /drafts--> bridge *)
(*                                                                          *)
(* The relay's inbound thread is sequential and keeps a cursor in a state   *)
(* file; the bridge is one asyncio process; the brain handles one envelope  *)
(* after the other.  Pub/sub keeps nothing for a subscriber that is away.   *)
(* A row is named by its ROWID, an event by its number (in the code a fresh *)
(* uuid4 per publish).                                                      *)
(***************************************************************************)
EXTENDS Naturals, Sequences, SequencesExt

CONSTANTS
    NoFile,        \* the state file does not exist
    MaxRows,       \* bound: rows chat.db may ever hold
    MaxAttempts,   \* _MAX_ATTEMPTS of the relay's HTTP client
    FaultKinds,    \* which faults may happen
    MaxFaults      \* bound on how many of them

(* "link" is the connection of the bridge to Redis, "state" a call on the   *)
(* brain's state.db that raises (locked for too long, disk full).           *)
Faults == {"unreadable", "disk", "relay", "bridge", "redis", "brain", "net",
           "protocol", "link", "state"}

ASSUME InboundAssumption ==
    /\ NoFile \notin Nat
    /\ MaxRows \in Nat
    /\ MaxAttempts \in Nat \ {0}
    /\ FaultKinds \subseteq Faults
    /\ MaxFaults \in Nat

(* A row the relay's query returns has a text, possibly "".  It leaves out  *)
(* our own and those whose text is NULL, which Messages may still fill in:  *)
(* "late" is a text that came when the relay had gone past its row.         *)
Kinds == {"text", "empty", "other", "blank", "late"}
Unread == {"other", "blank"}

VARIABLES
    chat,      \* the rows of chat.db, by ROWID
    cursor,    \* the relay's state file
    relay,     \* the inbound thread: the rows of its batch, the attempt it is at
    posts,     \* POST /v1/imessage/inbound handlers suspended at an await
    bridgeUp, redisUp,
    events,    \* history: the row each published event carries
    sub,       \* the subscription of the brain's WebSocket
    wire,      \* events on their way to the brain
    brain,     \* the brain: what it does and with which event
    processed, \* processed_events in the brain's state.db
    drafts,    \* history: how many drafts answer each event
    backlog,   \* history: the ROWID the relay started at
    givenUp,   \* history: rows whose POST failed for good
    missed,    \* history: events that were lost on their way to the brain
    unmarked,  \* history: events the brain let go of without a mark
    faults     \* number of faults so far (bounded)

relayVars  == <<cursor, relay, backlog, givenUp>>
streamVars == <<sub, wire, missed>>
brainVars  == <<brain, processed, unmarked, drafts>>
vars == <<chat, cursor, relay, posts, bridgeUp, redisUp, events, sub, wire, brain,
          processed, drafts, backlog, givenUp, missed, unmarked, faults>>

Idle == [pc |-> "idle", batch |-> {}, attempt |-> 0, since |-> 0]
Waiting == [pc |-> "waiting", event |-> 0]

(* Every variable keeps its type, and every bounded counter its bound.      *)
TypeOK ==
    /\ chat \in Seq(Kinds) /\ Len(chat) <= MaxRows
    /\ cursor \in 0..Len(chat) \cup {NoFile}
    /\ relay \in [pc : {"down", "idle", "posting", "awaiting"},
                  batch : SUBSET (1..Len(chat)), attempt : 0..MaxAttempts,
                  since : 0..MaxFaults]
    /\ posts \subseteq [row : 1..Len(chat), since : 0..MaxFaults,
                        pc : {"publish", "answer"}, event : 0..Len(events)]
    /\ bridgeUp \in BOOLEAN /\ redisUp \in BOOLEAN
    /\ events \in Seq(1..Len(chat))
    /\ sub \in {"none", "accepted", "subscribed", "resuming", "closed"}
    /\ wire \in Seq(1..Len(events))
    /\ brain \in [pc : {"down", "waiting", "thinking", "creating", "marking",
                        "failing"},
                  event : 0..Len(events)]
    /\ processed \subseteq 1..Len(events)
    /\ drafts \in Seq(Nat) /\ Len(drafts) = Len(events)
    /\ backlog \in 0..Len(chat)
    /\ givenUp \subseteq 1..Len(chat)
    /\ missed \subseteq 1..Len(events) /\ unmarked \subseteq 1..Len(events)
    /\ faults \in 0..MaxFaults

Init ==
    /\ chat = <<>>
    /\ cursor = NoFile
    /\ relay = [Idle EXCEPT !.pc = "down"]
    /\ posts = {}
    /\ bridgeUp = TRUE /\ redisUp = TRUE
    /\ events = <<>>
    /\ sub = "none" /\ wire = <<>>
    /\ brain = Waiting
    /\ processed = {}
    /\ drafts = <<>>
    /\ backlog = 0
    /\ givenUp = {} /\ missed = {} /\ unmarked = {}
    /\ faults = 0

Fault(kind) ==
    /\ kind \in FaultKinds
    /\ faults < MaxFaults
    /\ faults' = faults + 1

----------------------------------------------------------------------------
(* chat.db and the cursor                                                   *)

MessageArrives(kind) ==
    /\ Len(chat) < MaxRows
    /\ chat' = Append(chat, kind)
    /\ UNCHANGED <<relayVars, posts, bridgeUp, redisUp, events, streamVars,
                   brainVars, faults>>

(* read_last_seen: no file reads as 0, the beginning of chat.db.            *)
LastSeen == IF cursor = NoFile THEN 0 ELSE cursor

(* The relay has read this far, the batch in its hands included.            *)
Passed(r) == r <= LastSeen \/ \E b \in relay.batch : r <= b

(* Messages fills in the text of a row.                                     *)
TextArrives(r) ==
    /\ chat[r] = "blank"
    /\ chat' = [chat EXCEPT ![r] = IF Passed(r) THEN "late" ELSE "text"]
    /\ UNCHANGED <<relayVars, posts, bridgeUp, redisUp, events, streamVars,
                   brainVars, faults>>

(* main: without a state file the relay starts at the tail of chat.db.      *)
RelayStart ==
    /\ relay.pc = "down"
    /\ relay' = Idle
    /\ IF cursor = NoFile
       THEN cursor' = Len(chat) /\ backlog' = Len(chat)
       ELSE UNCHANGED <<cursor, backlog>>
    /\ UNCHANGED <<chat, posts, bridgeUp, redisUp, events, streamVars, brainVars,
                   givenUp, faults>>

(* bootstrap_to_tail cannot open chat.db: it writes no file, and the        *)
(* threads are started all the same.                                        *)
RelayStartUnreadable ==
    /\ Fault("unreadable")
    /\ relay.pc = "down" /\ cursor = NoFile
    /\ relay' = Idle
    /\ UNCHANGED <<chat, cursor, posts, bridgeUp, redisUp, events, streamVars,
                   brainVars, backlog, givenUp>>

Posting(batch) == [pc |-> "posting", batch |-> batch, attempt |-> 1, since |-> 0]

(* ORDER BY ROWID: the row in hand is the lowest.                           *)
Row == Min(relay.batch)
Rest == relay.batch \ {Row}

NewRows == {r \in 1..Len(chat) : r > LastSeen /\ chat[r] \notin Unread}

(* poll_new fetches every new row at once.                                  *)
Poll ==
    /\ relay.pc = "idle"
    /\ NewRows # {}
    /\ relay' = Posting(NewRows)
    /\ UNCHANGED <<chat, cursor, posts, bridgeUp, redisUp, events, streamVars,
                   brainVars, backlog, givenUp, faults>>

(* Mutants: the cursor is never written; it is written before the batch is  *)
(* forwarded.                                                               *)
Advance_Unwritten ==
    /\ relay' = IF Rest = {} THEN Idle ELSE Posting(Rest)
    /\ UNCHANGED cursor

Advance_Eager ==
    /\ relay' = IF Rest = {} THEN Idle ELSE Posting(Rest)
    /\ cursor' = Max(relay.batch)

(* On to the next row of the batch; after the last one poll_new writes the  *)
(* cursor.                                                                  *)
Advance ==
    IF Rest = {}
    THEN relay' = Idle /\ cursor' = Row
    ELSE relay' = Posting(Rest) /\ UNCHANGED cursor

(* Mutant: one attempt too many.                                            *)
NextAttempt_OneMore ==
    IF relay.attempt <= MaxAttempts
    THEN /\ relay' = [Posting(relay.batch) EXCEPT !.attempt = relay.attempt + 1]
         /\ UNCHANGED <<cursor, givenUp>>
    ELSE /\ Advance
         /\ givenUp' = givenUp \cup {Row}

(* A failed attempt: another one, or BridgeClientError, which               *)
(* _forward_inbound swallows: the row is passed over.                       *)
NextAttempt ==
    IF relay.attempt < MaxAttempts
    THEN /\ relay' = [Posting(relay.batch) EXCEPT !.attempt = relay.attempt + 1]
         /\ UNCHANGED <<cursor, givenUp>>
    ELSE /\ Advance
         /\ givenUp' = givenUp \cup {Row}

----------------------------------------------------------------------------
(* POST /v1/imessage/inbound                                                *)

(* A row is posted again after a fault only, or when its handler is gone:   *)
(* row and number of faults tell the handlers apart.                        *)
PostInbound ==
    /\ relay.pc = "posting"
    /\ bridgeUp
    /\ chat[Row] # "empty"
    /\ relay' = [relay EXCEPT !.pc = "awaiting", !.since = faults]
    /\ posts' = posts \cup
                 {[row |-> Row, since |-> faults, pc |-> "publish", event |-> 0]}
    /\ UNCHANGED <<chat, cursor, bridgeUp, redisUp, events, streamVars, brainVars,
                   backlog, givenUp, faults>>

(* An empty body is answered 422, and a 4xx is not retried.                 *)
PostMalformed ==
    /\ relay.pc = "posting"
    /\ bridgeUp
    /\ chat[Row] = "empty"
    /\ Advance
    /\ givenUp' = givenUp \cup {Row}
    /\ UNCHANGED <<chat, posts, bridgeUp, redisUp, events, streamVars, brainVars,
                   backlog, faults>>

PostRefused ==
    /\ relay.pc = "posting"
    /\ ~bridgeUp
    /\ NextAttempt
    /\ UNCHANGED <<chat, posts, bridgeUp, redisUp, events, streamVars, brainVars,
                   backlog, faults>>

(* The handler h answers the request the relay is waiting for.              *)
IsAwaited(h) ==
    /\ relay.pc = "awaiting"
    /\ Row = h.row /\ relay.since = h.since

(* The publisher mints an event; only a subscriber that is there gets it.   *)
Mint(h) ==
    /\ events' = Append(events, h.row)
    /\ drafts' = Append(drafts, 0)
    /\ IF sub = "subscribed"
       THEN wire' = Append(wire, Len(events) + 1) /\ UNCHANGED missed
       ELSE missed' = missed \cup {Len(events) + 1} /\ UNCHANGED wire

(* redis-py repeats a command by itself when the connection breaks: the     *)
(* same event once more.                                                    *)
Repeat(h) ==
    /\ IF sub = "subscribed"
       THEN wire' = Append(wire, h.event) /\ missed' = missed \ {h.event}
       ELSE UNCHANGED <<wire, missed>>
    /\ UNCHANGED <<events, drafts>>

Publish(h) == IF h.event = 0 THEN Mint(h) ELSE Repeat(h)

PublishInbound(h) ==
    /\ h.pc = "publish"
    /\ redisUp
    /\ Publish(h)
    /\ posts' = (posts \ {h}) \cup {[h EXCEPT !.pc = "answer"]}
    /\ UNCHANGED <<chat, relayVars, bridgeUp, redisUp, sub, brain, processed,
                   unmarked, faults>>

(* The PUBLISH is carried out, its reply never comes.                       *)
PublishUnanswered(h) ==
    /\ Fault("link")
    /\ h.pc = "publish"
    /\ redisUp
    /\ Publish(h)
    /\ posts' = (posts \ {h}) \cup {[h EXCEPT !.event = IF h.event = 0 THEN Len(events') ELSE h.event]}
    /\ UNCHANGED <<chat, relayVars, bridgeUp, redisUp, sub, brain, processed,
                   unmarked>>

(* Redis is down, or the connection breaks once too often: 502.             *)
PublishFails(h) ==
    /\ h.pc = "publish"
    /\ IF redisUp THEN Fault("link") ELSE UNCHANGED faults
    /\ posts' = posts \ {h}
    /\ IF IsAwaited(h) THEN NextAttempt ELSE UNCHANGED <<cursor, relay, givenUp>>
    /\ UNCHANGED <<chat, bridgeUp, redisUp, events, streamVars, brainVars, backlog>>

AnswerInbound(h) ==
    /\ h.pc = "answer"
    /\ posts' = posts \ {h}
    /\ IF IsAwaited(h) THEN Advance ELSE UNCHANGED <<cursor, relay>>
    /\ UNCHANGED <<chat, bridgeUp, redisUp, events, streamVars, brainVars, backlog,
                   givenUp, faults>>

----------------------------------------------------------------------------
(* GET /v1/events/subscribe                                                 *)

(* The bridge accepts the socket, and only then subscribes at Redis: what   *)
(* is published in between is missed although the brain is connected.       *)
BrainConnect ==
    /\ brain.pc = "waiting"
    /\ sub = "none" /\ bridgeUp
    /\ sub' = "accepted"
    /\ UNCHANGED <<chat, relayVars, posts, bridgeUp, redisUp, events, wire, missed,
                   brainVars, faults>>

(* psubscribe; redis-py does it again by itself after Redis has restarted.  *)
Subscribe ==
    /\ sub \in {"accepted", "resuming"}
    /\ redisUp
    /\ sub' = "subscribed"
    /\ UNCHANGED <<chat, relayVars, posts, bridgeUp, redisUp, events, wire, missed,
                   brainVars, faults>>

SubscribeFails ==
    /\ sub = "accepted"
    /\ ~redisUp
    /\ sub' = "none"
    /\ UNCHANGED <<chat, relayVars, posts, bridgeUp, redisUp, events, wire, missed,
                   brainVars, faults>>

(* The socket breaks: frames that already arrived can still be read.        *)
Hangup ==
    IF sub \in {"none", "closed"}
    THEN UNCHANGED streamVars
    ELSE \E n \in 0..Len(wire) :
            /\ sub' = "closed"
            /\ wire' = SubSeq(wire, 1, n)
            /\ missed' = missed \cup {wire[i] : i \in (n + 1)..Len(wire)}

NoticeHangup ==
    /\ brain.pc = "waiting"
    /\ sub = "closed" /\ wire = <<>>
    /\ sub' = "none"
    /\ UNCHANGED <<chat, relayVars, posts, bridgeUp, redisUp, events, wire, missed,
                   brainVars, faults>>

----------------------------------------------------------------------------
(* The brain: handlers/imessage_received.py                                 *)

Work(pc) == [brain EXCEPT !.pc = pc]

(* Mutant: the table of processed events is not asked.                      *)
Seen_Never(event) == FALSE

Seen(event) == event \in processed

ReceiveEvent ==
    /\ brain.pc = "waiting"
    /\ wire # <<>>
    /\ brain' = IF Seen(Head(wire))
                THEN brain ELSE [pc |-> "thinking", event |-> Head(wire)]
    /\ wire' = Tail(wire)
    /\ UNCHANGED <<chat, relayVars, posts, bridgeUp, redisUp, events, sub, missed,
                   processed, unmarked, drafts, faults>>

(* is_processed raises outside of the handler's try: _dispatch logs it and  *)
(* the loop goes on with the next event.                                    *)
LookupFails ==
    /\ Fault("state")
    /\ brain.pc = "waiting"
    /\ wire # <<>>
    /\ unmarked' = unmarked \cup ({Head(wire)} \ processed)
    /\ wire' = Tail(wire)
    /\ UNCHANGED <<chat, relayVars, posts, bridgeUp, redisUp, events, sub, missed,
                   brain, processed, drafts>>

(* Triage and drafting by the LLM: a reply, none, or an exception.          *)
Decide(next) ==
    /\ brain.pc = "thinking"
    /\ brain' = Work(next)
    /\ UNCHANGED <<chat, relayVars, posts, bridgeUp, redisUp, events, streamVars,
                   processed, unmarked, drafts, faults>>

(* Mutant: a failure ends the brain.                                        *)
AfterCreate_Dies(answered) == IF answered THEN "marking" ELSE "down"

(* An error of the request goes to the handler's except.                    *)
AfterCreate(answered) == IF answered THEN "marking" ELSE "failing"

(* The row is inserted; the answer may be lost with the connection.         *)
CreateDraft(answered) ==
    /\ brain.pc = "creating"
    /\ bridgeUp
    /\ IF answered THEN UNCHANGED faults ELSE Fault("net")
    /\ drafts' = [drafts EXCEPT ![brain.event] = @ + 1]
    /\ brain' = Work(AfterCreate(answered))
    /\ UNCHANGED <<chat, relayVars, posts, bridgeUp, redisUp, events, streamVars,
                   processed, unmarked>>

CreateFails ==
    /\ brain.pc = "creating"
    /\ ~bridgeUp
    /\ brain' = Work(AfterCreate(FALSE))
    /\ UNCHANGED <<chat, relayVars, posts, bridgeUp, redisUp, events, streamVars,
                   processed, unmarked, drafts, faults>>

(* Mutant: only events that got a draft are marked.                         *)
Marked_Answered == IF drafts[brain.event] > 0 THEN {brain.event} ELSE {}

Marked == {brain.event}

(* mark_processed, in the try or, the poison-pill defence, in its except;   *)
(* then task.completed (best effort).                                       *)
MarkProcessed ==
    /\ brain.pc \in {"marking", "failing"}
    /\ processed' = processed \cup Marked
    /\ brain' = Waiting
    /\ UNCHANGED <<chat, relayVars, posts, bridgeUp, redisUp, events, streamVars,
                   unmarked, drafts, faults>>

(* It raises: in the try the except marks again, in the except the error is *)
(* logged and the event let go.                                             *)
MarkFails ==
    /\ Fault("state")
    /\ \/ /\ brain.pc = "marking"
          /\ brain' = Work("failing")
          /\ UNCHANGED unmarked
       \/ /\ brain.pc = "failing"
          /\ brain' = Waiting
          /\ unmarked' = unmarked \cup {brain.event}
    /\ UNCHANGED <<chat, relayVars, posts, bridgeUp, redisUp, events, streamVars,
                   processed, drafts>>

----------------------------------------------------------------------------
(* Faults and restarts                                                      *)

(* Mutant: the error ends the inbound thread, as it does the outbound one.  *)
AfterException_Dies == [relay EXCEPT !.pc = "awaiting"]

(* run_inbound_loop catches every exception; the generator is closed before *)
(* it could write the cursor, so the whole batch is fetched again.          *)
AfterException == Idle

(* ConnectError, ReadError, a timeout: retried by the client.               *)
ConnectionLost ==
    /\ Fault("net")
    /\ relay.pc = "awaiting"
    /\ NextAttempt
    /\ UNCHANGED <<chat, posts, bridgeUp, redisUp, events, streamVars, brainVars,
                   backlog>>

(* Any other httpx error (RemoteProtocolError) escapes _forward_inbound.    *)
ProtocolError ==
    /\ Fault("protocol")
    /\ relay.pc = "awaiting"
    /\ relay' = AfterException
    /\ UNCHANGED <<chat, cursor, posts, bridgeUp, redisUp, events, streamVars,
                   brainVars, backlog, givenUp>>

(* The last answer arrives, but the state file cannot be written.           *)
WriteFails(h) ==
    /\ Fault("disk")
    /\ h.pc = "answer" /\ IsAwaited(h)
    /\ Rest = {}
    /\ posts' = posts \ {h}
    /\ relay' = AfterException
    /\ UNCHANGED <<chat, cursor, bridgeUp, redisUp, events, streamVars, brainVars,
                   backlog, givenUp>>

RelayCrash ==
    /\ Fault("relay")
    /\ relay.pc # "down"
    /\ relay' = [Idle EXCEPT !.pc = "down"]
    /\ UNCHANGED <<chat, cursor, posts, bridgeUp, redisUp, events, streamVars,
                   brainVars, backlog, givenUp>>

SocketLost ==
    /\ Fault("net")
    /\ sub \notin {"none", "closed"}
    /\ Hangup
    /\ UNCHANGED <<chat, relayVars, posts, bridgeUp, redisUp, events, brainVars>>

(* The request in flight ends with an error its client retries, or with one *)
(* it does not know ("server disconnected").                                *)
BridgeCrash ==
    /\ Fault("bridge")
    /\ bridgeUp
    /\ bridgeUp' = FALSE
    /\ posts' = {}
    /\ Hangup
    /\ IF relay.pc = "awaiting"
       THEN \/ NextAttempt
            \/ relay' = AfterException /\ UNCHANGED <<cursor, givenUp>>
       ELSE UNCHANGED <<cursor, relay, givenUp>>
    /\ UNCHANGED <<chat, redisUp, events, brainVars, backlog>>

BridgeStart ==
    /\ ~bridgeUp
    /\ bridgeUp' = TRUE
    /\ UNCHANGED <<chat, relayVars, posts, redisUp, events, streamVars, brainVars, faults>>

(* Every subscription is gone; the sockets stay open.                       *)
RedisCrash ==
    /\ Fault("redis")
    /\ redisUp
    /\ redisUp' = FALSE
    /\ sub' = IF sub = "subscribed" THEN "resuming" ELSE sub
    /\ UNCHANGED <<chat, relayVars, posts, bridgeUp, events, wire, missed, brainVars>>

RedisStart ==
    /\ ~redisUp
    /\ redisUp' = TRUE
    /\ UNCHANGED <<chat, relayVars, posts, bridgeUp, events, streamVars, brainVars, faults>>

(* The event in hand and the unread ones go with the brain; nobody has      *)
(* marked the one, nobody keeps the others.                                 *)
BrainCrash ==
    /\ Fault("brain")
    /\ brain.pc # "down"
    /\ brain' = [Waiting EXCEPT !.pc = "down"]
    /\ sub' = "none" /\ wire' = <<>>
    /\ missed' = missed \cup ToSet(wire)
    /\ unmarked' = IF brain.pc = "waiting" THEN unmarked
                   ELSE unmarked \cup {brain.event}
    /\ UNCHANGED <<chat, relayVars, posts, bridgeUp, redisUp, events, processed, drafts>>

BrainStart ==
    /\ brain.pc = "down"
    /\ brain' = Waiting
    /\ UNCHANGED <<chat, relayVars, posts, bridgeUp, redisUp, events, streamVars,
                   processed, unmarked, drafts, faults>>

----------------------------------------------------------------------------
Relay == Poll \/ PostInbound \/ PostMalformed \/ PostRefused

Handler(h) == PublishInbound(h) \/ PublishFails(h) \/ AnswerInbound(h)

HandlerFaults(h) == PublishUnanswered(h) \/ WriteFails(h)

Stream == BrainConnect \/ Subscribe \/ SubscribeFails \/ NoticeHangup

Think == \E next \in {"creating", "marking", "failing"} : Decide(next)

Brain == ReceiveEvent \/ Think \/ CreateDraft(TRUE) \/ CreateFails \/ MarkProcessed

Failure ==
    \/ RelayStartUnreadable \/ ConnectionLost \/ ProtocolError
    \/ RelayCrash \/ SocketLost \/ BridgeCrash \/ RedisCrash \/ BrainCrash
    \/ CreateDraft(FALSE) \/ LookupFails \/ MarkFails
    \/ \E h \in posts : HandlerFaults(h)

Restart == RelayStart \/ BridgeStart \/ RedisStart \/ BrainStart

Next ==
    \/ \E kind \in Kinds \ {"late"} : MessageArrives(kind)
    \/ \E r \in 1..Len(chat) : TextArrives(r)
    \/ Relay \/ Stream \/ Brain \/ Failure \/ Restart
    \/ \E h \in posts : Handler(h)

Spec == Init /\ [][Next]_vars

(* The relay polls for ever, the event loops resume their handlers, launchd *)
(* and the supervisor restart what has died.  Nothing makes a message       *)
(* arrive.                                                                  *)
Fairness ==
    /\ WF_vars(Relay) /\ WF_vars(\E h \in posts : Handler(h))
    /\ WF_vars(Stream) /\ WF_vars(Brain)
    /\ WF_vars(RelayStart) /\ WF_vars(BridgeStart)
    /\ WF_vars(RedisStart) /\ WF_vars(BrainStart)

FairSpec == Spec /\ Fairness

----------------------------------------------------------------------------
(* Properties                                                               *)

Copies(r) == {e \in 1..Len(events) : events[e] = r}

(* The cursor never passes a message in silence: a row with a text at or    *)
(* below it was published, was given up after the last attempt, is older    *)
(* than the relay, or got its text late - whatever crashes between poll,    *)
(* POST and write.                                                          *)
NothingSkipped ==
    \A r \in 1..Len(chat) :
        chat[r] = "text" /\ backlog < r /\ r <= LastSeen =>
            Copies(r) # {} \/ r \in givenUp

(* A message is published again only because of a fault, and at most once   *)
(* more for each: neither the retries nor the re-yielded batches multiply.  *)
DuplicatesAreBounded ==
    \A r \in 1..Len(chat) : Cardinality(Copies(r)) <= 1 + faults

(* No event vanishes unnoticed: it is on its way, in the brain's hands,     *)
(* processed, lost with a connection, a subscription or the brain, or let   *)
(* go without a mark because state.db failed.                               *)
EventsAreAccountedFor ==
    \A e \in 1..Len(events) :
        \/ e \in ToSet(wire) \cup processed \cup missed \cup unmarked
        \/ brain.pc \notin {"down", "waiting"} /\ brain.event = e

(* However requests fail, and although an event may reach the brain more    *)
(* than once, it yields at most one draft - unless the brain once let go of *)
(* it without a mark.                                                       *)
OneDraftPerEvent == \A e \in 1..Len(drafts) : drafts[e] <= 1 \/ e \in unmarked

(* Every message that arrives while the relay is installed is published, or *)
(* is given up by name, unless its text came late: no error leaves the      *)
(* inbound thread stuck.  (Both sides are stable, and messages are finite.) *)
MessageReachesBus ==
    []<>(\A r \in 1..Len(chat) :
            r > backlog /\ chat[r] = "text" /\ cursor # NoFile =>
                Copies(r) # {} \/ r \in givenUp)

(* Every event is processed, missed or let go unmarked in the end: the      *)
(* brain never sits on one, also when the stream breaks and comes back.     *)
EventSettles == []<>(1..Len(events) \subseteq processed \cup missed \cup unmarked)
=============================================================================
