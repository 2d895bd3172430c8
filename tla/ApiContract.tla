----------------------------- MODULE ApiContract -----------------------------
(***************************************************************************)
(* The two sides of the HTTP interface, which are kept in separate places:  *)
(* the routes of the bridge, and the client that was generated from its     *)
(* OpenAPI document some time ago and is not edited by hand.  A call is     *)
(* built by the client, passes the stages of the bridge (table of answered  *)
(* keys, route, token, scope, rate limit, values, handler, table again) and *)
(* is read by the client, which turns the answers it knows into models and  *)
(* all others into None.                                                    *)
(***************************************************************************)
EXTENDS Naturals, FiniteSets

CONSTANTS None

(***************************************************************************)
(* The generated client: one function per operation.  "ids" are the parts   *)
(* of the path an argument fills in, "needs" the query parameters without a *)
(* default, "may" those that are left out when not given, "body" whether a  *)
(* JSON body goes along, "known" the status whose body becomes a result.    *)
(***************************************************************************)
Generated(method, path, ids, needs, may, body, known) ==
    [method |-> method, path |-> path, ids |-> ids, needs |-> needs, may |-> may,
     body |-> body, known |-> known]

ClientCreateDraft == Generated("POST", "/v1/agent/drafts", {}, {}, {}, TRUE, {201})
ClientGetDraft == Generated("GET", "/v1/agent/drafts/_", {"draft_id"}, {}, {}, FALSE, {200})
ClientListDrafts ==
    Generated("GET", "/v1/agent/drafts", {}, {}, {"agent", "status", "limit"}, FALSE, {200})
ClientPatchDraft == Generated("PATCH", "/v1/agent/drafts/_", {"draft_id"}, {}, {}, TRUE, {200})

ClientWhoami == Generated("GET", "/v1/auth/whoami", {}, {}, {}, FALSE, {200})
ClientHealth == Generated("GET", "/v1/health", {}, {}, {}, FALSE, {200})

(* Mutant: the client was not generated anew when the route began to answer *)
(* 201.                                                                     *)
ClientCreateEventStale == Generated("POST", "/v1/calendar/events", {}, {}, {}, TRUE, {200})

ClientCreateEvent == Generated("POST", "/v1/calendar/events", {}, {}, {}, TRUE, {201})
ClientDeleteEvent ==
    Generated("DELETE", "/v1/calendar/events/_", {"event_id"}, {}, {}, FALSE, {200})

(* Mutant: the end of the period has a default in the client only.          *)
ClientListEventsOpen ==
    Generated("GET", "/v1/calendar/events", {}, {"from"}, {"to", "calendar"}, FALSE, {200})

ClientListEvents ==
    Generated("GET", "/v1/calendar/events", {}, {"from", "to"}, {"calendar"}, FALSE, {200})
ClientUpdateEvent ==
    Generated("PATCH", "/v1/calendar/events/_", {"event_id"}, {}, {}, TRUE, {200})

ClientSearchContacts ==
    Generated("GET", "/v1/contacts/search", {}, {"q"}, {"limit"}, FALSE, {200})

ClientGetThread == Generated("GET", "/v1/email/threads/_", {"thread_id"}, {}, {}, FALSE, {200})
ClientListThreads ==
    Generated("GET", "/v1/email/threads", {}, {"account"}, {"query", "limit", "before"},
              FALSE, {200})
ClientSendEmail == Generated("POST", "/v1/email/send", {}, {}, {}, TRUE, {202})

ClientPublish == Generated("POST", "/v1/events/publish", {}, {}, {}, TRUE, {202})

ClientInbound == Generated("POST", "/v1/imessage/inbound", {}, {}, {}, TRUE, {200})
ClientOutbox ==
    Generated("GET", "/v1/imessage/outbox", {}, {"agent"}, {"timeout_s"}, FALSE, {200})
ClientSend == Generated("POST", "/v1/imessage/send", {}, {}, {}, TRUE, {202})
ClientSent == Generated("POST", "/v1/imessage/sent", {}, {}, {}, TRUE, {200})

ClientComplete == Generated("POST", "/v1/llm/complete", {}, {}, {}, TRUE, {200})

ClientCreateReminder == Generated("POST", "/v1/reminders", {}, {}, {}, TRUE, {201})
ClientDeleteReminder ==
    Generated("DELETE", "/v1/reminders/_", {"reminder_id"}, {}, {}, FALSE, {200})
ClientListReminders ==
    Generated("GET", "/v1/reminders", {}, {}, {"list", "completed"}, FALSE, {200})
ClientUpdateReminder ==
    Generated("PATCH", "/v1/reminders/_", {"reminder_id"}, {}, {}, TRUE, {200})

ClientReadVault == Generated("GET", "/v1/vault/read", {}, {"path"}, {}, FALSE, {200})
ClientWriteVault == Generated("POST", "/v1/vault/write", {}, {}, {}, TRUE, {200})

Client ==
    {ClientCreateDraft, ClientGetDraft, ClientListDrafts, ClientPatchDraft,
     ClientWhoami, ClientHealth,
     ClientCreateEvent, ClientDeleteEvent, ClientListEvents, ClientUpdateEvent,
     ClientSearchContacts, ClientGetThread, ClientListThreads, ClientSendEmail,
     ClientPublish, ClientInbound, ClientOutbox, ClientSend, ClientSent, ClientComplete,
     ClientCreateReminder, ClientDeleteReminder, ClientListReminders, ClientUpdateReminder,
     ClientReadVault, ClientWriteVault}

(***************************************************************************)
(* The routes of the bridge: the scope of each (None: any token is enough;  *)
(* "open": none is asked for), whether it is rate limited, the parameters   *)
(* it needs and knows, its success answers, and what its handler may raise. *)
(***************************************************************************)
Route(method, path, scope, rated, needs, may, body, success, raises) ==
    [method |-> method, path |-> path, scope |-> scope, rated |-> rated, needs |-> needs,
     may |-> may, body |-> body, success |-> success, raises |-> raises]

AgentRoutes ==
    {Route("POST", "/v1/agent/drafts", "agent:drafts:write", FALSE, {}, {}, TRUE, {201}, {502}),
     Route("GET", "/v1/agent/drafts", "agent:drafts:read", FALSE, {},
           {"agent", "status", "limit"}, FALSE, {200}, {502}),
     Route("GET", "/v1/agent/drafts/_", "agent:drafts:read", FALSE, {}, {}, FALSE,
           {200}, {404, 502}),
     Route("PATCH", "/v1/agent/drafts/_", "agent:drafts:approve", FALSE, {}, {}, TRUE,
           {200}, {400, 404, 409, 502})}

AuthRoutes == {Route("GET", "/v1/auth/whoami", None, FALSE, {}, {}, FALSE, {200}, {})}
HealthRoutes == {Route("GET", "/v1/health", "open", FALSE, {}, {}, FALSE, {200}, {})}

CalendarRoutes ==
    {Route("GET", "/v1/calendar/events", "apple:calendar:read", FALSE, {"from", "to"},
           {"calendar"}, FALSE, {200}, {400, 502}),
     Route("POST", "/v1/calendar/events", "apple:calendar:write", TRUE, {}, {}, TRUE,
           {201}, {400, 502}),
     Route("PATCH", "/v1/calendar/events/_", "apple:calendar:write", TRUE, {}, {}, TRUE,
           {200}, {400, 404, 502}),
     Route("DELETE", "/v1/calendar/events/_", "apple:calendar:write", TRUE, {}, {}, FALSE,
           {200}, {400, 404, 502})}

ContactsRoutes ==
    {Route("GET", "/v1/contacts/search", "apple:contacts:read", FALSE, {"q"}, {"limit"},
           FALSE, {200}, {400, 502})}

EmailRoutes ==
    {Route("GET", "/v1/email/threads", "email:read", FALSE, {"account"},
           {"query", "limit", "before"}, FALSE, {200}, {502}),
     Route("GET", "/v1/email/threads/_", "email:read", FALSE, {}, {}, FALSE,
           {200}, {400, 404, 502}),
     Route("POST", "/v1/email/send", "email:send", TRUE, {}, {}, TRUE, {202}, {400, 502})}

EventRoutes ==
    {Route("POST", "/v1/events/publish", "events:publish", FALSE, {}, {}, TRUE,
           {202}, {400, 502})}

(* An empty outbox is the success answer 204.                               *)
IMessageRoutes ==
    {Route("POST", "/v1/imessage/send", "imessage:send", TRUE, {}, {}, TRUE, {202}, {502}),
     Route("POST", "/v1/imessage/inbound", "imessage:relay", FALSE, {}, {}, TRUE, {200}, {502}),
     Route("GET", "/v1/imessage/outbox", "imessage:relay", FALSE, {"agent"}, {"timeout_s"},
           FALSE, {200, 204}, {502}),
     Route("POST", "/v1/imessage/sent", "imessage:relay", FALSE, {}, {}, TRUE, {200}, {502})}

LLMRoutes == {Route("POST", "/v1/llm/complete", "llm:call", TRUE, {}, {}, TRUE, {200}, {502})}

ReminderRoutes ==
    {Route("GET", "/v1/reminders", "apple:reminders:read", FALSE, {}, {"list", "completed"},
           FALSE, {200}, {400, 502}),
     Route("POST", "/v1/reminders", "apple:reminders:write", TRUE, {}, {}, TRUE,
           {201}, {400, 502}),
     Route("PATCH", "/v1/reminders/_", "apple:reminders:write", TRUE, {}, {}, TRUE,
           {200}, {400, 404, 502}),
     Route("DELETE", "/v1/reminders/_", "apple:reminders:write", TRUE, {}, {}, FALSE,
           {200}, {400, 404, 502})}

(* The mode "create" answers 201, the others 200.                           *)
VaultRoutes ==
    {Route("GET", "/v1/vault/read", "vault:read", FALSE, {"path"}, {}, FALSE,
           {200}, {400, 404, 502}),
     Route("POST", "/v1/vault/write", "vault:write", TRUE, {}, {}, TRUE, {200, 201},
           {400, 404, 409, 502})}

Routes == AgentRoutes \cup AuthRoutes \cup HealthRoutes \cup CalendarRoutes \cup ContactsRoutes
          \cup EmailRoutes \cup EventRoutes \cup IMessageRoutes \cup LLMRoutes
          \cup ReminderRoutes \cup VaultRoutes

----------------------------------------------------------------------------

(* The transport of the client puts a key on every POST: a fresh one, which *)
(* the bridge has never answered, or the one that the caller has pinned.    *)
VARIABLES
    call,    \* the call under way: request, stage, answer, what the caller gets
    stored   \* the table's row of the pinned key: operation and status, or None

vars == <<call, stored>>

(* "ran": the handler has run for this request, now or when its answer was  *)
(* stored.                                                                  *)
NoCall == [pc |-> "idle", ep |-> None, sent |-> {}, status |-> None, ran |-> FALSE,
           odd |-> FALSE, pinned |-> FALSE, result |-> None]

Init == call = NoCall /\ stored = None

(* The caller fills in an id the bridge has given out, and values that the  *)
(* route may find odd; UNSET parameters are left out of the query.          *)
Send(e, given, odd, pinned) ==
    /\ call.pc \in {"idle", "read"}
    /\ given \subseteq e.may
    /\ odd => e.body \/ e.needs \cup given # {}
    /\ pinned => e.method = "POST"
    /\ call' = [NoCall EXCEPT !.pc = "table", !.ep = e, !.sent = e.needs \cup given,
                              !.odd = odd, !.pinned = pinned]
    /\ UNCHANGED stored

At(stage) == call.pc = stage
Pass(stage) == call' = [call EXCEPT !.pc = stage] /\ UNCHANGED stored
Answer(status) ==
    /\ call' = [call EXCEPT !.pc = "answered", !.status = status]
    /\ UNCHANGED stored

(* Mutant: the stored answer is given to whoever shows the key.             *)
MayBeSameBody_Any == TRUE

(* The body may be the one of the stored request only if it is a body of    *)
(* that operation, and then it is not odd: its handler has accepted it.     *)
MayBeSameBody == stored.ep = call.ep /\ ~call.odd

(* In front of all routes: a pinned key the table knows is answered here,   *)
(* with the stored answer or, when the body is another, with 409.           *)
LookUpKey ==
    /\ At("table")
    /\ IF call.pinned /\ stored # None
       THEN \/ /\ MayBeSameBody
               /\ call' = [call EXCEPT !.pc = "answered", !.status = stored.status,
                                       !.ran = stored.ep = call.ep]
               /\ UNCHANGED stored
            \/ Answer(409)
       ELSE Pass("route")

(* A day has gone by; the next lookup deletes the row.                      *)
PruneExpired == stored # None /\ stored' = None /\ UNCHANGED call

(* Ids of reminders are URLs.  The client quotes them, but the server takes *)
(* the path apart after it has unquoted it, and a parameter of a path holds *)
(* no slash.                                                                *)
HasSlash(id) == id = "reminder_id"

Matches(e, route) == route.method = e.method /\ route.path = e.path
TheRoute == CHOOSE route \in Routes : Matches(call.ep, route)

FindRoute ==
    /\ At("route")
    /\ IF \E id \in call.ep.ids : HasSlash(id) THEN Answer(404)
       ELSE IF \E route \in Routes : Matches(call.ep, route) THEN Pass("token")
       ELSE \E status \in {404, 405} : Answer(status)

(* No token, or one that is not known.                                      *)
CheckToken ==
    /\ At("token")
    /\ Pass("scope") \/ (TheRoute.scope # "open" /\ Answer(401))

CheckScope ==
    /\ At("scope")
    /\ Pass("rate") \/ (TheRoute.scope \notin {"open", None} /\ Answer(403))

(* The limiter takes a token of the caller's budget, or has none: 429, which *)
(* the transport of the client retries and then raises.                     *)
CheckRate ==
    /\ At("rate")
    /\ IF TheRoute.rated
       THEN Pass("values") \/ Answer(429)
       ELSE Pass("values")

(* Parameters and body are judged after all dependencies have been solved.  *)
CheckValues ==
    /\ At("values")
    /\ IF call.odd \/ ~(TheRoute.needs \subseteq call.sent) \/ TheRoute.body # call.ep.body
       THEN Answer(422) ELSE Pass("handler")

(* Answers of 2xx only; the others cannot be replayed.                      *)
Cacheable(status) == status \in 200..299

StoreAnswer(status) ==
    /\ call.pinned /\ Cacheable(status)
    /\ stored' = [ep |-> call.ep, status |-> status]

Handle ==
    /\ At("handler")
    /\ \E status \in TheRoute.success \cup TheRoute.raises \cup {500} :
          /\ call' = [call EXCEPT !.pc = "answered", !.status = status, !.ran = TRUE]
          /\ \/ StoreAnswer(status)
             \/ UNCHANGED stored   \* no key, no success, or the table did not take it

(* _parse_response; raise_on_unexpected_status is off.                      *)
Parse(e, status) == IF status \in e.known THEN "model"
                    ELSE IF status = 422 THEN "invalid" ELSE None

ReadAnswer ==
    /\ At("answered")
    /\ call' = [call EXCEPT !.pc = "read",
                            !.result = IF call.status = 429 THEN "raised"
                                       ELSE Parse(call.ep, call.status)]
    /\ UNCHANGED stored

Next ==
    \/ \E e \in Client : \E given \in SUBSET e.may, odd, pinned \in BOOLEAN :
          Send(e, given, odd, pinned)
    \/ LookUpKey \/ PruneExpired
    \/ FindRoute \/ CheckToken \/ CheckScope \/ CheckRate \/ CheckValues \/ Handle
    \/ ReadAnswer

Spec == Init /\ [][Next]_vars

----------------------------------------------------------------------------
(* Properties                                                               *)

(* A caller who looks at nothing but the parsed result: a model means that  *)
(* the handler of this operation ran and succeeded, for this call or for an *)
(* earlier one with its key and its body, also when the caller has pinned   *)
(* one key over calls of several operations; and a success is always a      *)
(* model, but for two answers the client does not know, the note that was   *)
(* created in the vault (201) and the empty outbox (204), which look like a *)
(* failure.                                                                 *)
ModelMeansSuccess ==
    At("read") =>
      /\ call.result = "model" => call.ran /\ call.status \in TheRoute.success
      /\ call.ran /\ call.status \in TheRoute.success /\ call.result # "model" =>
           \/ call.ep = ClientWriteVault /\ call.status = 201
           \/ call.ep = ClientOutbox /\ call.status = 204

(* The client never sends a request that its own form makes unanswerable:   *)
(* 422 is about values, 404 and 405 before the handler never occur, but for *)
(* the ids that hold a slash.                                               *)
FormIsUnderstood ==
    /\ call.status = 422 => call.odd
    /\ call.status \in {404, 405} /\ ~call.ran => \E id \in call.ep.ids : HasSlash(id)
    /\ call.ep # None /\ ~At("table") /\ ~At("route") /\ call.status # 404 =>
          call.sent \subseteq TheRoute.needs \cup TheRoute.may
=============================================================================
