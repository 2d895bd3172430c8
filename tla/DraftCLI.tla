------------------------------ MODULE DraftCLI ------------------------------
(***************************************************************************)
(* scripts/brain-drafts.py: operators who list, show, edit, approve, reject *)
(* and retry the drafts of DraftDispatch, each from a terminal of their     *)
(* own.  A command is a GET, sometimes an editor, and one or two PATCHes    *)
(* through the SDK (brains_shared.agent); nothing locks the row between     *)
(* them, so that other operators, the relay's report and the bridge's own   *)
(* failures fall in between.  Queue, relay and restarts are those of        *)
(* DraftDispatch, unchanged.                                                *)
(***************************************************************************)
EXTENDS DraftDispatch, FiniteSets

CONSTANTS
    Operators,
    ListLimit,     \* --limit
    MaxCommands,   \* bound: commands begun
    MaxCutOffs     \* bound: commands that end before their answer comes

Commands == {"approve", "reject", "retry", "edit", "edit_approve"}

ASSUME DraftCLIAssumption ==
    /\ ListLimit \in 1..200 /\ MaxCommands \in Nat /\ MaxCutOffs \in Nat
    /\ None \notin Patchers

VARIABLES
    cli,       \* operator -> the command in the terminal, or how the last ended
    known,     \* operator -> the draft ids printed so far
    screen,    \* operator -> draft -> the body last shown or saved
    born,      \* drafts in the order of created_at
    begun,
    cutOffs

cliVars == <<cli, known, screen, born, begun, cutOffs>>
dispatchVars == vars
allVars == <<dispatchVars, cliVars>>

NoCommand == [pc |-> "idle", cmd |-> None, draft |-> None, text |-> None,
              slot |-> None, exit |-> None, minted |-> {}, wasApproved |-> FALSE,
              cutOff |-> FALSE]

Unseen == [body |-> None, raced |-> FALSE]

CliInit ==
    /\ Init
    /\ cli = [o \in Operators |-> NoCommand]
    /\ known = [o \in Operators |-> {}]
    /\ screen = [o \in Operators |-> [d \in Drafts |-> Unseen]]
    /\ born = <<>>
    /\ begun = 0 /\ cutOffs = 0

(* Every variable keeps its type, and every bounded counter its bound.      *)
CliTypeOK ==
    /\ cli \in [Operators ->
          [pc : {"idle", "get", "editor", "patch", "wait", "then"},
           cmd : Commands \cup {None}, draft : Drafts \cup {None},
           text : Bodies \cup {None}, slot : Patchers \cup {None},
           exit : {None, 0, 1, 130}, minted : SUBSET Mids, wasApproved : BOOLEAN,
           cutOff : BOOLEAN]]
    /\ known \in [Operators -> SUBSET Drafts]
    /\ screen \in [Operators -> [Drafts ->
          [body : Bodies \cup {None}, raced : BOOLEAN]]]
    /\ born \in Seq(Drafts)
    /\ begun \in 0..MaxCommands /\ cutOffs \in 0..MaxCutOffs

----------------------------------------------------------------------------
(* The SDK: requests and answers                                            *)

(* A request carries the fields that were given; the others are UNSET and   *)
(* left out of the JSON, and are None again in the bridge.                  *)
DraftPatchRequest(fields) ==
    [f \in {g \in DOMAIN fields : fields[g] # None} |-> fields[f]]

ListQuery(fields) == [f \in {g \in DOMAIN fields : fields[g] # None} |-> fields[f]]

UpdateDraft(st, b) == DraftPatchRequest([status |-> st, body |-> b])

FieldOf(req, f) == IF f \in DOMAIN req THEN req[f] ELSE None

(* update_draft and get_draft raise AgentError unless the status is 200,    *)
(* and each command turns that into exit code 1; so does the traceback of   *)
(* an error of the connection.                                              *)
Raises(status) == status # 200

ExitCode(status) == IF Raises(status) THEN 1 ELSE 0

(* What GET /v1/agent/drafts/{id} answers, and what the generated model and *)
(* _draft_from_dict keep of it.                                             *)
GetStatus(d) == IF rows[d].status = None THEN 404 ELSE 200

DraftOut(d) == [status |-> rows[d].status, body |-> rows[d].body]

(* GET /v1/agent/drafts: the newest rows of a status, at most ListLimit.    *)
Listed(req) ==
    LET match(i) == FieldOf(req, "status") \in {None, rows[born[i]].status} IN
    {born[i] : i \in {j \in 1..Len(born) :
        match(j) /\ Cardinality({k \in (j + 1)..Len(born) : match(k)}) < req.limit}}

ListDrafts(st) == Listed(ListQuery([status |-> st, limit |-> ListLimit]))

----------------------------------------------------------------------------
(* Commands                                                                 *)

(* How a command ends; what it did is kept for the properties.              *)
Ended(q, exit) == [q EXCEPT !.pc = "idle", !.exit = exit, !.slot = None]

(* The brain's create_draft.                                                *)
BrainCreates(d, b) ==
    /\ CreateDraft(d, b)
    /\ born' = Append(born, d)
    /\ UNCHANGED <<cli, known, screen, begun, cutOffs>>

(* list: the pending drafts, or with --all those of every status.           *)
CmdList(o, all) ==
    /\ cli[o].pc = "idle" /\ bridgeUp
    /\ known' = [known EXCEPT ![o] = @ \cup ListDrafts(IF all THEN None ELSE "pending")]
    /\ UNCHANGED <<dispatchVars, cli, screen, born, begun, cutOffs>>

(* show                                                                     *)
CmdShow(o, d) ==
    /\ cli[o].pc = "idle" /\ bridgeUp
    /\ d \in known[o]
    /\ ~Raises(GetStatus(d))
    /\ screen' = [screen EXCEPT ![o][d] = [body |-> DraftOut(d).body, raced |-> FALSE]]
    /\ UNCHANGED <<dispatchVars, cli, known, born, begun, cutOffs>>

(* approve and reject PATCH at once; retry and edit begin with a GET.       *)
Begin(o, cmd, d) ==
    /\ cli[o].pc = "idle"
    /\ d \in known[o]
    /\ begun < MaxCommands
    /\ begun' = begun + 1
    /\ cli' = [cli EXCEPT ![o] = [NoCommand EXCEPT !.cmd = cmd, !.draft = d,
                  !.pc = IF cmd \in {"approve", "reject"} THEN "patch" ELSE "get"]]
    /\ UNCHANGED <<dispatchVars, known, screen, born, cutOffs>>

CmdApprove(o, d) == Begin(o, "approve", d)
CmdReject(o, d) == Begin(o, "reject", d)
CmdRetry(o, d) == Begin(o, "retry", d)
CmdEdit(o, d, thenApprove) ==
    Begin(o, IF thenApprove THEN "edit_approve" ELSE "edit", d)

(* retry is for rows whose send failed, or that are approved already; edit  *)
(* is for rows that are not final.                                          *)
MayGoOn(cmd, status) ==
    IF cmd = "retry" THEN status \in {"send_failed", "approved"}
    ELSE status \notin {"sent", "rejected"}

(* The GET of retry and edit; edit then shows the body in the editor.       *)
GetFirst(o) ==
    LET q == cli[o] IN
    /\ q.pc = "get"
    /\ bridgeUp
    /\ IF Raises(GetStatus(q.draft)) \/ ~MayGoOn(q.cmd, DraftOut(q.draft).status)
       THEN cli' = [cli EXCEPT ![o] = Ended(q, 1)] /\ UNCHANGED screen
       ELSE IF q.cmd = "retry"
       THEN cli' = [cli EXCEPT ![o].pc = "patch"] /\ UNCHANGED screen
       ELSE /\ cli' = [cli EXCEPT ![o].pc = "editor"]
            /\ screen' = [screen EXCEPT ![o][q.draft] =
                             [body |-> DraftOut(q.draft).body, raced |-> FALSE]]
    /\ UNCHANGED <<dispatchVars, known, born, begun, cutOffs>>

(* What the editor was opened on: a later edit by another operator does     *)
(* not change the file in the editor.                                       *)
Opened(o) == screen[o][cli[o].draft].body

(* _open_editor: the editor fails or the text is unchanged, and nothing is  *)
(* sent; or a text is saved.                                                *)
CloseEditor(o, text) ==
    LET q == cli[o] IN
    /\ q.pc = "editor"
    /\ cli' = [cli EXCEPT ![o] =
          IF text \in {None, Opened(o)} THEN Ended(q, 0)
          ELSE [q EXCEPT !.pc = "patch", !.text = text]]
    /\ UNCHANGED <<dispatchVars, known, screen, born, begun, cutOffs>>

(* The request of the PATCH the command is at: edit sends the body alone,   *)
(* and --then-approve a second request without it.                          *)
PatchOf(q) ==
    CASE q.cmd = "reject" -> UpdateDraft("rejected", None)
      [] q.cmd \in {"approve", "retry"} \/ q.pc = "then" -> UpdateDraft("approved", None)
      [] OTHER -> UpdateDraft(None, q.text)

(* Mutant: --then-approve is taken as given.                                *)
AfterPatch_AlwaysApprove(q, status) ==
    IF ~Raises(status) /\ q.text # None /\ q.pc # "then"
    THEN [q EXCEPT !.pc = "then", !.slot = None]
    ELSE Ended(q, ExitCode(status))

(* The command after a PATCH was answered; pc is still that of the PATCH.   *)
AfterPatch(q, status) ==
    IF ~Raises(status) /\ q.cmd = "edit_approve" /\ q.pc # "then"
    THEN [q EXCEPT !.pc = "then", !.slot = None]
    ELSE Ended(q, ExitCode(status))

(* What the operators know once o's request with body b is committed.       *)
Seen(o, d, b) ==
    [x \in Operators |->
        IF b = None THEN screen[x]
        ELSE IF x = o THEN [screen[x] EXCEPT ![d] = [body |-> b, raced |-> FALSE]]
        ELSE [screen[x] EXCEPT ![d].raced = @ \/ b # rows[d].body]]

AtPatch(o) == cli[o].pc \in {"patch", "then"}

(* A PATCH that approves: the handler is suspended before its RPUSH.  The   *)
(* slot remembers which PATCH of the command it belongs to.                 *)
PatchSuspends(o, p, m) ==
    LET q == cli[o]  st == FieldOf(PatchOf(q), "status")  b == FieldOf(PatchOf(q), "body") IN
    /\ AtPatch(o)
    /\ PatchApprove(p, q.draft, st, b, m)
    /\ cli' = [cli EXCEPT ![o] =
          [q EXCEPT !.pc = "wait", !.slot = p, !.minted = @ \cup {m},
                    !.text = IF b = None THEN None ELSE @,
                    !.wasApproved = @ \/ (b # None /\ rows[q.draft].status = "approved")]]
    /\ screen' = Seen(o, q.draft, b)
    /\ UNCHANGED <<known, born, begun, cutOffs>>

(* Any other PATCH is answered in the same step: done, 409, or 404.         *)
PatchAnswers(o) ==
    LET q == cli[o]  st == FieldOf(PatchOf(q), "status")  b == FieldOf(PatchOf(q), "body") IN
    /\ AtPatch(o)
    /\ \/ /\ PatchRow(q.draft, st, b)
          /\ cli' = [cli EXCEPT ![o] = AfterPatch(q, 200)]
          /\ screen' = Seen(o, q.draft, b)
       \/ /\ bridgeUp /\ ~PatchAccepted(q.draft, st, b)
          /\ cli' = [cli EXCEPT ![o] = AfterPatch(q, 409)]
          /\ UNCHANGED <<dispatchVars, screen>>
    /\ UNCHANGED <<known, born, begun, cutOffs>>

(* The command that waits for the handler in slot p: its first PATCH still  *)
(* has the text, the second of --then-approve has not.                      *)
Awaiting(p) == {o \in Operators : cli[o].slot = p}

Resumed(q) == [q EXCEPT !.pc = IF q.text # None THEN "patch" ELSE "then"]

AnswerSlot(p, status) ==
    cli' = [o \in Operators |->
              IF o \in Awaiting(p) THEN AfterPatch(Resumed(cli[o]), status) ELSE cli[o]]

(* The command goes on waiting, whether or not Redis's reply came.          *)
HandlerEnqueues(p) ==
    /\ EnqueueDispatch(p) \/ EnqueueUnanswered(p)
    /\ UNCHANGED cliVars

(* Mutant: the failure to queue the job is only logged, as that of the      *)
(* announcement is.                                                         *)
RefusalStatus_Logged == 200

(* DependencyUnavailable: 502, although the row is approved.                *)
RefusalStatus == 502

HandlerRefuses(p) ==
    /\ EnqueueRefused(p)
    /\ AnswerSlot(p, RefusalStatus)
    /\ UNCHANGED <<known, screen, born, begun, cutOffs>>

HandlerDone(p) ==
    /\ AnnounceApproved(p)
    /\ AnswerSlot(p, 200)
    /\ UNCHANGED <<known, screen, born, begun, cutOffs>>

(* No connection: the traceback of httpx, exit code 1.                      *)
NoBridge(o) ==
    /\ ~bridgeUp
    /\ cli[o].pc = "get" \/ AtPatch(o)
    /\ cli' = [cli EXCEPT ![o] = Ended(cli[o], 1)]
    /\ UNCHANGED <<dispatchVars, known, screen, born, begun, cutOffs>>

(* The client's timeout, or ^C: the handler, if one runs, goes on.          *)
CutOff(o, exit) ==
    /\ cli[o].pc # "idle"
    /\ exit = 1 => cli[o].pc = "wait"
    /\ cutOffs < MaxCutOffs
    /\ cutOffs' = cutOffs + 1
    /\ cli' = [cli EXCEPT ![o] = [Ended(cli[o], exit) EXCEPT !.cutOff = TRUE]]
    /\ UNCHANGED <<dispatchVars, known, screen, born, begun>>

(* The bridge dies and takes the suspended handlers with it.                *)
BridgeDies ==
    /\ BridgeCrash
    /\ cli' = [o \in Operators |->
          IF cli[o].pc = "wait" THEN [Ended(cli[o], 1) EXCEPT !.cutOff = TRUE]
          ELSE cli[o]]
    /\ UNCHANGED <<known, screen, born, begun, cutOffs>>

(* Redis, the relay and the reports go on as in DraftDispatch; the faults   *)
(* that no terminal can notice are left to the runs of that module.         *)
Elsewhere ==
    /\ \/ Outbound \/ RedisCrash \/ RedisStart \/ BridgeStart
       \/ \E h \in posts : PublishOutcome(h) \/ PublishFails(h) \/ Correlate(h)
    /\ UNCHANGED cliVars

CliNext ==
    \/ \E d \in Drafts, b \in Bodies : BrainCreates(d, b)
    \/ \E o \in Operators :
          \/ \E all \in BOOLEAN : CmdList(o, all)
          \/ \E d \in Drafts :
                \/ CmdShow(o, d) \/ CmdApprove(o, d) \/ CmdReject(o, d) \/ CmdRetry(o, d)
                \/ \E thenApprove \in BOOLEAN : CmdEdit(o, d, thenApprove)
          \/ GetFirst(o)
          \/ \E text \in Bodies \cup {None} : CloseEditor(o, text)
          \/ \E p \in Patchers, m \in Mids : PatchSuspends(o, p, m)
          \/ PatchAnswers(o)
          \/ NoBridge(o)
          \/ \E exit \in {1, 130} : CutOff(o, exit)
    \/ \E p \in Patchers : HandlerEnqueues(p) \/ HandlerRefuses(p) \/ HandlerDone(p)
    \/ BridgeDies
    \/ Elsewhere

CliSpec == CliInit /\ [][CliNext]_allVars

----------------------------------------------------------------------------
(* Properties                                                               *)

(* How many jobs a command may queue: approve and retry one, reject none,   *)
(* edit none - except that saving a row that is approved by now queues it   *)
(* again, so that edit --then-approve of such a row queues it twice.        *)
Allowance(q) ==
    (IF q.cmd \in {"approve", "retry", "edit_approve"} THEN 1 ELSE 0)
      + (IF q.wasApproved THEN 1 ELSE 0)

(* The ids whose job Redis was given.                                       *)
Queued == {m \in Mids : pushes[m] > 0}

(* No command sends more than it says, however the row changes between its  *)
(* GET and its PATCHes: an edit never releases a draft that nobody          *)
(* approved, and a refused or repeated request queues nothing more.  The    *)
(* count is of message ids: redis-py may queue one of them twice.           *)
OneMessagePerCommand ==
    \A o \in Operators : Cardinality(cli[o].minted \cap Queued) <= Allowance(cli[o])

(* The exit code can be believed unless the command was cut off.  0 from an *)
(* approval means that a job was queued; anything else that none was - but  *)
(* for one whose RPUSH ran without its reply, which the bridge takes for a  *)
(* failure, and with the exception above: the first PATCH of edit           *)
(* --then-approve had queued the row before the second was refused.         *)
ExitIsTruthful ==
    \A o \in Operators :
        LET q == cli[o] IN
        q.pc = "idle" /\ q.cmd # None /\ ~q.cutOff =>
            /\ q.exit = 0 => q.minted \subseteq Queued
            /\ q.exit = 0 /\ q.cmd \in {"approve", "retry"} => q.minted # {}
            /\ q.exit # 0 =>
                  \/ q.minted \cap Queued \subseteq unanswered
                  \/ q.cmd = "edit_approve" /\ q.wasApproved

(* What an operator releases is what the terminal showed last, or what was  *)
(* saved from it: any other body in a job was put there by somebody else's  *)
(* edit after that look, never by the CLI or the bridge.                    *)
ReleasedAsShown ==
    [][\A o \in Operators :
          LET q == cli[o]  s == screen'[o][q.draft] IN
          cli'[o].pc = "wait" /\ s.body # None /\ ~s.raced =>
              \A m \in cli'[o].minted \ q.minted : issued'[m].body = s.body]_allVars
=============================================================================
