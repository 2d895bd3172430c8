------------------------------- MODULE Apple -------------------------------
(***************************************************************************)
(* Calendar, reminders and contacts: every call of these routes is one run  *)
(* of osascript, given ten seconds.  The script sends Apple events to the   *)
(* application one after another, so other calls and the owner of the       *)
(* machine act between two of them, and a script that is killed or fails    *)
(* has done what it has done.                                               *)
(*                                                                          *)
(* The three applications have one shape: collections (calendars, lists,    *)
(* the address book) of items; what is kept of an item is its id and which  *)
(* of its optional fields have a text.  A list comes back as one string:    *)
(* the fields of an item between separators (1F), the optional ones last,   *)
(* each item closed by a terminator (1E).                                   *)
(***************************************************************************)
EXTENDS Naturals, Sequences, FiniteSets, SequencesExt

CONSTANTS
    Calendars,   \* sequence of collections, in the order of the application
    Lists,
    AddressBook,
    Ids,
    Calls,       \* requests the bridge serves at the same time
    Contents,    \* bound: which optional fields of a new item can be filled
    Patches,     \* sets of fields a PATCH may name
    Limit,       \* ?limit= of a contacts search
    None,
    MaxUser,     \* bound: edits by the owner of the machine
    MaxFaults,   \* bound: failures of scripts and Apple events
    MaxCalls     \* bound: requests

Names(app) == CASE app = "calendar" -> Calendars
                [] app = "reminders" -> Lists
                [] app = "contacts" -> <<AddressBook>>

Apps == {"calendar", "reminders", "contacts"}
Collections == UNION {ToSet(Names(app)) : app \in Apps}

ASSUME AppleAssumption ==
    /\ Limit \in 1..100
    /\ MaxUser \in Nat /\ MaxFaults \in Nat /\ MaxCalls \in Nat
    /\ \A app \in Apps : Names(app) \in Seq(ToSet(Names(app)))
    /\ \A a, b \in Apps : a # b => ToSet(Names(a)) \cap ToSet(Names(b)) = {}
    /\ None \notin Apps \cup Collections \cup Ids

VARIABLES
    store,      \* collection -> the sequence of its items
    call,       \* request -> its script, then its answer
    effect,     \* request -> collection -> its Apple events that took effect there
    refused,    \* request -> collections where the application refused an event
    steady,     \* request -> <<collection, id>> that were there unchanged since it began
    user, faults, calls

vars == <<store, call, effect, refused, steady, user, faults, calls>>
counters == <<user, faults, calls>>

(* The last two fields of an item's record, and those its PATCH can set.    *)
Tail2(app) == CASE app = "calendar" -> <<"location", "notes">>
                [] app = "reminders" -> <<"due_date", "notes">>
                [] app = "contacts" -> <<"phones", "emails">>

CalendarSetters == <<"title", "start", "end", "location", "notes">>
ReminderSetters == <<"title", "notes", "due_date", "completed">>
Setters(app) == CASE app = "calendar" -> CalendarSetters
                  [] app = "reminders" -> ReminderSetters
                  [] app = "contacts" -> <<>>

(* What the model keeps of an item's content.                               *)
Kept(app) == ToSet(Tail2(app)) \cup (IF app = "reminders" THEN {"completed"} ELSE {})

Filled(app) == Contents \cap SUBSET Kept(app)

NoCall == [pc |-> "idle", app |-> None, op |-> None, id |-> None, new |-> None,
           sets |-> {}, fill |-> FALSE, todo |-> <<>>, refs |-> {}, out |-> <<>>,
           shown |-> {}, full |-> FALSE, status |-> None]

Item(i, has) == [id |-> i, has |-> has]

Init ==
    /\ store = [c \in Collections |-> <<>>]
    /\ call = [r \in Calls |-> NoCall]
    /\ effect = [r \in Calls |-> [c \in Collections |-> {}]]
    /\ refused = [r \in Calls |-> {}]
    /\ steady = [r \in Calls |-> {}]
    /\ user = 0 /\ faults = 0 /\ calls = 0

Fault == faults < MaxFaults /\ faults' = faults + 1

IdsIn(c) == {x.id : x \in ToSet(store[c])}
Used == UNION {IdsIn(c) : c \in Collections} \cup {call[r].id : r \in Calls}
Present(app, i) == {<<c, i>> : c \in {c \in ToSet(Names(app)) : i \in IdsIn(c)}}
At(c, i) == CHOOSE k \in DOMAIN store[c] : store[c][k].id = i

Puts(c, items) == store' = [store EXCEPT ![c] = items]
Goes(r, script) == call' = [call EXCEPT ![r] = script]
Touched(c, i) == steady' = [r \in Calls |-> steady[r] \ {<<c, i>>}]

(* The applications share nothing: a behaviour of the model is about one of *)
(* them (bound).                                                            *)
Focus(app) ==
    /\ \A r \in Calls : call[r].app \in {None, app}
    /\ \A c \in Collections \ ToSet(Names(app)) : store[c] = <<>>

----------------------------------------------------------------------------
(* The owner of the machine, and the applications' own synchronisation      *)

UserAdds(app, c, i, has) ==
    /\ user < MaxUser /\ user' = user + 1
    /\ Focus(app)
    /\ i \notin Used
    /\ Puts(c, Append(store[c], Item(i, has)))
    /\ UNCHANGED <<call, effect, refused, steady, faults, calls>>

(* An event can be in two calendars under one uid.                          *)
UserCopies(c, d, i) ==
    /\ user < MaxUser /\ user' = user + 1
    /\ c # d /\ i \in IdsIn(c) \ IdsIn(d)
    /\ Puts(d, Append(store[d], store[c][At(c, i)]))
    /\ UNCHANGED <<call, effect, refused, steady, faults, calls>>

UserRemoves(c, i) ==
    /\ user < MaxUser /\ user' = user + 1
    /\ i \in IdsIn(c)
    /\ Puts(c, RemoveAt(store[c], At(c, i)))
    /\ Touched(c, i)
    /\ UNCHANGED <<call, effect, refused, faults, calls>>

----------------------------------------------------------------------------
(* A request arrives                                                        *)

Begin(r, new, there) ==
    /\ Focus(new.app)
    /\ calls < MaxCalls /\ calls' = calls + 1
    /\ call[r].pc \in {"idle", "done"}
    /\ Goes(r, new)
    /\ effect' = [effect EXCEPT ![r] = [c \in Collections |-> {}]]
    /\ refused' = [refused EXCEPT ![r] = {}]
    /\ steady' = [steady EXCEPT ![r] = there]
    /\ UNCHANGED <<store, user, faults>>

(* A line break in a string, or a date that is none: 400, before any script. *)
Unquotable(r, app) ==
    Begin(r, [NoCall EXCEPT !.pc = "done", !.app = app, !.status = 400], {})

(* Which items a list asks for: open or completed reminders.                *)
Wanted(app, done, x) == app = "reminders" => (("completed" \in x.has) <=> done)

Asked(app, todo, done) ==
    UNION {{<<c, x.id>> : x \in {x \in ToSet(store[c]) : Wanted(app, done, x)}}
              : c \in ToSet(todo)}

List(r, app, only, done) ==
    LET todo == IF only = None THEN Names(app) ELSE <<only>> IN
    Begin(r, [NoCall EXCEPT !.pc = "list", !.app = app, !.op = "list",
                            !.todo = todo, !.fill = done],
          Asked(app, todo, done))

ListEvents(r, only) == List(r, "calendar", only, FALSE)
ListReminders(r, only, done) == List(r, "reminders", only, done)
SearchContacts(r) == List(r, "contacts", None, FALSE)

Create(r, app, c, i, has) ==
    /\ i \notin Used
    /\ Begin(r, [NoCall EXCEPT !.pc = "make", !.app = app, !.op = "create",
                               !.id = i, !.todo = <<c>>, !.new = Item(i, has)], {})

CreateEvent(r, c, i, has) == Create(r, "calendar", c, i, has)
CreateReminder(r, c, i, has) == Create(r, "reminders", c, i, has)

(* A PATCH that names no field answers at once.                             *)
Update(r, app, i, named, fill) ==
    LET sets == named \cap ToSet(Setters(app)) IN
    Begin(r, [NoCall EXCEPT !.pc = IF sets = {} THEN "done" ELSE "look",
                            !.status = IF sets = {} THEN 200 ELSE None,
                            !.app = app, !.op = "update", !.id = i, !.sets = sets,
                            !.fill = fill, !.todo = Names(app)],
          Present(app, i))

UpdateEvent(r, i, named, fill) == Update(r, "calendar", i, named, fill)
UpdateReminder(r, i, named, fill) == Update(r, "reminders", i, named, fill)

(* A deletion is the one Apple event "delete".                              *)
Delete(r, app, i) ==
    Begin(r, [NoCall EXCEPT !.pc = "look", !.app = app, !.op = "delete", !.id = i,
                            !.sets = {"delete"}, !.todo = Names(app)],
          Present(app, i))

DeleteEvent(r, i) == Delete(r, "calendar", i)
DeleteReminder(r, i) == Delete(r, "reminders", i)

----------------------------------------------------------------------------
(* The script runs                                                          *)

Here(r) == Head(call[r].todo)

Fail(r) == Goes(r, [call[r] EXCEPT !.pc = "done", !.status = 502, !.refs = {}, !.out = <<>>])

(* "every event of cal whose ..." names the items; each is read by name     *)
(* later, and a contacts search leaves the loop at its limit.               *)
Collect(r) ==
    /\ call[r].pc = "list" /\ call[r].refs = {} /\ call[r].todo # <<>>
    /\ LET app == call[r].app
           places == {k \in DOMAIN store[Here(r)] :
                        Wanted(app, call[r].fill, store[Here(r)][k])}
           asked == {k \in places : app = "contacts" =>
                        Cardinality({j \in places : j < k}) < Limit}
       IN  Goes(r, [call[r] EXCEPT
             !.refs = {<<k, Here(r), store[Here(r)][k].id>> : k \in asked},
             !.full = asked # places,
             !.todo = Tail(@)])
    /\ UNCHANGED <<store, effect, refused, steady, counters>>

(* In their order.  An item that is gone when its turn comes makes the      *)
(* script fail: 502.                                                        *)
ReadItem(r) ==
    /\ call[r].pc = "list"
    /\ \E ref \in call[r].refs :
          /\ \A x \in call[r].refs : ref[1] <= x[1]
          /\ LET c == ref[2]
                 i == ref[3]
             IN  IF i \in IdsIn(c)
                 THEN Goes(r, [call[r] EXCEPT !.refs = @ \ {ref},
                             !.out = Append(@, [c |-> c, item |-> store[c][At(c, i)]])])
                 ELSE Fail(r)
    /\ UNCHANGED <<store, effect, refused, steady, counters>>

(* A slip the runs must notice: every record ends at its last text.         *)
FieldsShortEverywhere(app, out, k) ==
    IF Tail2(app)[2] \in out[k].item.has THEN 0 ELSE 1

(* The fields of the k-th record that reach the parser: osascript's output  *)
(* is stripped, and to Python the separators are white space, so the last   *)
(* record loses its terminator and the empty fields before it.              *)
FieldsShort(app, out, k) ==
    LET has == out[k].item.has IN
    IF k < Len(out) \/ Tail2(app)[2] \in has THEN 0
    ELSE IF Tail2(app)[1] \in has THEN 1 ELSE 2

(* A record with too few fields is dropped.                                 *)
ParseTsv(app, out) == {out[k] : k \in {k \in DOMAIN out : FieldsShort(app, out, k) = 0}}

ListAnswers(r) ==
    /\ call[r].pc = "list" /\ call[r].refs = {} /\ call[r].todo = <<>>
    /\ Goes(r, [call[r] EXCEPT !.pc = "done", !.status = 200,
                               !.shown = ParseTsv(call[r].app, call[r].out)])
    /\ UNCHANGED <<store, effect, refused, steady, counters>>

(* "first calendar whose name is ..." names it or the script fails.         *)
Make(r) ==
    /\ call[r].pc = "make"
    /\ Puts(Here(r), Append(store[Here(r)], call[r].new))
    /\ effect' = [effect EXCEPT ![r][Here(r)] = {"make"}]
    /\ Goes(r, [call[r] EXCEPT !.pc = "made"])
    /\ UNCHANGED <<refused, steady, counters>>

MakeAnswers(r) ==
    /\ call[r].pc = "made"
    /\ Goes(r, [call[r] EXCEPT !.pc = "done", !.status = 201])
    /\ UNCHANGED <<store, effect, refused, steady, counters>>

(* The next collection; after the last one "not_found".                     *)
Look(r) ==
    /\ call[r].pc = "look"
    /\ Goes(r, IF call[r].todo = <<>>
              THEN [call[r] EXCEPT !.pc = "done", !.status = 404]
              ELSE IF call[r].id \in IdsIn(Here(r)) THEN [call[r] EXCEPT !.pc = "set"]
              ELSE [call[r] EXCEPT !.todo = Tail(@)])
    /\ UNCHANGED <<store, effect, refused, steady, counters>>

Has(app, has, f, fill) ==
    IF f \notin Kept(app) THEN has
    ELSE IF fill \/ f = "due_date" THEN has \cup {f} ELSE has \ {f}

(* The Apple events that the collection still has to get, and which of them *)
(* comes next: the setters have an order, a deletion is alone.              *)
Due(r) == call[r].sets \ effect[r][Here(r)]
Comes(r, f) ==
    /\ f \in Due(r)
    /\ LET order == Setters(call[r].app) IN
       \A j, k \in DOMAIN order : order[k] = f /\ j < k => order[j] \notin Due(r)

(* One Apple event: a setter, or the deletion.                              *)
ApplyEvent(r, f) ==
    LET c == Here(r)
        i == call[r].id
        k == At(c, i)
        x == [store[c][k] EXCEPT !.has = Has(call[r].app, @, f, call[r].fill)]
    IN  /\ call[r].pc = "set" /\ Comes(r, f)
        /\ i \in IdsIn(c)
        /\ Puts(c, IF f = "delete" THEN RemoveAt(store[c], k)
                   ELSE [store[c] EXCEPT ![k] = x])
        /\ effect' = [effect EXCEPT ![r][c] = @ \cup {f}]
        /\ Touched(c, i)
        /\ UNCHANGED <<call, refused, counters>>

(* An Apple event the application refuses (a read-only calendar, an end     *)
(* before the start) or whose item is gone: the error is caught inside the  *)
(* loop, which goes on with the next collection.                            *)
Swallow(r) ==
    /\ call[r].pc = "set" /\ Due(r) # {}
    /\ Goes(r, [call[r] EXCEPT !.pc = "look", !.todo = Tail(@)])
    /\ refused' = [refused EXCEPT ![r] = @ \cup {Here(r)}]
    /\ UNCHANGED <<store, effect, steady, user, calls>>

EventRefused(r) ==
    /\ Swallow(r)
    /\ call[r].id \in IdsIn(Here(r))
    /\ Fault

ItemIsGone(r) ==
    /\ Swallow(r)
    /\ call[r].id \notin IdsIn(Here(r))
    /\ UNCHANGED faults

(* A slip the runs must notice: the loop has no "return" of its own.        *)
SetAnswersGoesOn(r) ==
    /\ call[r].pc = "set" /\ Due(r) = {}
    /\ Goes(r, [call[r] EXCEPT !.pc = "look", !.todo = Tail(@)])
    /\ UNCHANGED <<store, effect, refused, steady, counters>>

SetAnswers(r) ==
    /\ call[r].pc = "set" /\ Due(r) = {}
    /\ Goes(r, [call[r] EXCEPT !.pc = "done", !.status = 200])
    /\ UNCHANGED <<store, effect, refused, steady, counters>>

Running(r) == call[r].pc \in {"list", "make", "made", "look", "set"}

(* osascript is missing, the grant was revoked, the calendar has no such    *)
(* name, or the output is not UTF-8: the script has no effect any more.     *)
ScriptFails(r) ==
    /\ call[r].pc \in {"list", "make", "look"}
    /\ Fault
    /\ Fail(r)
    /\ UNCHANGED <<store, effect, refused, steady, user, calls>>

(* An application that waits for its owner keeps the script waiting: after  *)
(* ten seconds it is killed.                                                *)
Timeout(r) ==
    /\ Running(r)
    /\ Fail(r)
    /\ UNCHANGED <<store, effect, refused, steady, counters>>

ScriptStep(r) ==
    \/ Collect(r) \/ ReadItem(r) \/ ListAnswers(r)
    \/ Make(r) \/ MakeAnswers(r)
    \/ Look(r) \/ SetAnswers(r) \/ \E f \in call[r].sets : ApplyEvent(r, f)
    \/ EventRefused(r) \/ ItemIsGone(r) \/ ScriptFails(r)

Request(r) ==
    \/ \E app \in Apps : Unquotable(r, app)
    \/ \E c \in ToSet(Calendars) \cup {None} : ListEvents(r, c)
    \/ \E c \in ToSet(Lists) \cup {None}, done \in BOOLEAN : ListReminders(r, c, done)
    \/ SearchContacts(r)
    \/ \E i \in Ids :
         \/ \E c \in ToSet(Calendars), has \in Filled("calendar") : CreateEvent(r, c, i, has)
         \/ \E c \in ToSet(Lists), has \in Filled("reminders") :
              "completed" \notin has /\ CreateReminder(r, c, i, has)
         \/ \E named \in Patches, fill \in BOOLEAN :
              UpdateEvent(r, i, named, fill) \/ UpdateReminder(r, i, named, fill)
         \/ DeleteEvent(r, i) \/ DeleteReminder(r, i)

Owner ==
    \/ \E app \in Apps, i \in Ids : \E c \in ToSet(Names(app)), has \in Filled(app) :
         UserAdds(app, c, i, has)
    \/ \E c, d \in ToSet(Calendars), i \in Ids : UserCopies(c, d, i)
    \/ \E c \in Collections, i \in Ids : UserRemoves(c, i)

Next ==
    \/ Owner
    \/ \E r \in Calls : Request(r) \/ ScriptStep(r) \/ Timeout(r)

Spec == Init /\ [][Next]_vars

----------------------------------------------------------------------------
(* Properties                                                               *)

Answered(r, status) == call[r].pc = "done" /\ call[r].status = status

Lists200(r) == Answered(r, 200) /\ call[r].op = "list"
Shown(r) == {<<e.c, e.item.id>> : e \in call[r].shown}

(* A list holds every item that was there, and asked for, from the request  *)
(* to the answer, unless the limit of a search cut it off; only the last    *)
(* item read may be missing, and only when its last field is empty.         *)
ListIsFaithful ==
    \A r \in Calls : Lists200(r) /\ ~call[r].full =>
        \A e \in steady[r] \ Shown(r) :
            /\ call[r].out # <<>>
            /\ LET last == Last(call[r].out) IN
               e = <<last.c, last.item.id>> /\ Tail2(call[r].app)[2] \notin last.item.has

Whole(r) == {c \in Collections : call[r].sets # {} /\ effect[r][c] = call[r].sets}
Partial(r) == {c \in Collections : effect[r][c] # {}} \ Whole(r)

(* What a caller may conclude from the answer of a write, whatever else     *)
(* happens in between.  200: one copy of the item was changed as a whole.   *)
(* 404: none was, and none was there all along, unless the application      *)
(* refused to change it, in which case a first part of the change may have  *)
(* been made.  400: nothing happened.  502: at most one copy was changed.   *)
AnswerFitsEffect ==
    \A r \in Calls :
        /\ Answered(r, 400) => \A c \in Collections : effect[r][c] = {}
        /\ Answered(r, 201) => \E c \in Collections : effect[r][c] = {"make"}
        /\ Answered(r, 200) /\ call[r].sets # {} =>
              Cardinality(Whole(r)) = 1 /\ Partial(r) \subseteq refused[r]
        /\ Answered(r, 404) =>
              /\ Whole(r) = {} /\ Partial(r) \subseteq refused[r]
              /\ \A e \in steady[r] : e[1] \in refused[r]
        /\ Answered(r, 502) => Cardinality(Whole(r) \cup (Partial(r) \ refused[r])) <= 1

=============================================================================
