------------------------------- MODULE Email -------------------------------
(***************************************************************************)
(* The e-mail provider of the bridge.  IMAP: GET /v1/email/threads asks the *)
(* server for its THREAD tree and reads one summary per thread, and GET     *)
(* /v1/email/threads/{id} searches the members of one thread and reads      *)
(* them; each request has a connection of its own in a worker thread, while *)
(* other mail clients expunge messages and new mail arrives.  SMTP: POST    *)
(* /v1/email/send composes a message and hands it over; its caller may lose *)
(* patience, or the connection may break, at any point.                     *)
(*                                                                          *)
(* THREAD numbers messages by their place in the mailbox, UID SEARCH by     *)
(* their UID, and FETCH takes places.                                       *)
(***************************************************************************)
EXTENDS Naturals, Sequences, FiniteSets, SequencesExt

CONSTANTS
    Mids,        \* values of Message-ID
    NoId,        \* the Message-ID of a message that has none
    Accounts,    \* the account names the routes accept
    Configured,  \* those with a password and an entry in email.toml
    Recipients,
    Jobs,        \* calls of POST /v1/email/send
    Workers,     \* threads of asyncio.to_thread
    None,
    Limit,       \* ?limit=
    MaxUids,     \* bound: messages that ever reach the inbox
    MaxFaults    \* bound: expunges, refusals, broken connections, commands that
                 \*   fail, lost patience

(* What is kept of a message.                                               *)
Messages == [job : Jobs \cup {None}, to : SUBSET Recipients, refs : SUBSET Mids]

ASSUME EmailAssumption ==
    /\ Configured \subseteq Accounts
    /\ NoId \notin Mids
    /\ None \notin Mids \cup Jobs \cup Workers \cup Messages
    /\ Limit \in 1..100 /\ MaxUids \in Nat /\ MaxFaults \in Nat

VARIABLES
    mail,      \* Message-ID -> [refs, job, to], None while it is unused
    inbox,     \* the mailbox: its UIDs, ascending
    idOf,      \* UID -> the Message-ID it was given to
    reader,    \* the request that reads the mailbox, and its last answer; lost
               \*   (history): the places of which it learned nothing
    sender,    \* worker thread -> the message it hands over
    job,       \* call of POST /v1/email/send -> its state at the caller
    faults

vars == <<mail, inbox, idOf, reader, sender, job, faults>>

Unread == [pc |-> "idle", kind |-> None, root |-> None, view |-> <<>>, ids |-> <<>>,
           found |-> {}, got |-> <<>>, lost |-> {}, status |-> None]
NoSender == [pc |-> "idle", job |-> None, mid |-> None]
NoJob == [pc |-> "new", worker |-> None, answer |-> None, unsure |-> {}]

Init ==
    /\ mail = [m \in Mids |-> None]
    /\ inbox = <<>> /\ idOf = <<>>
    /\ reader = Unread
    /\ sender = [w \in Workers |-> NoSender]
    /\ job = [j \in Jobs |-> NoJob]
    /\ faults = 0

Fault == faults < MaxFaults /\ faults' = faults + 1

----------------------------------------------------------------------------
(* The mailbox                                                              *)

RefsOf(m) == IF m = NoId THEN {} ELSE mail[m].refs

(* Two messages belong together when one names the other or both name a     *)
(* third: the threads of RFC 5256 are the classes this generates.           *)
Linked(x, y) == x = y \/ ({x} \cup RefsOf(x)) \cap ({y} \cup RefsOf(y)) # {}

Thread(m, among) ==
    {x \in among :
        \A S \in SUBSET among :
            m \in S /\ (\A y \in S, z \in among : Linked(y, z) => z \in S) => x \in S}

Known == {m \in Mids : mail[m] # None}

Arrive(m) ==
    /\ Len(idOf) < MaxUids
    /\ idOf' = Append(idOf, m)
    /\ inbox' = Append(inbox, Len(idOf) + 1)

(* Somebody writes; a reply names its parent and all that the parent names. *)
ReceiveMail(m, parent) ==
    /\ mail[m] = None
    /\ parent # None => parent \in Known
    /\ mail' = [mail EXCEPT ![m] =
          [job |-> None, to |-> Recipients,
           refs |-> IF parent = None THEN {} ELSE {parent} \cup mail[parent].refs]]
    /\ Arrive(m)
    /\ UNCHANGED <<reader, sender, job, faults>>

(* A message without a Message-ID.                                          *)
ReceiveNameless ==
    /\ NoId \notin {idOf[i] : i \in DOMAIN idOf}
    /\ Arrive(NoId)
    /\ UNCHANGED <<mail, reader, sender, job, faults>>

(* A message the bridge has sent is addressed to an account it reads.       *)
ReceiveOwn(m) ==
    /\ m \in Known /\ mail[m].job # None
    /\ m \notin {idOf[i] : i \in DOMAIN idOf}
    /\ Arrive(m)
    /\ UNCHANGED <<mail, reader, sender, job, faults>>

(* Another client of the account deletes: the messages behind move up.      *)
Expunge(n) ==
    /\ n \in DOMAIN inbox
    /\ Fault
    /\ inbox' = RemoveAt(inbox, n)
    /\ UNCHANGED <<mail, idOf, reader, sender, job>>

----------------------------------------------------------------------------
(* IMAP                                                                     *)

Answer(status) == reader' = [reader EXCEPT !.pc = "done", !.status = status]

NewRequest(kind, root) == [Unread EXCEPT !.pc = "connect", !.kind = kind, !.root = root]

(* Missing provider: 502.                                                   *)
Refused(kind, root, status) ==
    [Unread EXCEPT !.pc = "done", !.kind = kind, !.root = root, !.status = status]

(* GET /v1/email/threads?account=                                           *)
ListThreads(account) ==
    /\ reader.pc \in {"idle", "done"}
    /\ reader' = IF account \in Configured THEN NewRequest("list", None)
                 ELSE Refused("list", None, 502)
    /\ UNCHANGED <<mail, inbox, idOf, sender, job, faults>>

(* A thread id packs account and Message-ID; the id that was made of an     *)
(* empty Message-ID cannot be decoded again: 400.                           *)
DecodeThreadId(account, m) == IF m = NoId THEN 400 ELSE
                              IF account \notin Configured THEN 502 ELSE 200

(* GET /v1/email/threads/{id}                                               *)
GetThread(account, m) ==
    /\ reader.pc \in {"idle", "done"}
    /\ m = NoId \/ m \in Known
    /\ LET status == DecodeThreadId(account, m) IN
       reader' = IF status = 200 THEN NewRequest("detail", m)
                 ELSE Refused("detail", m, status)
    /\ UNCHANGED <<mail, inbox, idOf, sender, job, faults>>

(* _connect, _select_inbox, THREAD and SEARCH: what imaplib raises, and any *)
(* other answer than OK to SELECT and SEARCH, is a 502.  A timeout of the   *)
(* socket is no error of imaplib: 500, and while messages are fetched too.  *)
ImapFails(status) ==
    /\ reader.pc = "connect" \/ (reader.pc = "fetch" /\ status = 500)
    /\ Fault
    /\ Answer(status)
    /\ UNCHANGED <<mail, inbox, idOf, sender, job>>

(* An unreadable ?before= is found when the connection stands already, and  *)
(* is called an outage: 502.                                                *)
BadCriteria ==
    /\ reader.pc = "connect" /\ reader.kind = "list"
    /\ Answer(502)
    /\ UNCHANGED <<mail, inbox, idOf, sender, job, faults>>

(* What is at a place of the mailbox, as the session sees it.               *)
At(view, n) == idOf[view[n]]
Places(view) == {At(view, n) : n \in DOMAIN view}

(* THREAD REFERENCES: a tree of places, roots in the order they arrived.    *)
(* A message with several replies opens a parenthesis for each, and so do   *)
(* several replies to a message that is not there.                          *)
Parent(view, n) ==
    LET older == {k \in 1..(n - 1) : At(view, k) \in RefsOf(At(view, n))} IN
    IF older = {} THEN 0 ELSE CHOOSE k \in older : \A i \in older : i <= k

Children(view, n) == {k \in DOMAIN view : Parent(view, k) = n}

(* The tokens of the response.                                              *)
LPar == <<"(", 0>>
RPar == <<")", 0>>
Num(n) == <<"number", n>>

(* The branches that begin at these places, oldest first.                   *)
Siblings(view, branch, tops) ==
    IF Cardinality(tops) = 1 THEN branch[CHOOSE k \in tops : TRUE]
    ELSE FlattenSeq([k \in DOMAIN view |->
             IF k \in tops THEN <<LPar>> \o branch[k] \o <<RPar>> ELSE <<>>])

Branches(view) ==
    LET branch[k \in DOMAIN view] ==
            <<Num(k)>> \o Siblings(view, branch, Children(view, k)) IN
    branch

(* The places of the thread of place n, and the first place of each thread. *)
Class(view, n) == {k \in DOMAIN view : At(view, k) \in Thread(At(view, n), Places(view))}
Roots(view) == {n \in DOMAIN view : \A k \in Class(view, n) : n <= k}

Group(view, n) ==
    <<LPar>> \o Siblings(view, Branches(view), Class(view, n) \cap Children(view, 0))
             \o <<RPar>>

ThreadResponse(view) ==
    FlattenSeq([n \in DOMAIN view |->
        IF n \in Roots(view) THEN Group(view, n) ELSE <<>>])

(* parse_thread_response: one pass with a depth; inner parentheses are      *)
(* flattened.                                                               *)
ParseStep(acc, token) ==
    CASE token = LPar -> [acc EXCEPT !.depth = @ + 1,
                                    !.thread = IF acc.depth = 0 THEN <<>> ELSE @]
      [] token = RPar -> IF acc.depth = 1
                        THEN [depth |-> 0, thread |-> <<>>,
                              threads |-> Append(acc.threads, acc.thread)]
                        ELSE [acc EXCEPT !.depth = @ - 1]
      [] OTHER -> [acc EXCEPT !.thread = Append(@, token[2])]

(* Mutant: every parenthesis starts a thread.                               *)
ParseThreadResponse_EveryParen(tokens) ==
    FoldLeft(LAMBDA acc, t : IF t = LPar THEN Append(acc, <<>>)
                             ELSE IF t = RPar THEN acc
                             ELSE [acc EXCEPT ![Len(acc)] = Append(@, t[2])],
             <<>>, tokens)

ParseThreadResponse(tokens) ==
    LET run[i \in 0..Len(tokens)] ==
            IF i = 0 THEN [depth |-> 0, thread |-> <<>>, threads |-> <<>>]
            ELSE ParseStep(run[i - 1], tokens[i]) IN
    run[Len(tokens)].threads

FirstOf(s, n) == SubSeq(s, 1, IF Len(s) < n THEN Len(s) ELSE n)

(* The newest roots, at most Limit.                                         *)
AskThreads ==
    /\ reader.pc = "connect" /\ reader.kind = "list"
    /\ reader' = [reader EXCEPT !.pc = "fetch", !.view = inbox,
          !.ids = FirstOf(Reverse(ParseThreadResponse(ThreadResponse(inbox))), Limit)]
    /\ UNCHANGED <<mail, inbox, idOf, sender, job, faults>>

(* The server refuses THREAD: an empty list.                                *)
ThreadRefused ==
    /\ reader.pc = "connect" /\ reader.kind = "list"
    /\ Fault
    /\ reader' = [reader EXCEPT !.pc = "done", !.status = 200, !.view = inbox,
                                !.lost = DOMAIN inbox]
    /\ UNCHANGED <<mail, inbox, idOf, sender, job>>

(* Mutant: the root itself is not asked for.                                *)
Matches_RepliesOnly(root, m) == root \in RefsOf(m)

(* HEADER Message-ID root OR HEADER References root.                        *)
Matches(root, m) == m = root \/ root \in RefsOf(m)

(* UID SEARCH answers UIDs, in no particular order.                         *)
FoundIn(box, root) == {u \in ToSet(box) : Matches(root, idOf[u])}

SearchThread ==
    /\ reader.pc = "connect" /\ reader.kind = "detail"
    /\ LET found == FoundIn(inbox, reader.root) IN
       IF found = {} THEN Answer(404)
       ELSE reader' = [reader EXCEPT !.pc = "fetch", !.view = inbox, !.found = found]
    /\ UNCHANGED <<mail, inbox, idOf, sender, job, faults>>

(* _fetch_message: FETCH takes the number as a place; what is not there, or *)
(* not any more, is skipped, and so is a message whose FETCH the server     *)
(* refuses or breaks off.                                                   *)
FetchMessage(n, lost) ==
    IF n \in DOMAIN reader.view /\ Contains(inbox, reader.view[n]) /\ n \notin lost
    THEN <<At(reader.view, n)>> ELSE <<>>

(* _build_summary: root and latest message are read, the others counted; a  *)
(* thread whose root cannot be read is left out.                            *)
Summary(thread, lost) ==
    LET root == FetchMessage(thread[1], lost)
        latest == FetchMessage(thread[Len(thread)], lost) IN
    IF root = <<>> THEN <<>>
    ELSE <<[root |-> root[1], latest |-> (latest \o root)[1], count |-> Len(thread)]>>

Loses(lost) == IF lost = {} THEN UNCHANGED faults ELSE Fault

(* One more summary ...                                                     *)
ReadThread(lost) ==
    /\ reader.pc = "fetch" /\ reader.ids # <<>>
    /\ lost \subseteq {Head(reader.ids)[1], Head(reader.ids)[Len(Head(reader.ids))]}
    /\ Loses(lost)
    /\ reader' = [reader EXCEPT !.ids = Tail(@), !.got = @ \o Summary(Head(reader.ids), lost),
                                !.lost = @ \cup lost]
    /\ UNCHANGED <<mail, inbox, idOf, sender, job>>

(* ... or one more message of the thread; they are sorted by date later.    *)
ReadMessage(u, lost) ==
    /\ reader.pc = "fetch" /\ u \in reader.found
    /\ lost \subseteq {u}
    /\ Loses(lost)
    /\ reader' = [reader EXCEPT !.found = @ \ {u}, !.got = @ \o FetchMessage(u, lost),
                                !.lost = @ \cup lost]
    /\ UNCHANGED <<mail, inbox, idOf, sender, job>>

(* The server closes the connection: each FETCH that is left raises and is  *)
(* skipped, and the answer is what was read so far.                         *)
BrokenOff ==
    /\ reader.pc = "fetch"
    /\ Fault
    /\ reader' = [reader EXCEPT !.pc = "done", !.status = 200, !.ids = <<>>, !.found = {},
          !.lost = @ \cup reader.found \cup {reader.ids[i][1] : i \in DOMAIN reader.ids}]
    /\ UNCHANGED <<mail, inbox, idOf, sender, job>>

ReadDone ==
    /\ reader.pc = "fetch" /\ reader.ids = <<>> /\ reader.found = {}
    /\ Answer(200)
    /\ UNCHANGED <<mail, inbox, idOf, sender, job, faults>>

----------------------------------------------------------------------------
(* SMTP                                                                     *)

(* The caller's request: 400 for an address without @, 502 for an account   *)
(* that is not configured or an empty body; else a thread begins to send.   *)
SendEmail(j, w, account, valid) ==
    /\ job[j].pc \in {"new", "failed"} /\ sender[w].pc = "idle"
    /\ IF valid /\ account \in Configured
       THEN /\ job' = [job EXCEPT ![j].pc = "waiting", ![j].worker = w]
            /\ sender' = [sender EXCEPT ![w] = [pc |-> "connect", job |-> j, mid |-> None]]
       ELSE /\ job' = [job EXCEPT ![j].pc = "refused"]
            /\ UNCHANGED sender
    /\ UNCHANGED <<mail, inbox, idOf, reader, faults>>

(* The thread is done; its message id reaches the caller that still waits.  *)
Finish(w, pc, mid, unsure) ==
    LET j == sender[w].job IN
    /\ sender' = [sender EXCEPT ![w] = NoSender]
    /\ job' = [job EXCEPT ![j] =
          IF job[j].worker = w
          THEN [pc |-> pc, worker |-> None, answer |-> mid,
                unsure |-> job[j].unsure \cup unsure]
          ELSE [job[j] EXCEPT !.unsure = @ \cup ((unsure \cup {mid}) \ {None})]]

(* Connection, STARTTLS or login fail, or every recipient is refused: 502,  *)
(* and 500 for an error of TLS.                                             *)
ConnectFails(w) ==
    /\ sender[w].pc = "connect"
    /\ Fault
    /\ Finish(w, "failed", None, {})
    /\ UNCHANGED <<mail, inbox, idOf, reader>>

(* _compose: a fresh Message-ID, and References that name the parent only.  *)
(* The server takes the message for those recipients it does not refuse;    *)
(* smtplib says whom it refused, and nobody looks.                          *)
Composed(j, parent, to) ==
    [job |-> j, to |-> to, refs |-> IF parent = None THEN {} ELSE {parent}]

HandOver(w, m, parent, to) ==
    /\ sender[w].pc = "connect"
    /\ mail[m] = None
    /\ parent # None => parent \in Known
    /\ to # {}
    /\ IF to = Recipients THEN UNCHANGED faults ELSE Fault
    /\ mail' = [mail EXCEPT ![m] = Composed(sender[w].job, parent, to)]
    /\ sender' = [sender EXCEPT ![w].pc = "sent", ![w].mid = m]
    /\ UNCHANGED <<inbox, idOf, reader, job>>

(* The server took the message, and its answer is lost: 502.                *)
ReplyLost(w) ==
    /\ sender[w].pc = "sent"
    /\ Fault
    /\ Finish(w, "failed", None, {sender[w].mid})
    /\ UNCHANGED <<mail, inbox, idOf, reader>>

(* Mutant: an error of QUIT is not swallowed.                               *)
Quit_Raises(w) == Finish(w, "failed", None, {})

(* The answer of QUIT does not matter; 202.                                 *)
Quit(w) == Finish(w, "sent", sender[w].mid, {})

Handed(w) ==
    /\ sender[w].pc = "sent"
    /\ Quit(w)
    /\ UNCHANGED <<mail, inbox, idOf, reader, faults>>

(* The caller's timeout; the thread is not cancelled.                       *)
LosePatience(j) ==
    /\ job[j].pc = "waiting"
    /\ Fault
    /\ job' = [job EXCEPT ![j].pc = "failed", ![j].worker = None]
    /\ UNCHANGED <<mail, inbox, idOf, reader, sender>>

Next ==
    \/ \E m \in Mids : ReceiveOwn(m) \/ \E parent \in Mids \cup {None} : ReceiveMail(m, parent)
    \/ ReceiveNameless
    \/ \E n \in 1..MaxUids : Expunge(n)
    \/ \E a \in Accounts :
          \/ ListThreads(a)
          \/ \E m \in Mids \cup {NoId} : GetThread(a, m)
          \/ \E j \in Jobs, w \in Workers, valid \in BOOLEAN : SendEmail(j, w, a, valid)
    \/ \E status \in {500, 502} : ImapFails(status)
    \/ BadCriteria \/ AskThreads \/ ThreadRefused \/ SearchThread \/ BrokenOff \/ ReadDone
    \/ \E lost \in SUBSET (1..MaxUids) :
          ReadThread(lost) \/ \E u \in 1..MaxUids : ReadMessage(u, lost)
    \/ \E w \in Workers :
          \/ ConnectFails(w) \/ ReplyLost(w) \/ Handed(w)
          \/ \E m \in Mids, parent \in Mids \cup {None}, to \in SUBSET Recipients :
                HandOver(w, m, parent, to)
    \/ \E j \in Jobs : LosePatience(j)

Spec == Init /\ [][Next]_vars

----------------------------------------------------------------------------
(* Properties                                                               *)

(* Every variable keeps its type, and every bounded counter its bound.      *)
TypeOK ==
    /\ mail \in [Mids -> Messages \cup {None}]
    /\ idOf \in Seq(Mids \cup {NoId}) /\ Len(idOf) <= MaxUids
    /\ inbox \in Seq(DOMAIN idOf)
    /\ reader.pc \in {"idle", "connect", "fetch", "done"}
    /\ reader.status \in {None, 200, 400, 404, 500, 502}
    /\ sender \in [Workers -> [pc : {"idle", "connect", "sent"},
                               job : Jobs \cup {None}, mid : Mids \cup {None}]]
    /\ job \in [Jobs -> [pc : {"new", "waiting", "failed", "refused", "sent"},
                         worker : Workers \cup {None}, answer : Mids \cup {None},
                         unsure : SUBSET Mids]]
    /\ faults \in 0..MaxFaults

Got == {reader.got[i] : i \in DOMAIN reader.got}
Missed(n) == ~Contains(inbox, reader.view[n]) \/ n \in reader.lost
Answered(kind) == reader.pc = "done" /\ reader.kind = kind /\ reader.status = 200

(* The list tells the truth about the mailbox it read: it shows the threads *)
(* with the newest roots, each once, with its number of messages - however  *)
(* the tree branched - and leaves out only one whose root was deleted while *)
(* it read, or was not read because the server refused or broke off: what   *)
(* else was read is still in its place.                                     *)
ListIsFaithful ==
    Answered("list") =>
        LET view == reader.view
            newest == {n \in Roots(view) :
                         Cardinality({k \in Roots(view) : k > n}) < Limit} IN
        /\ \A s \in Got : \E n \in newest :
              s.root = At(view, n) /\ s.count = Cardinality(Class(view, n))
        /\ \A n \in newest : Missed(n) \/ \E s \in Got : s.root = At(view, n)
        /\ Cardinality(Got) = Len(reader.got)

(* As long as nothing was ever deleted from the mailbox, so that place and  *)
(* UID are the same, the detail of a thread has the root and every message  *)
(* that names it, and nothing else - but for messages that were deleted, or *)
(* whose FETCH failed.                                                      *)
DetailIsThread ==
    Answered("detail") /\ (\A n \in DOMAIN reader.view : reader.view[n] = n) =>
        LET members == {n \in DOMAIN reader.view :
                          reader.root \in {At(reader.view, n)} \cup RefsOf(At(reader.view, n))} IN
        /\ Got \subseteq {At(reader.view, n) : n \in members}
        /\ \A n \in members : Missed(n) \/ At(reader.view, n) \in Got

(* Every copy that left is one its caller knows of, by the Message-ID of    *)
(* the 202, unless the server's answer was lost or the caller had stopped   *)
(* waiting: only then may a repeated call send the message twice.           *)
CopiesAreConfirmed ==
    \A m \in Known :
        LET j == mail[m].job IN
        j # None =>
            \/ m = job[j].answer \/ m \in job[j].unsure
            \/ \E w \in Workers : sender[w].mid = m

(* Stated by docs/api-contract.md: get_thread searches by Message-ID and    *)
(* References, so that each message of the answer names the root.  The UIDs *)
(* that were found are read as places: once a message was deleted, others   *)
(* are read.                                                                *)
DetailBelongs ==
    Answered("detail") => \A m \in Got : Matches(reader.root, m)
=============================================================================
