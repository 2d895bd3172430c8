----------------------- MODULE DraftDispatchInvariant -----------------------
(***************************************************************************)
(* The inductive invariant behind the safety properties of DraftDispatch.   *)
(* A message id is "waiting" while its job is in the Redis list or in the   *)
(* answer to the long poll.  The invariant counts: the copies of a job that *)
(* wait, the one the relay is about to send, and the messages that left are *)
(* together no more than the times Redis ran its RPUSH.  Where that is at   *)
(* most once, nothing has happened yet to a waiting id, and all reports of  *)
(* an id agree.                                                             *)
(***************************************************************************)
EXTENDS DraftDispatch, FiniteSets

Enqueuing(p) == patch[p].pc = "enqueue"
Answered == poll.pc = "answered"
Holding == relay.pc \in {"sending", "posting", "awaiting"}
Reporting == relay.pc \in {"posting", "awaiting"}

(* Every job in transit is the job its id was minted for.                   *)
JobsAreIssued ==
    /\ \A p \in Patchers : Enqueuing(p) =>
          patch[p].job \in Jobs /\ issued[patch[p].job.mid] = patch[p].job
    /\ \A i \in 1..Len(queue) : issued[queue[i].mid] = queue[i]
    /\ Answered => poll.job \in Jobs /\ issued[poll.job.mid] = poll.job
    /\ Holding => relay.job \in Jobs /\ issued[relay.job.mid] = relay.job
    /\ \A m \in Mids : pushes[m] > 0 => issued[m] # None

(* A report handler or the bus knows the id; or the relay or Messages does. *)
Reported(m) ==
    \/ \E h \in posts : h.mid = m
    \/ \E ok \in BOOLEAN : <<m, ok>> \in outcomes

Touched(m) ==
    \/ Holding /\ relay.job.mid = m
    \/ Reported(m)
    \/ delivered[m] > 0

Waiting(m) ==
    \/ \E i \in 1..Len(queue) : queue[i].mid = m
    \/ Answered /\ poll.job.mid = m

(* No id is beyond its handler before it was queued, and no id is queued    *)
(* again unless a reply was lost.                                           *)
QueuedFirst ==
    /\ \A m \in Mids : Waiting(m) \/ Touched(m) => pushes[m] > 0
    /\ \A m \in Mids : m \notin unanswered => Single(m)
    /\ \A p \in Patchers : Enqueuing(p) /\ pushes[patch[p].job.mid] > 0 =>
          patch[p].job.mid \in unanswered
    /\ \A p, q \in Patchers : Enqueuing(p) /\ Enqueuing(q) /\ p # q =>
          patch[p].job.mid # patch[q].job.mid

(* The copies of m's job in the list, in the answer, and in the relay's     *)
(* hands before Messages has it.                                            *)
InList(m) == {i \in 1..Len(queue) : queue[i].mid = m}
InAnswer(m) == IF Answered /\ poll.job.mid = m THEN 1 ELSE 0
InSending(m) == IF relay.pc = "sending" /\ relay.job.mid = m THEN 1 ELSE 0

CopiesAreCounted ==
    \A m \in Mids :
        delivered[m] + InSending(m) + InAnswer(m) + Cardinality(InList(m)) <= pushes[m]

(* Nothing has happened to a waiting id, and nothing was told of the id     *)
(* that is being sent.                                                      *)
WaitingIsUntouched ==
    /\ \A m \in Mids : Waiting(m) /\ Single(m) => ~Touched(m)
    /\ relay.pc = "sending" /\ Single(relay.job.mid) => ~Reported(relay.job.mid)

(* The relay's verdict, its reports and the events tell the same story of   *)
(* an id, and a success is told only of a delivered message.                *)
ReportsAgree ==
    /\ Reporting =>
          /\ \A h \in posts : h.mid = relay.job.mid /\ Single(h.mid) => h.ok = relay.ok
          /\ \A ok \in BOOLEAN :
                <<relay.job.mid, ok>> \in outcomes /\ Single(relay.job.mid) => ok = relay.ok
          /\ relay.ok => delivered[relay.job.mid] > 0
          /\ relay.attempt >= 1
    /\ \A h, k \in posts : h.mid = k.mid /\ Single(h.mid) => h.ok = k.ok
    /\ \A h \in posts, ok \in BOOLEAN :
          <<h.mid, ok>> \in outcomes /\ Single(h.mid) => h.ok = ok
    /\ \A h \in posts : h.ok => delivered[h.mid] > 0
    /\ \A h \in posts : h.pc = "correlate" => <<h.mid, h.ok>> \in outcomes
    /\ \A m \in Mids : <<m, TRUE>> \in outcomes => delivered[m] > 0

(* A row's dispatch id was minted for it, and its status is what was        *)
(* reported under that id.                                                  *)
RowMatches(d) ==
    /\ rows[d].status \in {"approved", "sent", "send_failed"} =>
          rows[d].dispatch # None
    /\ rows[d].status \in {None, "pending"} => rows[d].dispatch = None
    /\ rows[d].status # None => rows[d].body \in Bodies
    /\ rows[d].dispatch # None =>
          /\ issued[rows[d].dispatch] # None
          /\ issued[rows[d].dispatch].draft = d
    /\ rows[d].status = "sent" => <<rows[d].dispatch, TRUE>> \in outcomes
    /\ rows[d].status = "send_failed" => <<rows[d].dispatch, FALSE>> \in outcomes

RowsMatchDispatches == \A d \in Drafts : RowMatches(d)

(* An id minted for a draft belongs to a draft that was approved.           *)
GrantsNeedApproval ==
    /\ \A m \in Mids : issued[m] # None => issued[m].mid = m
    /\ \A d \in Drafts, m \in Mids :
          rows[d].dispatch = None /\ issued[m] # None => issued[m].draft # d

(* What TypeOK leaves out about the places of jobs.                         *)
PollMatchesRelay == poll.pc # "none" <=> relay.pc = "polling"

(* The job or the verdict of id m is on its way, or was lost by name.       *)
Underway(m) ==
    \/ m \in Unqueued
    \/ Waiting(m)
    \/ Holding /\ relay.job.mid = m
    \/ m \in lost

(* An approved row's dispatch is underway.  This is stronger than           *)
(* ApprovedIsAccountedFor: a report handler whose relay no longer waits for *)
(* its answer does not count.                                               *)
ApprovedIsUnderway ==
    \A d \in Drafts : rows[d].status = "approved" => Underway(rows[d].dispatch)

(* The inductive invariant: it holds at the start, every step keeps it, and *)
(* the safety properties of DraftDispatch follow from it.                   *)
IInv ==
    /\ TypeOK
    /\ JobsAreIssued
    /\ QueuedFirst
    /\ CopiesAreCounted
    /\ WaitingIsUntouched
    /\ ReportsAgree
    /\ OutcomesAgree
    /\ RowsMatchDispatches
    /\ GrantsNeedApproval
    /\ PollMatchesRelay
    /\ ApprovedBodyIsDispatched
    /\ ApprovedIsUnderway
=============================================================================
