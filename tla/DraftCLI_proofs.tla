---------------------------- MODULE DraftCLI_proofs ----------------------------
(***************************************************************************)
(* What is proved of DraftDispatch and of DraftCLI in front of it, for all  *)
(* values of their constants.                                               *)
(*                                                                          *)
(* Part 1, DraftDispatch: the inductive invariant, the safety and action    *)
(* properties that follow from it, and that the system implements           *)
(* DraftLifecycle.  First, every action keeps every part of the invariant:  *)
(* one lemma per part, in it one step per action that changes a variable    *)
(* the part speaks of, and one step for all the others, which the lemma     *)
(* Frames tells apart.                                                      *)
(*                                                                          *)
(* Part 2, DraftCLI, for any operators, drafts, message ids, handlers and   *)
(* faults: its steps are steps of DraftDispatch, so that every theorem of   *)
(* part 1 holds under its commands too; a command queues what it says; its  *)
(* exit code is true; and what it releases is what was shown.               *)
(***************************************************************************)
EXTENDS DraftCLI, DraftDispatchInvariant, FunctionTheorems, FiniteSetTheorems, TLAPS

USE DEF bridgeVars, relayVars, redisVars, pushHistory, history

(* What the invariant says of the job a suspended handler holds.            *)
LEMMA EnqueuedJob ==
    ASSUME TypeOK, JobsAreIssued, NEW p \in Patchers, patch[p].pc = "enqueue"
    PROVE  patch[p].job \in Jobs /\ patch[p].job.mid \in Mids
  BY DEF JobsAreIssued, Enqueuing, Jobs

(* What an RPUSH does to the list and to the count of its id.               *)
LEMMA PushedJob ==
    ASSUME TypeOK, JobsAreIssued, NEW p \in Patchers, RunPush(p)
    PROVE  /\ patch[p].job \in Jobs /\ patch[p].job.mid \in Mids
           /\ queue' = Append(queue, patch[p].job) /\ queue' \in Seq(Jobs)
           /\ Len(queue) \in Nat /\ Len(queue') = Len(queue) + 1
           /\ \A i \in 1..Len(queue) : queue'[i] = queue[i]
           /\ queue'[Len(queue) + 1] = patch[p].job
           /\ pushes' \in [Mids -> 0..RedisTries]
           /\ pushes'[patch[p].job.mid] = pushes[patch[p].job.mid] + 1
           /\ \A m \in Mids : m # patch[p].job.mid => pushes'[m] = pushes[m]
  <1>1. patch[p].job \in Jobs /\ patch[p].job.mid \in Mids
    BY EnqueuedJob DEF RunPush
  <1>2. queue \in Seq(Jobs) /\ queue' = Append(queue, patch[p].job)
    BY DEF RunPush, TypeOK
  <1>3. /\ queue' \in Seq(Jobs) /\ Len(queue) \in Nat /\ Len(queue') = Len(queue) + 1
        /\ \A i \in 1..Len(queue) : queue'[i] = queue[i]
        /\ queue'[Len(queue) + 1] = patch[p].job
    BY <1>1, <1>2
  <1>4. /\ pushes' = [pushes EXCEPT ![patch[p].job.mid] = pushes[patch[p].job.mid] + 1]
        /\ pushes[patch[p].job.mid] \in 0..RedisTries
        /\ pushes[patch[p].job.mid] < RedisTries
    BY <1>1 DEF RunPush, TypeOK
  <1>5. pushes[patch[p].job.mid] + 1 \in 0..RedisTries
    BY <1>4, ConstantsAssumption
  <1>. QED BY <1>1, <1>2, <1>3, <1>4, <1>5 DEF TypeOK

(* ... and of the job the relay holds.                                      *)
LEMMA JobInHand ==
    ASSUME TypeOK, JobsAreIssued, relay.pc \in {"sending", "posting", "awaiting"}
    PROVE  relay.job \in Jobs /\ relay.job.mid \in Mids
  BY DEF JobsAreIssued, Holding, Jobs

(* ... and of the job in the answer to the long poll.                       *)
LEMMA JobInReply ==
    ASSUME TypeOK, JobsAreIssued, poll.pc = "answered"
    PROVE  poll.job \in Jobs /\ poll.job.mid \in Mids
  BY DEF JobsAreIssued, Answered, Jobs

(* What the type invariant says of the queue and of its head.               *)
LEMMA QueuedJobs ==
    ASSUME TypeOK
    PROVE  \A i \in 1..Len(queue) : queue[i] \in Jobs /\ queue[i].mid \in Mids
  <1>1. \A i \in 1..Len(queue) : queue[i] \in Jobs
    BY DEF TypeOK
  <1>. QED BY <1>1 DEF Jobs

(* Serving the head leaves the rest of the queue in its order.              *)
LEMMA HeadJob ==
    ASSUME TypeOK, queue # <<>>
    PROVE  /\ Head(queue) \in Jobs /\ Head(queue).mid \in Mids
           /\ Head(queue) = queue[1] /\ Len(queue) \in Nat \ {0}
           /\ Tail(queue) \in Seq(Jobs)
           /\ Len(Tail(queue)) = Len(queue) - 1
           /\ \A i \in 1..Len(Tail(queue)) :
                 i + 1 \in 1..Len(queue) /\ Tail(queue)[i] = queue[i + 1]
  <1>1. queue \in Seq(Jobs)
    BY DEF TypeOK
  <1>2. /\ Head(queue) \in Jobs
        /\ Head(queue) = queue[1] /\ Len(queue) \in Nat \ {0}
        /\ Tail(queue) \in Seq(Jobs)
        /\ Len(Tail(queue)) = Len(queue) - 1
    BY <1>1
  <1>3. \A i \in 1..Len(Tail(queue)) :
           i + 1 \in 1..Len(queue) /\ Tail(queue)[i] = queue[i + 1]
    BY <1>1, <1>2
  <1>. QED BY <1>2, <1>3 DEF Jobs

(* The states the thread is reset to are well typed, ...                    *)
LEMMA IdleTypes ==
    /\ IdleRelay \in Relays
    /\ [IdleRelay EXCEPT !.pc = "dead"] \in Relays
    /\ [IdleRelay EXCEPT !.pc = "down"] \in Relays
  <1>1. 0 \in 0..MaxAttempts
    BY ConstantsAssumption
  <1>2. IdleRelay \in Relays
    BY <1>1 DEF IdleRelay, Relays
  <1>. QED BY <1>2 DEF Relays

(* ... so is the count of faults, ...                                       *)
LEMMA FaultType ==
    ASSUME TypeOK, NEW kind, Fault(kind)
    PROVE  faults' \in 0..MaxFaults
  BY ConstantsAssumption DEF TypeOK, Fault

(* ... the next attempt of a report, ...                                    *)
LEMMA NextAttemptType ==
    ASSUME TypeOK, JobsAreIssued, ReportsAgree, Reporting
    PROVE  NextAttempt \in Relays /\ GaveUp \subseteq Mids
  <1>1. relay.job.mid \in Mids /\ relay.attempt \in 1..MaxAttempts
    BY JobInHand, ConstantsAssumption DEF TypeOK, Relays, Reporting, ReportsAgree
  <1>2. CASE relay.attempt < MaxAttempts
    <2>1. relay.attempt + 1 \in 0..MaxAttempts
      BY <1>1, <1>2, ConstantsAssumption
    <2>2. [relay EXCEPT !.pc = "posting", !.attempt = relay.attempt + 1] \in Relays
      BY <2>1 DEF TypeOK, Relays
    <2>. QED BY <1>1, <1>2, <2>2 DEF NextAttempt, GaveUp
  <1>3. CASE ~(relay.attempt < MaxAttempts)
    BY <1>1, <1>3, IdleTypes DEF NextAttempt, GaveUp
  <1>. QED BY <1>2, <1>3

(* ... and what a transport error leaves.                                   *)
LEMMA AfterTransportErrorType ==
    ASSUME TypeOK, JobsAreIssued, ReportsAgree
    PROVE  /\ AfterTransportError \in Relays
           /\ LostByTransportError \subseteq Mids
           /\ InReply \subseteq Mids /\ InHand \subseteq Mids
  <1>1. InReply \subseteq Mids /\ InHand \subseteq Mids
    BY JobInReply, JobInHand DEF InReply, InHand
  <1>2. CASE relay.pc = "awaiting"
    BY <1>1, <1>2, NextAttemptType DEF AfterTransportError, LostByTransportError, Reporting
  <1>3. CASE relay.pc # "awaiting"
    BY <1>1, <1>3, IdleTypes DEF AfterTransportError, LostByTransportError, TypeOK
  <1>. QED BY <1>2, <1>3


(* The thread after a failed attempt is idle, or reports the same verdict. *)
LEMMA NextAttemptFields ==
    ASSUME TypeOK
    PROVE  \/ NextAttempt.pc = "idle"
           \/ /\ NextAttempt.pc = "posting"
              /\ NextAttempt.job = relay.job /\ NextAttempt.ok = relay.ok
              /\ NextAttempt.attempt = relay.attempt + 1
  <1>1. relay = [pc |-> relay.pc, job |-> relay.job, ok |-> relay.ok,
                 attempt |-> relay.attempt]
    BY DEF TypeOK, Relays
  <1>2. CASE relay.attempt < MaxAttempts
    <2>1. NextAttempt = [relay EXCEPT !.pc = "posting", !.attempt = relay.attempt + 1]
      BY <1>2 DEF NextAttempt
    <2>. QED BY <1>1, <2>1
  <1>3. CASE ~(relay.attempt < MaxAttempts)
    BY <1>3 DEF NextAttempt, IdleRelay
  <1>. QED BY <1>2, <1>3


(* The same of the thread after a transport error. *)
LEMMA AfterTransportErrorFields ==
    ASSUME TypeOK
    PROVE  \/ AfterTransportError.pc \in {"idle", "down", "dead"}
           \/ AfterTransportError = relay /\ relay.pc \in {"sending", "posting"}
           \/ /\ relay.pc = "awaiting"
              /\ AfterTransportError.pc = "posting"
              /\ AfterTransportError.job = relay.job
              /\ AfterTransportError.ok = relay.ok
              /\ AfterTransportError.attempt = relay.attempt + 1
  <1>1. CASE relay.pc = "awaiting"
    BY <1>1, NextAttemptFields DEF AfterTransportError
  <1>2. CASE relay.pc = "polling"
    BY <1>2 DEF AfterTransportError, IdleRelay
  <1>3. CASE relay.pc \notin {"awaiting", "polling"}
    <2>1. AfterTransportError = relay
      BY <1>3 DEF AfterTransportError
    <2>. QED BY <1>3, <2>1 DEF TypeOK, Relays
  <1>. QED BY <1>1, <1>2, <1>3

(* The job an accepted PATCH mints. *)
LEMMA PatchedJob ==
    ASSUME TypeOK, RowsMatchDispatches, NEW d \in Drafts, NEW st,
           NEW b \in Bodies \cup {None}, NEW m \in Mids, PatchAccepted(d, st, b)
    PROVE  /\ PatchedBody(d, b) \in Bodies
           /\ DispatchJob(d, b, m) \in Jobs
           /\ DispatchJob(d, b, m).mid = m
           /\ DispatchJob(d, b, m).draft = d
           /\ DispatchJob(d, b, m).body = PatchedBody(d, b)
           /\ DispatchJob(d, b, m) # None
  <1>1. PatchedBody(d, b) \in Bodies
    BY DEF PatchAccepted, RowsMatchDispatches, RowMatches, PatchedBody, TypeOK
  <1>2. DispatchJob(d, b, m) \in Jobs
    BY <1>1 DEF DispatchJob, Jobs
  <1>. QED BY <1>1, <1>2, ConstantsAssumption DEF DispatchJob

(* The variables each action leaves alone. *)
LEMMA Frames ==
    /\ UNCHANGED vars => UNCHANGED <<rows, patch, redisUp, queue, bridgeUp,
          poll, orphans, relay, posts, issued, pushes, unanswered, delivered,
          outcomes, lost>>
    /\ \A d \in Drafts, b \in Bodies : CreateDraft(d, b) => UNCHANGED
          <<patch, redisUp, queue, bridgeUp, poll, orphans, relay, posts,
          issued, pushes, unanswered, delivered, outcomes, lost>>
    /\ \A d \in Drafts, st \in Statuses \cup {None}, b \in Bodies \cup
          {None} : PatchRow(d, st, b) => UNCHANGED <<patch, redisUp, queue,
          bridgeUp, poll, orphans, relay, posts, issued, pushes, unanswered,
          delivered, outcomes, lost>>
    /\ \A p \in Patchers, d \in Drafts, st \in Statuses \cup {None}, b \in
          Bodies \cup {None}, m \in Mids : PatchApprove(p, d, st, b, m) =>
          UNCHANGED <<redisUp, queue, bridgeUp, poll, orphans, relay, posts,
          pushes, unanswered, delivered, outcomes, lost>>
    /\ \A p \in Patchers, m \in Mids, b \in Bodies : DirectSend(p, m, b) =>
          UNCHANGED <<rows, redisUp, queue, bridgeUp, poll, orphans, relay,
          posts, pushes, unanswered, delivered, outcomes, lost>>
    /\ \A p \in Patchers : EnqueueDispatch(p) => UNCHANGED <<rows, redisUp,
          bridgeUp, poll, orphans, relay, posts, issued, unanswered,
          delivered, outcomes, lost>>
    /\ \A p \in Patchers : EnqueueUnanswered(p) => UNCHANGED <<rows, patch,
          redisUp, bridgeUp, poll, orphans, relay, posts, issued, delivered,
          outcomes, lost>>
    /\ \A p \in Patchers : EnqueueRefused(p) => UNCHANGED <<rows, redisUp,
          queue, bridgeUp, poll, orphans, relay, posts, issued, pushes,
          unanswered, delivered, outcomes>>
    /\ \A p \in Patchers : AnnounceApproved(p) => UNCHANGED <<rows,
          redisUp, queue, bridgeUp, poll, orphans, relay, posts, issued,
          pushes, unanswered, delivered, outcomes, lost>>
    /\ \A h \in posts : PublishOutcome(h) => UNCHANGED <<rows, patch,
          redisUp, queue, bridgeUp, poll, orphans, relay, issued, pushes,
          unanswered, delivered, lost>>
    /\ \A h \in posts : PublishFails(h) => UNCHANGED <<rows, patch,
          redisUp, queue, bridgeUp, poll, orphans, issued, pushes, unanswered,
          delivered>>
    /\ \A h \in posts : Correlate(h) => UNCHANGED <<patch, redisUp, queue,
          bridgeUp, poll, orphans, issued, pushes, unanswered, delivered,
          outcomes, lost>>
    /\ \A h \in posts : CorrelationFails(h) => UNCHANGED <<rows, patch,
          redisUp, queue, bridgeUp, poll, orphans, issued, pushes, unanswered,
          delivered, outcomes>>
    /\ ServeOrphan => UNCHANGED <<rows, patch, redisUp, bridgeUp, poll,
          relay, posts, issued, pushes, unanswered, delivered, outcomes>>
    /\ ServeUnanswered => UNCHANGED <<rows, patch, redisUp, bridgeUp, poll,
          orphans, relay, posts, issued, pushes, unanswered, delivered,
          outcomes>>
    /\ ServePoll => UNCHANGED <<rows, patch, redisUp, bridgeUp, orphans,
          relay, posts, issued, pushes, unanswered, delivered, outcomes,
          lost>>
    /\ PollEmpty => UNCHANGED <<rows, patch, redisUp, queue, bridgeUp,
          orphans, posts, issued, pushes, unanswered, delivered, outcomes,
          lost>>
    /\ OrphanEmpty => UNCHANGED <<rows, patch, redisUp, queue, bridgeUp,
          poll, relay, posts, issued, pushes, unanswered, delivered, outcomes,
          lost>>
    /\ RelayPoll => UNCHANGED <<rows, patch, redisUp, queue, bridgeUp,
          orphans, posts, issued, pushes, unanswered, delivered, outcomes,
          lost>>
    /\ RelayReceive => UNCHANGED <<rows, patch, redisUp, queue, bridgeUp,
          orphans, posts, issued, pushes, unanswered, delivered, outcomes,
          lost>>
    /\ DropMalformed => UNCHANGED <<rows, patch, redisUp, queue, bridgeUp,
          poll, orphans, posts, issued, pushes, unanswered, delivered,
          outcomes>>
    /\ \A sent \in BOOLEAN, ok \in BOOLEAN : SendIMessage(sent, ok) =>
          UNCHANGED <<rows, patch, redisUp, queue, bridgeUp, poll, orphans,
          posts, issued, pushes, unanswered, outcomes, lost>>
    /\ PostSent => UNCHANGED <<rows, patch, redisUp, queue, bridgeUp, poll,
          orphans, issued, pushes, unanswered, delivered, outcomes, lost>>
    /\ PostRefused => UNCHANGED <<rows, patch, redisUp, queue, bridgeUp,
          poll, orphans, posts, issued, pushes, unanswered, delivered,
          outcomes>>
    /\ ConnectionLost => UNCHANGED <<rows, patch, redisUp, queue, bridgeUp,
          posts, issued, pushes, unanswered, delivered, outcomes>>
    /\ ThreadDies => UNCHANGED <<rows, patch, redisUp, queue, bridgeUp,
          posts, issued, pushes, unanswered, delivered, outcomes>>
    /\ RelayCrash => UNCHANGED <<rows, patch, redisUp, queue, bridgeUp,
          posts, issued, pushes, unanswered, delivered, outcomes>>
    /\ BridgeCrash => UNCHANGED <<rows, redisUp, queue, issued, pushes,
          unanswered, delivered, outcomes>>
    /\ RedisCrash => UNCHANGED <<rows, patch, bridgeUp, poll, orphans,
          relay, posts, issued, pushes, unanswered, delivered, outcomes>>
    /\ RelayStart => UNCHANGED <<rows, patch, redisUp, queue, bridgeUp,
          poll, orphans, posts, issued, pushes, unanswered, delivered,
          outcomes, lost>>
    /\ BridgeStart => UNCHANGED <<rows, patch, redisUp, queue, poll,
          orphans, relay, posts, issued, pushes, unanswered, delivered,
          outcomes, lost>>
    /\ RedisStart => UNCHANGED <<rows, patch, queue, bridgeUp, poll,
          orphans, relay, posts, issued, pushes, unanswered, delivered,
          outcomes, lost>>
  <1>1. UNCHANGED vars => UNCHANGED <<rows, patch, redisUp, queue, bridgeUp,
          poll, orphans, relay, posts, issued, pushes, unanswered, delivered,
          outcomes, lost>>
    BY DEF vars
  <1>2. \A d \in Drafts, b \in Bodies : CreateDraft(d, b) => UNCHANGED
          <<patch, redisUp, queue, bridgeUp, poll, orphans, relay, posts,
          issued, pushes, unanswered, delivered, outcomes, lost>>
    BY DEF CreateDraft
  <1>3. \A d \in Drafts, st \in Statuses \cup {None}, b \in Bodies \cup
          {None} : PatchRow(d, st, b) => UNCHANGED <<patch, redisUp, queue,
          bridgeUp, poll, orphans, relay, posts, issued, pushes, unanswered,
          delivered, outcomes, lost>>
    BY DEF PatchRow
  <1>4. \A p \in Patchers, d \in Drafts, st \in Statuses \cup {None}, b \in
          Bodies \cup {None}, m \in Mids : PatchApprove(p, d, st, b, m) =>
          UNCHANGED <<redisUp, queue, bridgeUp, poll, orphans, relay, posts,
          pushes, unanswered, delivered, outcomes, lost>>
    BY DEF PatchApprove
  <1>5. \A p \in Patchers, m \in Mids, b \in Bodies : DirectSend(p, m, b) =>
          UNCHANGED <<rows, redisUp, queue, bridgeUp, poll, orphans, relay,
          posts, pushes, unanswered, delivered, outcomes, lost>>
    BY DEF DirectSend
  <1>6. \A p \in Patchers : EnqueueDispatch(p) => UNCHANGED <<rows, redisUp,
          bridgeUp, poll, orphans, relay, posts, issued, unanswered,
          delivered, outcomes, lost>>
    BY DEF EnqueueDispatch, RunPush
  <1>7. \A p \in Patchers : EnqueueUnanswered(p) => UNCHANGED <<rows, patch,
          redisUp, bridgeUp, poll, orphans, relay, posts, issued, delivered,
          outcomes, lost>>
    BY DEF EnqueueUnanswered, RunPush
  <1>8. \A p \in Patchers : EnqueueRefused(p) => UNCHANGED <<rows, redisUp,
          queue, bridgeUp, poll, orphans, relay, posts, issued, pushes,
          unanswered, delivered, outcomes>>
    BY DEF EnqueueRefused
  <1>9. \A p \in Patchers : AnnounceApproved(p) => UNCHANGED <<rows,
          redisUp, queue, bridgeUp, poll, orphans, relay, posts, issued,
          pushes, unanswered, delivered, outcomes, lost>>
    BY DEF AnnounceApproved
  <1>10. \A h \in posts : PublishOutcome(h) => UNCHANGED <<rows, patch,
          redisUp, queue, bridgeUp, poll, orphans, relay, issued, pushes,
          unanswered, delivered, lost>>
    BY DEF PublishOutcome
  <1>11. \A h \in posts : PublishFails(h) => UNCHANGED <<rows, patch,
          redisUp, queue, bridgeUp, poll, orphans, issued, pushes, unanswered,
          delivered>>
    BY DEF PublishFails
  <1>12. \A h \in posts : Correlate(h) => UNCHANGED <<patch, redisUp, queue,
          bridgeUp, poll, orphans, issued, pushes, unanswered, delivered,
          outcomes, lost>>
    BY DEF Correlate
  <1>13. \A h \in posts : CorrelationFails(h) => UNCHANGED <<rows, patch,
          redisUp, queue, bridgeUp, poll, orphans, issued, pushes, unanswered,
          delivered, outcomes>>
    BY DEF CorrelationFails
  <1>14. ServeOrphan => UNCHANGED <<rows, patch, redisUp, bridgeUp, poll,
          relay, posts, issued, pushes, unanswered, delivered, outcomes>>
    BY DEF ServeOrphan
  <1>15. ServeUnanswered => UNCHANGED <<rows, patch, redisUp, bridgeUp, poll,
          orphans, relay, posts, issued, pushes, unanswered, delivered,
          outcomes>>
    BY DEF ServeUnanswered
  <1>16. ServePoll => UNCHANGED <<rows, patch, redisUp, bridgeUp, orphans,
          relay, posts, issued, pushes, unanswered, delivered, outcomes,
          lost>>
    BY DEF ServePoll
  <1>17. PollEmpty => UNCHANGED <<rows, patch, redisUp, queue, bridgeUp,
          orphans, posts, issued, pushes, unanswered, delivered, outcomes,
          lost>>
    BY DEF PollEmpty
  <1>18. OrphanEmpty => UNCHANGED <<rows, patch, redisUp, queue, bridgeUp,
          poll, relay, posts, issued, pushes, unanswered, delivered, outcomes,
          lost>>
    BY DEF OrphanEmpty
  <1>19. RelayPoll => UNCHANGED <<rows, patch, redisUp, queue, bridgeUp,
          orphans, posts, issued, pushes, unanswered, delivered, outcomes,
          lost>>
    BY DEF RelayPoll
  <1>20. RelayReceive => UNCHANGED <<rows, patch, redisUp, queue, bridgeUp,
          orphans, posts, issued, pushes, unanswered, delivered, outcomes,
          lost>>
    BY DEF RelayReceive
  <1>21. DropMalformed => UNCHANGED <<rows, patch, redisUp, queue, bridgeUp,
          poll, orphans, posts, issued, pushes, unanswered, delivered,
          outcomes>>
    BY DEF DropMalformed
  <1>22. \A sent \in BOOLEAN, ok \in BOOLEAN : SendIMessage(sent, ok) =>
          UNCHANGED <<rows, patch, redisUp, queue, bridgeUp, poll, orphans,
          posts, issued, pushes, unanswered, outcomes, lost>>
    BY DEF SendIMessage
  <1>23. PostSent => UNCHANGED <<rows, patch, redisUp, queue, bridgeUp, poll,
          orphans, issued, pushes, unanswered, delivered, outcomes, lost>>
    BY DEF PostSent
  <1>24. PostRefused => UNCHANGED <<rows, patch, redisUp, queue, bridgeUp,
          poll, orphans, posts, issued, pushes, unanswered, delivered,
          outcomes>>
    BY DEF PostRefused
  <1>25. ConnectionLost => UNCHANGED <<rows, patch, redisUp, queue, bridgeUp,
          posts, issued, pushes, unanswered, delivered, outcomes>>
    BY DEF ConnectionLost
  <1>26. ThreadDies => UNCHANGED <<rows, patch, redisUp, queue, bridgeUp,
          posts, issued, pushes, unanswered, delivered, outcomes>>
    BY DEF ThreadDies
  <1>27. RelayCrash => UNCHANGED <<rows, patch, redisUp, queue, bridgeUp,
          posts, issued, pushes, unanswered, delivered, outcomes>>
    BY DEF RelayCrash
  <1>28. BridgeCrash => UNCHANGED <<rows, redisUp, queue, issued, pushes,
          unanswered, delivered, outcomes>>
    BY DEF BridgeCrash
  <1>29. RedisCrash => UNCHANGED <<rows, patch, bridgeUp, poll, orphans,
          relay, posts, issued, pushes, unanswered, delivered, outcomes>>
    BY DEF RedisCrash
  <1>30. RelayStart => UNCHANGED <<rows, patch, redisUp, queue, bridgeUp,
          poll, orphans, posts, issued, pushes, unanswered, delivered,
          outcomes, lost>>
    BY DEF RelayStart
  <1>31. BridgeStart => UNCHANGED <<rows, patch, redisUp, queue, poll,
          orphans, relay, posts, issued, pushes, unanswered, delivered,
          outcomes, lost>>
    BY DEF BridgeStart
  <1>32. RedisStart => UNCHANGED <<rows, patch, queue, bridgeUp, poll,
          orphans, relay, posts, issued, pushes, unanswered, delivered,
          outcomes, lost>>
    BY DEF RedisStart
  <1>. QED BY <1>1, <1>2, <1>3, <1>4, <1>5, <1>6, <1>7, <1>8, <1>9, <1>10, <1>11,
     <1>12, <1>13, <1>14, <1>15, <1>16, <1>17, <1>18, <1>19, <1>20, <1>21,
     <1>22, <1>23, <1>24, <1>25, <1>26, <1>27, <1>28, <1>29, <1>30, <1>31,
     <1>32

(* A row is a record of its three columns. *)
LEMMA RowIsTyped ==
    ASSUME TypeOK, NEW d \in Drafts
    PROVE  /\ rows[d] \in Rows
           /\ rows[d].status \in Statuses \cup {None}
           /\ rows[d].dispatch \in Mids \cup {None}
           /\ rows[d].body \in Bodies \cup {None}
  <1>1. rows[d] \in Rows
    BY DEF TypeOK
  <1>. QED BY <1>1 DEF Rows

(* Every step keeps the types. *)
LEMMA TypeStep ==
    ASSUME TypeOK, JobsAreIssued, ReportsAgree, RowsMatchDispatches, [Next]_vars
    PROVE  TypeOK'
  <1>1. ASSUME NEW d \in Drafts, NEW b \in Bodies, CreateDraft(d, b) PROVE TypeOK'
    BY <1>1 DEF CreateDraft, TypeOK, Statuses, Rows
  <1>2. ASSUME NEW d \in Drafts, NEW st \in Statuses \cup {None}, NEW b \in Bodies \cup {None}, PatchRow(d, st, b) PROVE TypeOK'
    <2>1. Target(d, st) \in Statuses
      BY <1>2 DEF PatchRow, PatchAccepted, TypeOK, Target, Statuses, Rows
    <2>2. PatchedBody(d, b) \in Bodies
      BY <1>2 DEF PatchRow, PatchAccepted, RowsMatchDispatches, RowMatches, PatchedBody, TypeOK
    <2>3. [rows[d] EXCEPT !.status = Target(d, st), !.body = PatchedBody(d, b)]
            \in Rows
      BY <2>1, <2>2, RowIsTyped DEF Rows
    <2>4. rows' \in [Drafts -> Rows]
      BY <1>2, <2>3 DEF PatchRow, TypeOK
    <2>. QED BY <1>2, <2>4 DEF PatchRow, TypeOK
  <1>3. ASSUME NEW p \in Patchers, NEW d \in Drafts, NEW st \in Statuses \cup {None}, NEW b \in Bodies \cup {None}, NEW m \in Mids, PatchApprove(p, d, st, b, m) PROVE TypeOK'
    <2>1. PatchedBody(d, b) \in Bodies
      BY <1>3 DEF PatchApprove, PatchAccepted, RowsMatchDispatches, RowMatches, PatchedBody, TypeOK
    <2>2. DispatchJob(d, b, m) \in Jobs
      BY <2>1 DEF DispatchJob, Jobs
    <2>. QED BY <1>3, <2>1, <2>2 DEF PatchApprove, TypeOK, Rows, Statuses
  <1>4. ASSUME NEW p \in Patchers, NEW m \in Mids, NEW b \in Bodies, DirectSend(p, m, b) PROVE TypeOK'
    <2>1. [mid |-> m, draft |-> None, body |-> b] \in Jobs
      BY DEF Jobs
    <2>. QED BY <1>4, <2>1 DEF DirectSend, TypeOK
  <1>5. ASSUME NEW p \in Patchers, EnqueueDispatch(p) PROVE TypeOK'
    BY <1>5, PushedJob DEF EnqueueDispatch, TypeOK, IdlePatch
  <1>31. ASSUME NEW p \in Patchers, EnqueueUnanswered(p) PROVE TypeOK'
    BY SMTT(30), <1>31, PushedJob, FaultType DEF EnqueueUnanswered, TypeOK
  <1>6. ASSUME NEW p \in Patchers, EnqueueRefused(p) PROVE TypeOK'
    <2>1. faults' \in 0..MaxFaults
      BY <1>6, FaultType DEF EnqueueRefused, TypeOK
    <2>2. lost' \subseteq Mids
      BY <1>6 DEF EnqueueRefused, TypeOK, Unqueued
    <2>. QED BY <1>6, <2>1, <2>2 DEF EnqueueRefused, TypeOK, IdlePatch
  <1>7. ASSUME NEW p \in Patchers, AnnounceApproved(p) PROVE TypeOK'
    BY <1>7 DEF AnnounceApproved, TypeOK, IdlePatch
  <1>8. ASSUME NEW h \in posts, PublishOutcome(h) PROVE TypeOK'
    <2>1. h.mid \in Mids /\ h.ok \in BOOLEAN
          /\ [h EXCEPT !.pc = "correlate"] \in Reports
      BY DEF TypeOK, Reports
    <2>2. \A k \in posts' : k \in Reports
      BY <1>8, <2>1 DEF PublishOutcome, TypeOK
    <2>3. outcomes' \subseteq Mids \X BOOLEAN
      BY <1>8, <2>1 DEF PublishOutcome, TypeOK
    <2>. QED BY <1>8, <2>2, <2>3 DEF PublishOutcome, TypeOK
  <1>9. ASSUME NEW h \in posts, PublishFails(h) PROVE TypeOK'
    <2>1. IsAwaited(h) => NextAttempt \in Relays /\ GaveUp \subseteq Mids
      BY NextAttemptType DEF IsAwaited, Reporting
    <2>2. outcomes' \subseteq Mids \X BOOLEAN
      BY <1>9 DEF PublishFails, TypeOK, Reports
    <2>3. faults' \in 0..MaxFaults
      BY <1>9, FaultType DEF PublishFails, TypeOK
    <2>. QED BY <1>9, <2>1, <2>2, <2>3 DEF PublishFails, TypeOK
  <1>10. ASSUME NEW h \in posts, Correlate(h) PROVE TypeOK'
    <2>1. Correlated(h) \in [Drafts -> Rows]
      <3>1. ASSUME NEW e \in Drafts, NEW s \in {"sent", "send_failed"}
            PROVE  [rows[e] EXCEPT !.status = s] \in Rows
        <4>1. rows[e] \in Rows
          BY DEF TypeOK
        <4>. QED BY <4>1 DEF Rows, Statuses
      <3>. QED BY <3>1 DEF Correlated, TypeOK
    <2>. QED BY <1>10, <2>1, IdleTypes DEF Correlate, TypeOK, Acknowledge
  <1>11. ASSUME NEW h \in posts, CorrelationFails(h) PROVE TypeOK'
    <2>1. h.mid \in Mids
      BY DEF TypeOK, Reports
    <2>. QED BY <1>11, <2>1, IdleTypes, ConstantsAssumption
          DEF CorrelationFails, TypeOK, Acknowledge, Fault
  <1>12. CASE ServeOrphan
    BY <1>12, HeadJob DEF ServeOrphan, TypeOK
  <1>13. CASE ServePoll
    BY <1>13, HeadJob DEF ServePoll, TypeOK
  <1>32. CASE ServeUnanswered
    BY <1>32, HeadJob, FaultType DEF ServeUnanswered, TypeOK
  <1>14. CASE PollEmpty
    BY <1>14, FaultType DEF PollEmpty, NoPoll, TypeOK, Relays
  <1>15. CASE OrphanEmpty
    BY <1>15 DEF OrphanEmpty, TypeOK
  <1>16. CASE RelayPoll
    BY <1>16 DEF RelayPoll, TypeOK, Relays
  <1>17. CASE RelayReceive
    <2>1. poll.job \in Jobs
      BY <1>17, JobInReply DEF RelayReceive
    <2>. QED BY <1>17, <2>1 DEF RelayReceive, NoPoll, TypeOK, Relays
  <1>18. CASE DropMalformed
    BY <1>18, JobInHand, IdleTypes DEF DropMalformed, TypeOK
  <1>19. ASSUME NEW sent \in BOOLEAN, NEW ok \in BOOLEAN, SendIMessage(sent, ok) PROVE TypeOK'
    <2>1. [relay EXCEPT !.pc = "posting", !.ok = ok, !.attempt = 1] \in Relays
      <3>1. 1 \in 0..MaxAttempts
        BY ConstantsAssumption
      <3>. QED BY <3>1 DEF TypeOK, Relays
    <2>2. relay.job.mid \in Mids
      BY <1>19, JobInHand DEF SendIMessage
    <2>. QED BY <1>19, <2>1, <2>2 DEF SendIMessage, TypeOK
  <1>20. CASE PostSent
    <2>1. relay.job.mid \in Mids /\ relay.attempt \in 1..MaxAttempts
          /\ relay.ok \in BOOLEAN
      BY <1>20, JobInHand, ConstantsAssumption
         DEF PostSent, TypeOK, Relays, Reporting, ReportsAgree
    <2>2. [mid |-> relay.job.mid, ok |-> relay.ok,
           attempt |-> relay.attempt, pc |-> "publish"] \in Reports
      BY <2>1 DEF Reports
    <2>3. [relay EXCEPT !.pc = "awaiting"] \in Relays
      BY DEF TypeOK, Relays
    <2>. QED BY <1>20, <2>2, <2>3 DEF PostSent, TypeOK
  <1>21. CASE PostRefused
    BY <1>21, NextAttemptType DEF PostRefused, Reporting, TypeOK
  <1>22. CASE ConnectionLost
    BY <1>22, AfterTransportErrorType, FaultType
       DEF ConnectionLost, AbandonPoll, NoPoll, TypeOK
  <1>23. CASE ThreadDies
    BY <1>23, AfterTransportErrorType, IdleTypes, FaultType
       DEF ThreadDies, AbandonPoll, NoPoll, TypeOK
  <1>24. CASE RelayCrash
    BY SMTT(30), <1>24, AfterTransportErrorType, IdleTypes, FaultType
       DEF RelayCrash, AbandonPoll, NoPoll, TypeOK
  <1>25. CASE BridgeCrash
    <2>1. Unqueued \subseteq Mids
      BY DEF Unqueued
    <2>2. patch' \in [Patchers -> [pc : {"idle", "enqueue", "announce"},
                                   job : Jobs \cup {None}]]
      BY <1>25 DEF BridgeCrash, IdlePatch
    <2>3. lost' \subseteq Mids
      BY <1>25, <2>1, AfterTransportErrorType DEF BridgeCrash, TypeOK
    <2>. QED BY <1>25, <2>2, <2>3, AfterTransportErrorType, FaultType
          DEF BridgeCrash, NoPoll, TypeOK
  <1>26. CASE RedisCrash
    <2>1. {queue[i].mid : i \in 1..Len(queue)} \subseteq Mids
      BY QueuedJobs
    <2>2. queue' \in Seq(Jobs)
      BY <1>26 DEF RedisCrash
    <2>. QED BY <1>26, <2>1, <2>2, FaultType DEF RedisCrash, TypeOK
  <1>27. CASE RelayStart
    BY <1>27, IdleTypes DEF RelayStart, TypeOK
  <1>28. CASE BridgeStart
    BY <1>28 DEF BridgeStart, TypeOK
  <1>29. CASE RedisStart
    BY <1>29 DEF RedisStart, TypeOK
  <1>30. CASE UNCHANGED vars
    BY <1>30 DEF vars, TypeOK
  <1>. QED BY <1>1, <1>2, <1>3, <1>4, <1>5, <1>6, <1>7, <1>8, <1>9, <1>10,
       <1>11, <1>12, <1>13, <1>14, <1>15, <1>16, <1>17, <1>18, <1>19, <1>20,
       <1>21, <1>22, <1>23, <1>24, <1>25, <1>26, <1>27, <1>28, <1>29, <1>30,
       <1>31, <1>32
       DEF Next, Request, Handler, Outbound, Failure, Restart

(* A handler mints a fresh id and is suspended with the job.                *)
Mints(p, job) ==
    /\ job \in Jobs /\ issued[job.mid] = None
    /\ patch[p].pc = "idle"
    /\ issued' = [issued EXCEPT ![job.mid] = job]
    /\ patch' = [patch EXCEPT ![p] = [pc |-> "enqueue", job |-> job]]
    /\ UNCHANGED <<queue, poll, relay, posts, pushes, unanswered, delivered,
                   outcomes, lost>>

LEMMA Minting ==
    ASSUME TypeOK, RowsMatchDispatches, NEW p \in Patchers, NEW m \in Mids
    PROVE  /\ \A d \in Drafts, st \in Statuses \cup {None}, b \in Bodies \cup {None} :
                 PatchApprove(p, d, st, b, m) => Mints(p, DispatchJob(d, b, m))
           /\ \A b \in Bodies : DirectSend(p, m, b) =>
                 Mints(p, [mid |-> m, draft |-> None, body |-> b])
  <1>1. ASSUME NEW d \in Drafts, NEW st \in Statuses \cup {None},
               NEW b \in Bodies \cup {None}, PatchApprove(p, d, st, b, m)
        PROVE  Mints(p, DispatchJob(d, b, m))
    <2>1. /\ PatchAccepted(d, st, b) /\ issued[m] = None /\ patch[p].pc = "idle"
          /\ issued' = [issued EXCEPT ![m] = DispatchJob(d, b, m)]
          /\ patch' = [patch EXCEPT ![p] =
                          [pc |-> "enqueue", job |-> DispatchJob(d, b, m)]]
          /\ UNCHANGED <<queue, poll, relay, posts, pushes, unanswered, delivered,
                         outcomes, lost>>
      BY <1>1 DEF PatchApprove
    <2>2. DispatchJob(d, b, m) \in Jobs /\ DispatchJob(d, b, m).mid = m
      BY <2>1, PatchedJob
    <2>. QED BY <2>1, <2>2 DEF Mints
  <1>2. ASSUME NEW b \in Bodies, DirectSend(p, m, b)
        PROVE  Mints(p, [mid |-> m, draft |-> None, body |-> b])
    BY <1>2 DEF DirectSend, Mints, Jobs
  <1>. QED BY <1>1, <1>2

(* What a fresh id leaves alone.                                            *)
LEMMA Minted ==
    ASSUME TypeOK, NEW p \in Patchers, NEW job, Mints(p, job)
    PROVE  /\ job.mid \in Mids /\ job # None /\ issued'[job.mid] = job
           /\ \A n \in Mids : n # job.mid => issued'[n] = issued[n]
           /\ patch'[p].pc = "enqueue" /\ patch'[p].job = job
           /\ \A q \in Patchers : q # p => patch'[q] = patch[q]
  <1>1. job.mid \in Mids /\ job # None
    BY ConstantsAssumption DEF Mints, Jobs
  <1>. QED BY <1>1 DEF Mints, TypeOK

(* Every step keeps the jobs in transit equal to the jobs their ids were
   minted for. *)
LEMMA JobsStep ==
    ASSUME TypeOK, JobsAreIssued, ReportsAgree, RowsMatchDispatches, TypeOK',
           [Next]_vars
    PROVE  JobsAreIssued'
  <1>m. ASSUME NEW p \in Patchers, NEW job, Mints(p, job)
        PROVE  JobsAreIssued'
    <2>1. \A j \in Jobs : j # None /\ j.mid \in Mids
      BY ConstantsAssumption DEF Jobs
    <2>2. \A n \in Mids : issued[n] # None => issued'[n] = issued[n]
      BY <1>m, Minted DEF Mints
    <2>3. \A q \in Patchers : Enqueuing(q)' =>
             patch'[q].job \in Jobs /\ issued'[patch'[q].job.mid] = patch'[q].job
      <3>1. \A q \in Patchers : q # p => patch'[q] = patch[q]
        BY <1>m, Minted
      <3>2. patch'[p].job = job /\ job \in Jobs /\ issued'[job.mid] = job
        BY <1>m, Minted DEF Mints
      <3>. QED BY <2>1, <2>2, <3>1, <3>2 DEF Enqueuing, JobsAreIssued
    <2>4. \A i \in 1..Len(queue) : issued'[queue[i].mid] = queue[i]
      BY <2>1, <2>2, QueuedJobs DEF JobsAreIssued
    <2>5. UNCHANGED <<queue, poll, relay, pushes>>
      BY <1>m DEF Mints
    <2>6. /\ Answered' => poll'.job \in Jobs /\ issued'[poll'.job.mid] = poll'.job
          /\ Holding' => relay'.job \in Jobs /\ issued'[relay'.job.mid] = relay'.job
      BY <2>1, <2>2, <2>5 DEF JobsAreIssued, Answered, Holding
    <2>7. \A m \in Mids : pushes'[m] > 0 => issued'[m] # None
      BY <2>2, <2>5 DEF JobsAreIssued
    <2>. QED BY <2>3, <2>4, <2>5, <2>6, <2>7 DEF JobsAreIssued
  <1>1. ASSUME NEW p \in Patchers, NEW d \in Drafts, NEW st \in Statuses \cup
               {None}, NEW b \in Bodies \cup {None}, NEW m \in Mids,
               PatchApprove(p, d, st, b, m)
       PROVE  JobsAreIssued'
    BY <1>1, <1>m, Minting
  <1>2. ASSUME NEW p \in Patchers, NEW m \in Mids, NEW b \in Bodies, DirectSend(p, m, b)
       PROVE  JobsAreIssued'
    BY <1>2, <1>m, Minting
  <1>p. ASSUME NEW p \in Patchers, RunPush(p), patch'[p] # patch[p] => patch'[p].pc # "enqueue",
               \A q \in Patchers : q # p => patch'[q] = patch[q],
               UNCHANGED <<poll, relay, issued>>
        PROVE  JobsAreIssued'
    <2>1. \A i \in 1..Len(queue') : i \in 1..Len(queue) \/ i = Len(queue) + 1
      BY <1>p, PushedJob
    <2>2. issued[patch[p].job.mid] = patch[p].job /\ patch[p].job # None
      BY <1>p, EnqueuedJob, ConstantsAssumption DEF RunPush, JobsAreIssued, Enqueuing
    <2>3. \A i \in 1..Len(queue') : issued'[queue'[i].mid] = queue'[i]
      BY <1>p, <2>1, <2>2, PushedJob DEF JobsAreIssued
    <2>4. \A m \in Mids : pushes'[m] > 0 => issued'[m] # None
      BY <1>p, <2>2, PushedJob DEF JobsAreIssued
    <2>5. \A q \in Patchers : Enqueuing(q)' =>
             patch'[q].job \in Jobs /\ issued'[patch'[q].job.mid] = patch'[q].job
      BY <1>p DEF JobsAreIssued, Enqueuing
    <2>. QED BY <1>p, <2>3, <2>4, <2>5 DEF JobsAreIssued, Answered, Holding
  <1>3. ASSUME NEW p \in Patchers, EnqueueDispatch(p)
       PROVE  JobsAreIssued'
    <2>1. patch'[p].pc # "enqueue" /\ \A q \in Patchers : q # p => patch'[q] = patch[q]
      BY <1>3 DEF EnqueueDispatch, IdlePatch, TypeOK
    <2>. QED BY <1>3, <1>p, <2>1 DEF EnqueueDispatch
  <1>26. ASSUME NEW p \in Patchers, EnqueueUnanswered(p)
       PROVE  JobsAreIssued'
    BY <1>26, <1>p DEF EnqueueUnanswered
  <1>4. ASSUME NEW p \in Patchers, EnqueueRefused(p)
       PROVE  JobsAreIssued'
    BY <1>4, EnqueuedJob, JobInHand, JobInReply, ConstantsAssumption DEF
       EnqueueRefused, IdlePatch, JobsAreIssued, Enqueuing, Holding, Answered,
       Reporting, ReportsAgree, TypeOK
  <1>5. ASSUME NEW p \in Patchers, AnnounceApproved(p)
       PROVE  JobsAreIssued'
    BY <1>5, EnqueuedJob, JobInHand, JobInReply, ConstantsAssumption DEF
       AnnounceApproved, IdlePatch, JobsAreIssued, Enqueuing, Holding,
       Answered, Reporting, ReportsAgree, TypeOK
  <1>7. ASSUME NEW h \in posts, PublishFails(h)
       PROVE  JobsAreIssued'
    <2>1. UNCHANGED relay \/ (relay' = NextAttempt /\ relay.pc = "awaiting")
      BY <1>7 DEF PublishFails, IsAwaited
    <2>2. Holding' => relay'.job = relay.job /\ Holding
      BY <2>1, NextAttemptFields DEF Holding
    <2>. QED BY <1>7, <2>2 DEF PublishFails, JobsAreIssued, Enqueuing, Holding, Answered
  <1>8. ASSUME NEW h \in posts, Correlate(h)
       PROVE  JobsAreIssued'
    BY <1>8, EnqueuedJob, JobInHand, JobInReply, ConstantsAssumption DEF
       Correlate, Correlated, Acknowledge, IdleRelay, IsAwaited,
       JobsAreIssued, Enqueuing, Holding, Answered, Reporting, ReportsAgree,
       TypeOK
  <1>9. ASSUME NEW h \in posts, CorrelationFails(h)
       PROVE  JobsAreIssued'
    BY <1>9, EnqueuedJob, JobInHand, JobInReply, ConstantsAssumption DEF
       CorrelationFails, Acknowledge, IdleRelay, IsAwaited, Fault,
       JobsAreIssued, Enqueuing, Holding, Answered, Reporting, ReportsAgree,
       TypeOK
  <1>10. CASE ServeOrphan
    BY <1>10, EnqueuedJob, JobInHand, JobInReply, ConstantsAssumption DEF
       ServeOrphan, JobsAreIssued, Enqueuing, Holding, Answered, Reporting,
       ReportsAgree, TypeOK
  <1>27. CASE ServeUnanswered
    BY <1>27, EnqueuedJob, JobInHand, JobInReply, ConstantsAssumption DEF
       ServeUnanswered, JobsAreIssued, Enqueuing, Holding, Answered, Reporting,
       ReportsAgree, TypeOK
  <1>11. CASE ServePoll
    BY SMTT(30), <1>11, EnqueuedJob, JobInHand, JobInReply, ConstantsAssumption DEF
       ServePoll, JobsAreIssued, Enqueuing, Holding, Answered, Reporting,
       ReportsAgree, TypeOK
  <1>12. CASE PollEmpty
    BY <1>12, EnqueuedJob, JobInHand, JobInReply, ConstantsAssumption DEF
       PollEmpty, NoPoll, JobsAreIssued, Enqueuing, Holding, Answered,
       Reporting, ReportsAgree, TypeOK
  <1>13. CASE RelayPoll
    BY <1>13, EnqueuedJob, JobInHand, JobInReply, ConstantsAssumption DEF
       RelayPoll, JobsAreIssued, Enqueuing, Holding, Answered, Reporting,
       ReportsAgree, TypeOK
  <1>14. CASE RelayReceive
    BY <1>14, EnqueuedJob, JobInHand, JobInReply, ConstantsAssumption DEF
       RelayReceive, NoPoll, JobsAreIssued, Enqueuing, Holding, Answered,
       Reporting, ReportsAgree, TypeOK
  <1>15. CASE DropMalformed
    BY <1>15, EnqueuedJob, JobInHand, JobInReply, ConstantsAssumption DEF
       DropMalformed, IdleRelay, JobsAreIssued, Enqueuing, Holding, Answered,
       Reporting, ReportsAgree, TypeOK
  <1>16. ASSUME NEW sent \in BOOLEAN, NEW ok \in BOOLEAN, SendIMessage(sent,
               ok)
       PROVE  JobsAreIssued'
    BY <1>16, EnqueuedJob, JobInHand, JobInReply, ConstantsAssumption DEF
       SendIMessage, JobsAreIssued, Enqueuing, Holding, Answered, Reporting,
       ReportsAgree, TypeOK
  <1>17. CASE PostSent
    BY <1>17, EnqueuedJob, JobInHand, JobInReply, ConstantsAssumption DEF
       PostSent, JobsAreIssued, Enqueuing, Holding, Answered, Reporting,
       ReportsAgree, TypeOK
  <1>18. CASE PostRefused
    BY <1>18, EnqueuedJob, JobInHand, JobInReply, ConstantsAssumption DEF
       PostRefused, NextAttempt, IdleRelay, GaveUp, JobsAreIssued, Enqueuing,
       Holding, Answered, Reporting, ReportsAgree, TypeOK
  <1>19. CASE ConnectionLost
    BY <1>19, EnqueuedJob, JobInHand, JobInReply, ConstantsAssumption DEF
       ConnectionLost, Fault, AbandonPoll, NoPoll, AfterTransportError,
       NextAttempt, IdleRelay, LostByTransportError, InReply, GaveUp,
       JobsAreIssued, Enqueuing, Holding, Answered, Reporting, ReportsAgree,
       TypeOK
  <1>20. CASE ThreadDies
    BY <1>20, EnqueuedJob, JobInHand, JobInReply, ConstantsAssumption DEF
       ThreadDies, Fault, AbandonPoll, NoPoll, IdleRelay, InReply, InHand,
       JobsAreIssued, Enqueuing, Holding, Answered, Reporting, ReportsAgree,
       TypeOK
  <1>21. CASE RelayCrash
    BY <1>21, EnqueuedJob, JobInHand, JobInReply, ConstantsAssumption DEF
       RelayCrash, Fault, AbandonPoll, NoPoll, IdleRelay, InReply, InHand,
       JobsAreIssued, Enqueuing, Holding, Answered, Reporting, ReportsAgree,
       TypeOK
  <1>22. CASE BridgeCrash
    <2>1. /\ \A p \in Patchers : patch'[p].pc = "idle"
          /\ poll'.pc = "none" /\ relay' = AfterTransportError
          /\ UNCHANGED <<queue, issued, pushes>>
      BY <1>22 DEF BridgeCrash, NoPoll, IdlePatch
    <2>2. Holding' => Holding /\ relay'.job = relay.job
      BY <2>1, AfterTransportErrorFields DEF Holding
    <2>. QED BY <2>1, <2>2 DEF JobsAreIssued, Enqueuing, Holding, Answered
  <1>23. CASE RedisCrash
    BY <1>23, EnqueuedJob, JobInHand, JobInReply, ConstantsAssumption DEF
       RedisCrash, Fault, JobsAreIssued, Enqueuing, Holding, Answered,
       Reporting, ReportsAgree, TypeOK
  <1>24. CASE RelayStart
    BY <1>24, EnqueuedJob, JobInHand, JobInReply, ConstantsAssumption DEF
       RelayStart, IdleRelay, JobsAreIssued, Enqueuing, Holding, Answered,
       Reporting, ReportsAgree, TypeOK
  <1>25. CASE UNCHANGED <<patch, queue, poll, relay, issued, pushes>>
    BY <1>25 DEF JobsAreIssued, Enqueuing, Holding, Answered
  <1>. QED BY <1>1, <1>2, <1>3, <1>4, <1>5, <1>7, <1>8, <1>9, <1>10,
     <1>11, <1>12, <1>13, <1>14, <1>15, <1>16, <1>17, <1>18, <1>19, <1>20,
     <1>21, <1>22, <1>23, <1>24, <1>25, <1>26, <1>27, Frames DEF Next, Request, Handler,
     Outbound, Failure, Restart

(* The moves of a job.  Most steps are calm: copies may leave the list, the *)
(* answer and the relay's hands, nothing is added, and nothing is sent or   *)
(* told.                                                                    *)
Shrinks ==
    \/ UNCHANGED queue
    \/ queue # <<>> /\ queue' = Tail(queue)
    \/ queue' = <<>>
SameAnswer == Answered' => Answered /\ poll'.job = poll.job
SameHand ==
    /\ Holding' => Holding /\ relay'.job = relay.job
    /\ relay'.pc = "sending" => relay.pc = "sending" /\ relay'.job = relay.job
SameReports == \A m \in Mids : Reported(m)' => Reported(m)

Calm ==
    /\ Shrinks /\ SameAnswer /\ SameHand /\ SameReports
    /\ UNCHANGED <<delivered, pushes>>

(* A handler's job is queued.                                               *)
Pushes(p) ==
    /\ RunPush(p)
    /\ UNCHANGED <<poll, relay, posts, delivered, outcomes>>

(* Every other step takes one job from one place to the next.               *)
LEMMA Moves ==
    ASSUME TypeOK, JobsAreIssued, RowsMatchDispatches, [Next]_vars
    PROVE  \/ Calm
           \/ \E p \in Patchers : Pushes(p)
           \/ ServePoll \/ RelayReceive \/ PostSent
           \/ \E sent, ok \in BOOLEAN : SendIMessage(sent, ok)
  <1>. USE DEF Calm, Shrinks, SameAnswer, SameHand, SameReports
  <1>1. ASSUME UNCHANGED <<queue, poll, relay, posts, delivered, outcomes, pushes>>
        PROVE  Calm
    BY <1>1 DEF Answered, Holding, Reported
  <1>2. ASSUME NEW p \in Patchers, RunPush(p),
               UNCHANGED <<poll, relay, posts, delivered, outcomes>>
        PROVE  Pushes(p)
    BY <1>2 DEF Pushes
  <1>3. ASSUME NEW h \in posts, PublishOutcome(h) PROVE Calm
    <2>1. /\ UNCHANGED <<queue, poll, relay, delivered, pushes>>
          /\ outcomes' = outcomes \cup {<<h.mid, h.ok>>}
          /\ \A k \in posts' : k \in posts \/ k.mid = h.mid
      BY <1>3 DEF PublishOutcome, TypeOK, Reports
    <2>. QED BY <2>1 DEF Answered, Holding, Reported
  <1>4. ASSUME NEW h \in posts, PublishFails(h) PROVE Calm
    <2>1. /\ UNCHANGED <<queue, poll, delivered, pushes>>
          /\ outcomes' \subseteq outcomes \cup {<<h.mid, h.ok>>}
          /\ posts' \subseteq posts
          /\ UNCHANGED relay \/ (relay' = NextAttempt /\ relay.pc = "awaiting")
      BY <1>4 DEF PublishFails, IsAwaited
    <2>. QED BY <2>1, NextAttemptFields DEF Answered, Holding, Reported
  <1>5. ASSUME NEW h \in posts, Correlate(h) \/ CorrelationFails(h) PROVE Calm
    <2>1. /\ UNCHANGED <<queue, poll, delivered, pushes, outcomes>>
          /\ posts' \subseteq posts
          /\ UNCHANGED relay \/ relay' = IdleRelay
      BY <1>5 DEF Correlate, CorrelationFails, Acknowledge
    <2>. QED BY <2>1 DEF Answered, Holding, Reported, IdleRelay
  <1>6. CASE ServeOrphan \/ ServeUnanswered \/ RedisCrash
    <2>1. /\ (queue # <<>> /\ queue' = Tail(queue)) \/ queue' = <<>>
          /\ UNCHANGED <<poll, relay, posts, delivered, outcomes, pushes>>
      BY <1>6 DEF ServeOrphan, ServeUnanswered, RedisCrash
    <2>. QED BY <2>1 DEF Answered, Holding, Reported
  <1>7. CASE PollEmpty \/ RelayPoll
    <2>1. /\ UNCHANGED <<queue, posts, delivered, outcomes, pushes>>
          /\ poll'.pc \in {"none", "blocked"}
          /\ relay'.pc \in {"idle", "polling"}
      BY <1>7 DEF PollEmpty, RelayPoll, NoPoll, TypeOK, Relays
    <2>. QED BY <2>1 DEF Answered, Holding, Reported
  <1>8. CASE DropMalformed \/ RelayStart
    <2>1. /\ UNCHANGED <<queue, poll, posts, delivered, outcomes, pushes>>
          /\ relay' = IdleRelay
      BY <1>8 DEF DropMalformed, RelayStart
    <2>. QED BY <2>1 DEF Answered, Holding, Reported, IdleRelay
  <1>9. CASE PostRefused
    <2>1. /\ UNCHANGED <<queue, poll, posts, delivered, outcomes, pushes>>
          /\ relay' = NextAttempt /\ relay.pc = "posting"
      BY <1>9 DEF PostRefused
    <2>. QED BY <2>1, NextAttemptFields DEF Answered, Holding, Reported
  <1>10. CASE ConnectionLost \/ BridgeCrash
    <2>1. /\ UNCHANGED <<queue, delivered, outcomes, pushes>>
          /\ posts' \subseteq posts /\ poll'.pc = "none"
          /\ relay' = AfterTransportError
      BY <1>10 DEF ConnectionLost, BridgeCrash, AbandonPoll, NoPoll
    <2>. QED BY <2>1, AfterTransportErrorFields DEF Answered, Holding, Reported
  <1>11. CASE ThreadDies \/ RelayCrash
    <2>1. /\ UNCHANGED <<queue, posts, delivered, outcomes, pushes>>
          /\ poll'.pc = "none" /\ relay'.pc \in {"dead", "down"}
      BY <1>11 DEF ThreadDies, RelayCrash, AbandonPoll, NoPoll, IdleRelay
    <2>. QED BY <2>1 DEF Answered, Holding, Reported
  <1>12. ASSUME NEW p \in Patchers, EnqueueDispatch(p) \/ EnqueueUnanswered(p)
         PROVE  Pushes(p)
    BY <1>12, <1>2 DEF EnqueueDispatch, EnqueueUnanswered
  <1>. QED BY <1>1, <1>3, <1>4, <1>5, <1>6, <1>7, <1>8, <1>9, <1>10, <1>11, <1>12,
        Frames DEF Next, Request, Handler, Outbound, Failure, Restart

(* No RPUSH is undone.                                                      *)
LEMMA PushesGrow ==
    ASSUME TypeOK, TypeOK', JobsAreIssued, [Next]_vars
    PROVE  \A m \in Mids : pushes[m] <= pushes'[m] /\ (Single(m)' => Single(m))
  <1>1. \A m \in Mids : pushes[m] \in Nat /\ pushes'[m] \in Nat
    BY DEF TypeOK
  <1>2. ASSUME NEW p \in Patchers, EnqueueDispatch(p) \/ EnqueueUnanswered(p)
        PROVE  \A m \in Mids : pushes[m] <= pushes'[m]
    <2>1. RunPush(p)
      BY <1>2 DEF EnqueueDispatch, EnqueueUnanswered
    <2>2. \A m \in Mids : pushes'[m] = pushes[m] \/ pushes'[m] = pushes[m] + 1
      BY <2>1, PushedJob
    <2>. QED BY <1>1, <2>2
  <1>3. ASSUME UNCHANGED pushes
        PROVE  \A m \in Mids : pushes[m] <= pushes'[m]
    <2>1. \A m \in Mids : pushes'[m] = pushes[m]
      BY <1>3
    <2>. QED BY <1>1, <2>1
  <1>4. \A m \in Mids : pushes[m] <= pushes'[m]
    BY <1>2, <1>3, Frames DEF Next, Request, Handler, Outbound, Failure, Restart
  <1>. QED BY <1>1, <1>4 DEF Single

(* The copies of an id in the list can be counted, ...                      *)
LEMMA CopiesInList ==
    ASSUME TypeOK, NEW m
    PROVE  IsFiniteSet(InList(m)) /\ Cardinality(InList(m)) \in Nat
  <1>1. Len(queue) \in Nat
    BY DEF TypeOK
  <1>2. IsFiniteSet(1..Len(queue))
    BY <1>1, FS_Interval
  <1>3. InList(m) \in SUBSET (1..Len(queue))
    BY DEF InList
  <1>4. IsFiniteSet(InList(m))
    BY <1>2, <1>3, FS_Subset
  <1>. QED BY <1>4, FS_CardinalityType

(* ... one is gone with the head, ...                                       *)
LEMMA HeadLeaves ==
    ASSUME TypeOK, queue # <<>>, queue' = Tail(queue), NEW m
    PROVE  /\ Cardinality(InList(m)') \in Nat
           /\ Cardinality(InList(m)') <=
                 Cardinality(InList(m)) - (IF Head(queue).mid = m THEN 1 ELSE 0)
  <1>. DEFINE Rest == InList(m) \ {1}
              Later == {i \in 1..Len(queue') : queue'[i].mid = m}
              shift == [i \in Later |-> i + 1]
  <1>1. /\ Len(queue) \in Nat \ {0} /\ Len(queue') = Len(queue) - 1
        /\ Head(queue) = queue[1]
        /\ \A i \in 1..Len(queue') : i + 1 \in 1..Len(queue) /\ queue'[i] = queue[i + 1]
    BY HeadJob
  <1>2. shift \in Injection(Later, Rest)
    <2>1. \A i \in Later : i + 1 \in Rest
      BY <1>1 DEF InList
    <2>2. shift \in [Later -> Rest] /\ \A i, j \in Later : shift[i] = shift[j] => i = j
      BY <2>1
    <2>. QED BY <2>2, Fun_IsInj
  <1>0. IsFiniteSet(InList(m)) /\ Cardinality(InList(m)) \in Nat
    BY CopiesInList
  <1>3. /\ IsFiniteSet(Rest)
        /\ Cardinality(Rest) = IF 1 \in InList(m) THEN Cardinality(InList(m)) - 1
                                                  ELSE Cardinality(InList(m))
    BY <1>0, FS_RemoveElement
  <1>4. Cardinality(Later) <= Cardinality(Rest) /\ Cardinality(Later) \in Nat
    <2>. HIDE DEF Later, Rest, shift
    <2>1. IsFiniteSet(Later) /\ Cardinality(Later) <= Cardinality(Rest)
      BY <1>2, <1>3, FS_Injection
    <2>. QED BY <2>1, FS_CardinalityType
  <1>5. 1 \in InList(m) <=> Head(queue).mid = m
    BY <1>1 DEF InList
  <1>6. InList(m)' = Later
    BY DEF InList
  <1>. HIDE DEF Later, Rest
  <1>. QED BY <1>0, <1>3, <1>4, <1>5, <1>6

(* ... and one is added by an RPUSH.                                        *)
LEMMA TailJoins ==
    ASSUME TypeOK, JobsAreIssued, NEW p \in Patchers, RunPush(p), NEW m
    PROVE  Cardinality(InList(m)') =
              Cardinality(InList(m)) + (IF patch[p].job.mid = m THEN 1 ELSE 0)
  <1>. DEFINE n == Len(queue) + 1
              New == {i \in 1..Len(queue') : queue'[i].mid = m}
  <1>1. /\ Len(queue) \in Nat /\ Len(queue') = n
        /\ \A i \in 1..Len(queue) : queue'[i] = queue[i]
        /\ queue'[n] = patch[p].job
    BY PushedJob
  <1>0. IsFiniteSet(InList(m)) /\ Cardinality(InList(m)) \in Nat
    BY CopiesInList
  <1>2. CASE patch[p].job.mid = m
    <2>1. New = InList(m) \cup {n} /\ n \notin InList(m)
      BY <1>1, <1>2 DEF InList
    <2>2. Cardinality(New) = Cardinality(InList(m)) + 1
      BY <1>0, <2>1, FS_AddElement
    <2>. QED BY <1>2, <2>2 DEF InList
  <1>3. CASE patch[p].job.mid # m
    <2>1. New = InList(m)
      BY <1>1, <1>3 DEF InList
    <2>2. InList(m)' = InList(m)
      BY <2>1 DEF InList
    <2>. QED BY <1>0, <1>3, <2>2
  <1>. QED BY <1>2, <1>3

(* A list that shrinks has no copy it did not have.                         *)
LEMMA ShrinkingList ==
    ASSUME TypeOK, Shrinks
    PROVE  /\ \A i \in 1..Len(queue') :
                 \E j \in 1..Len(queue) : queue'[i] = queue[j]
           /\ \A m \in Mids : Cardinality(InList(m)') <= Cardinality(InList(m))
  <1>0. \A m \in Mids : Cardinality(InList(m)) \in Nat
    BY CopiesInList
  <1>1. CASE UNCHANGED queue
    <2>1. \A m \in Mids : InList(m)' = InList(m)
      BY <1>1 DEF InList
    <2>. QED BY <1>0, <1>1, <2>1
  <1>2. CASE queue # <<>> /\ queue' = Tail(queue)
    <2>1. \A i \in 1..Len(queue') :
             i + 1 \in 1..Len(queue) /\ queue'[i] = queue[i + 1]
      BY <1>2, HeadJob
    <2>2. ASSUME NEW m \in Mids
          PROVE  Cardinality(InList(m)') <= Cardinality(InList(m))
      <3>1. Cardinality(InList(m)') <=
               Cardinality(InList(m)) - (IF Head(queue).mid = m THEN 1 ELSE 0)
        BY <1>2, HeadLeaves
      <3>2. Cardinality(InList(m)') \in Nat
        BY <1>2, HeadLeaves
      <3>. QED BY <1>0, <3>1, <3>2
    <2>. QED BY <2>1, <2>2
  <1>3. CASE queue' = <<>>
    <2>1. 1..Len(queue') = {}
      BY <1>3
    <2>2. \A m \in Mids : InList(m)' = {}
      BY <2>1 DEF InList
    <2>. QED BY <1>0, <2>1, <2>2, FS_EmptySet
  <1>. QED BY <1>1, <1>2, <1>3 DEF Shrinks

(* Every step keeps the count: a copy is added only by an RPUSH, and moves  *)
(* from one place to the next.                                              *)
LEMMA CopiesStep ==
    ASSUME TypeOK, TypeOK', JobsAreIssued, RowsMatchDispatches, CopiesAreCounted,
           [Next]_vars
    PROVE  CopiesAreCounted'
  <1>. DEFINE K(m) == Cardinality(InList(m))
  <1>1. \A m \in Mids :
           /\ K(m) \in Nat /\ K(m)' \in Nat
           /\ InAnswer(m) \in {0, 1} /\ InAnswer(m)' \in {0, 1}
           /\ InSending(m) \in {0, 1} /\ InSending(m)' \in {0, 1}
           /\ delivered[m] \in Nat /\ delivered'[m] \in Nat
           /\ pushes[m] \in Nat /\ pushes'[m] \in Nat
    <2>1. \A m \in Mids : K(m) \in Nat
      BY CopiesInList
    <2>2. \A m \in Mids : K(m)' \in Nat
      <3>1. Len(queue') \in Nat
        BY DEF TypeOK
      <3>2. IsFiniteSet(1..Len(queue'))
        BY <3>1, FS_Interval
      <3>. QED BY <3>2, FS_Subset, FS_CardinalityType DEF InList
    <2>. QED BY <2>1, <2>2 DEF TypeOK, InAnswer, InSending
  <1>2. \A m \in Mids : delivered[m] + InSending(m) + InAnswer(m) + K(m) <= pushes[m]
    BY DEF CopiesAreCounted
  <1>. SUFFICES ASSUME NEW m \in Mids
                PROVE  delivered'[m] + InSending(m)' + InAnswer(m)' + K(m)' <= pushes'[m]
    BY DEF CopiesAreCounted
  <1>. HIDE DEF K
  <1>3. CASE Calm
    <2>1. K(m)' <= K(m)
      BY <1>3, ShrinkingList DEF Calm, K
    <2>2. InSending(m)' <= InSending(m) /\ InAnswer(m)' <= InAnswer(m)
      BY <1>3 DEF Calm, SameHand, SameAnswer, InSending, InAnswer
    <2>3. delivered'[m] = delivered[m] /\ pushes'[m] = pushes[m]
      BY <1>3 DEF Calm
    <2>. QED BY <1>1, <1>2, <2>1, <2>2, <2>3
  <1>4. ASSUME NEW p \in Patchers, Pushes(p)
        PROVE  delivered'[m] + InSending(m)' + InAnswer(m)' + K(m)' <= pushes'[m]
    <2>. DEFINE e == IF patch[p].job.mid = m THEN 1 ELSE 0
    <2>1. RunPush(p) /\ UNCHANGED <<poll, relay, delivered>>
      BY <1>4 DEF Pushes
    <2>2. K(m)' = K(m) + e
      BY <2>1, TailJoins DEF K
    <2>3. pushes'[m] = pushes[m] + e
      BY <1>1, <2>1, PushedJob
    <2>4. InSending(m)' = InSending(m) /\ InAnswer(m)' = InAnswer(m)
          /\ delivered'[m] = delivered[m]
      BY <2>1 DEF InSending, InAnswer, Answered
    <2>. QED BY <1>1, <1>2, <2>2, <2>3, <2>4
  <1>5. CASE ServePoll
    <2>. DEFINE e == IF Head(queue).mid = m THEN 1 ELSE 0
    <2>1. /\ queue # <<>> /\ queue' = Tail(queue) /\ poll.pc = "blocked"
          /\ poll'.pc = "answered" /\ poll'.job = Head(queue)
          /\ UNCHANGED <<relay, delivered, pushes>>
      BY <1>5 DEF ServePoll
    <2>2. K(m)' <= K(m) - e
      BY <2>1, HeadLeaves DEF K
    <2>3. InAnswer(m) = 0 /\ InAnswer(m)' = e /\ InSending(m)' = InSending(m)
          /\ delivered'[m] = delivered[m] /\ pushes'[m] = pushes[m]
      BY <2>1 DEF InSending, InAnswer, Answered
    <2>. QED BY <1>1, <1>2, <2>2, <2>3
  <1>6. CASE RelayReceive
    <2>1. /\ poll.pc = "answered" /\ poll'.pc = "none"
          /\ relay'.pc = "sending" /\ relay'.job = poll.job
          /\ UNCHANGED <<queue, delivered, pushes>>
      BY <1>6 DEF RelayReceive, NoPoll, TypeOK, Relays
    <2>2. InAnswer(m)' = 0 /\ InSending(m)' = InAnswer(m) /\ K(m)' = K(m)
          /\ delivered'[m] = delivered[m] /\ pushes'[m] = pushes[m]
      BY <2>1 DEF InSending, InAnswer, Answered, K, InList
    <2>. QED BY <1>1, <1>2, <2>2
  <1>7. CASE PostSent
    <2>1. /\ relay'.pc = "awaiting"
          /\ UNCHANGED <<poll, queue, delivered, pushes>>
      BY <1>7 DEF PostSent, TypeOK, Relays
    <2>2. InSending(m)' = 0 /\ InAnswer(m)' = InAnswer(m) /\ K(m)' = K(m)
          /\ delivered'[m] = delivered[m] /\ pushes'[m] = pushes[m]
      BY <2>1 DEF InSending, InAnswer, Answered, K, InList
    <2>. QED BY <1>1, <1>2, <2>2
  <1>8. ASSUME NEW sent \in BOOLEAN, NEW ok \in BOOLEAN, SendIMessage(sent, ok)
        PROVE  delivered'[m] + InSending(m)' + InAnswer(m)' + K(m)' <= pushes'[m]
    <2>1. /\ relay.pc = "sending" /\ relay'.pc = "posting"
          /\ relay.job.mid \in Mids
          /\ delivered' = IF sent THEN [delivered EXCEPT ![relay.job.mid] =
                                           delivered[relay.job.mid] + 1]
                                  ELSE delivered
          /\ UNCHANGED <<poll, queue, pushes>>
      BY <1>8, JobInHand DEF SendIMessage, TypeOK, Relays
    <2>2. InSending(m)' = 0 /\ InAnswer(m)' = InAnswer(m) /\ K(m)' = K(m)
          /\ pushes'[m] = pushes[m]
      BY <2>1 DEF InSending, InAnswer, Answered, K, InList
    <2>3. delivered'[m] <= delivered[m] + InSending(m)
      BY SMTT(30), <1>1, <2>1 DEF InSending, TypeOK
    <2>. QED BY <1>1, <1>2, <2>2, <2>3
  <1>. QED BY <1>3, <1>4, <1>5, <1>6, <1>7, <1>8, Moves

(* Of an id that was not minted, nothing is anywhere.                       *)
LEMMA KnownIds ==
    ASSUME TypeOK, JobsAreIssued, QueuedFirst, NEW m \in Mids, issued[m] = None
    PROVE  pushes[m] = 0 /\ ~Waiting(m) /\ ~Touched(m)
  BY DEF JobsAreIssued, QueuedFirst, TypeOK

(* What waits after a step waited before, or is the job just queued.        *)
LEMMA WaitingMoves ==
    ASSUME TypeOK, JobsAreIssued, Calm \/ ServePoll \/ RelayReceive, NEW m \in Mids,
           Waiting(m)'
    PROVE  Waiting(m) /\ (RelayReceive => ~Answered')
  <1>1. CASE Calm
    <2>1. \A i \in 1..Len(queue') : \E j \in 1..Len(queue) : queue'[i] = queue[j]
      BY <1>1, ShrinkingList DEF Calm
    <2>. QED BY <1>1, <2>1 DEF Calm, SameAnswer, Waiting, Answered, RelayReceive, NoPoll
  <1>2. CASE ServePoll
    <2>1. /\ poll'.job = Head(queue) /\ queue # <<>> /\ queue' = Tail(queue)
          /\ Head(queue) = queue[1] /\ 1 \in 1..Len(queue) /\ UNCHANGED relay
      BY <1>2, HeadJob DEF ServePoll
    <2>2. \A i \in 1..Len(queue') : \E j \in 1..Len(queue) : queue'[i] = queue[j]
      BY <2>1, ShrinkingList DEF Shrinks
    <2>. QED BY <1>2, <2>1, <2>2 DEF Waiting, ServePoll, RelayReceive
  <1>3. CASE RelayReceive
    BY <1>3 DEF RelayReceive, NoPoll, Waiting, Answered
  <1>. QED BY <1>1, <1>2, <1>3

(* An RPUSH makes one id wait, and its count is no longer zero.             *)
LEMMA PushedWaits ==
    ASSUME TypeOK, JobsAreIssued, NEW p \in Patchers, Pushes(p), NEW m \in Mids
    PROVE  /\ Waiting(m)' => Waiting(m) \/ m = patch[p].job.mid
           /\ Touched(m)' => Touched(m)
           /\ pushes'[patch[p].job.mid] = pushes[patch[p].job.mid] + 1
           /\ pushes[patch[p].job.mid] \in Nat
  <1>1. /\ \A i \in 1..Len(queue') :
              (i \in 1..Len(queue) /\ queue'[i] = queue[i]) \/ queue'[i] = patch[p].job
        /\ pushes'[patch[p].job.mid] = pushes[patch[p].job.mid] + 1
        /\ pushes[patch[p].job.mid] \in Nat
    BY SMTT(30), PushedJob DEF Pushes, TypeOK
  <1>. QED BY <1>1 DEF Pushes, Waiting, Touched, Reported, Answered, Holding

(* What is touched after a step was touched before, unless the relay has    *)
(* just taken it.                                                           *)
LEMMA TouchedMoves ==
    ASSUME TypeOK, TypeOK', JobsAreIssued,
           \/ Calm \/ ServePoll \/ PostSent
           \/ \E sent, ok \in BOOLEAN : SendIMessage(sent, ok),
           NEW m \in Mids, Touched(m)'
    PROVE  Touched(m)
  <1>1. CASE Calm
    BY <1>1 DEF Calm, SameHand, SameReports, Touched
  <1>2. CASE ServePoll
    BY <1>2 DEF ServePoll, Touched, Reported, Holding
  <1>3. CASE PostSent
    <2>1. /\ relay.pc = "posting" /\ relay'.job = relay.job /\ UNCHANGED <<delivered, outcomes>>
          /\ \A h \in posts' : h \in posts \/ h.mid = relay.job.mid
      BY <1>3 DEF PostSent, TypeOK, Relays
    <2>. QED BY <2>1 DEF Touched, Reported, Holding
  <1>4. ASSUME NEW sent \in BOOLEAN, NEW ok \in BOOLEAN, SendIMessage(sent, ok)
        PROVE  Touched(m)
    <2>1. /\ relay.pc = "sending" /\ relay'.job = relay.job /\ UNCHANGED <<posts, outcomes>>
          /\ \A n \in Mids : n # relay.job.mid => delivered'[n] = delivered[n]
      BY <1>4 DEF SendIMessage, TypeOK, Relays
    <2>. QED BY <2>1 DEF Touched, Reported, Holding
  <1>. QED BY <1>1, <1>2, <1>3, <1>4

(* An id of which there is one copy is not both answered and in the list.   *)
LEMMA OneCopyOneAnswer ==
    ASSUME TypeOK, CopiesAreCounted, JobsAreIssued, Answered, Single(poll.job.mid)
    PROVE  \A i \in 1..Len(queue) : queue[i].mid # poll.job.mid
  <1>. DEFINE m == poll.job.mid
  <1>1. m \in Mids /\ InAnswer(m) = 1
    BY JobInReply DEF Answered, InAnswer
  <1>2. /\ delivered[m] \in Nat /\ InSending(m) \in Nat
        /\ Cardinality(InList(m)) \in Nat /\ IsFiniteSet(InList(m))
        /\ pushes[m] \in Nat /\ pushes[m] <= 1
        /\ delivered[m] + InSending(m) + InAnswer(m) + Cardinality(InList(m)) <= pushes[m]
    BY <1>1, CopiesInList DEF TypeOK, InSending, CopiesAreCounted, Single
  <1>3. Cardinality(InList(m)) = 0
    BY <1>1, <1>2
  <1>4. InList(m) = {}
    BY <1>2, <1>3, FS_EmptySet
  <1>. QED BY <1>4 DEF InList

(* No step touches an id that is still waiting, or sends one that was touched. *)
LEMMA WaitingStep ==
    ASSUME TypeOK, JobsAreIssued, TypeOK', WaitingIsUntouched, QueuedFirst,
           CopiesAreCounted, RowsMatchDispatches, [Next]_vars
    PROVE  WaitingIsUntouched'
  <1>0. \A m \in Mids : Single(m)' => Single(m)
    BY PushesGrow
  <1>1. CASE Calm
    <2>1. relay'.pc = "sending" => /\ relay.pc = "sending" /\ relay'.job = relay.job
                                   /\ relay.job.mid \in Mids
      BY <1>1, JobInHand DEF Calm, SameHand
    <2>. QED BY <1>0, <1>1, <2>1, WaitingMoves, TouchedMoves
             DEF WaitingIsUntouched, Calm, SameReports
  <1>2. CASE ServePoll
    <2>1. UNCHANGED <<relay, posts, outcomes>> /\ (relay.pc = "sending" => relay.job.mid \in Mids)
      BY <1>2, JobInHand DEF ServePoll
    <2>. QED BY <1>0, <1>2, <2>1, WaitingMoves, TouchedMoves
             DEF WaitingIsUntouched, Reported
  <1>3. ASSUME NEW p \in Patchers, Pushes(p)
        PROVE  WaitingIsUntouched'
    <2>. DEFINE n == patch[p].job.mid
    <2>1. n \in Mids /\ UNCHANGED <<relay, posts, outcomes>>
          /\ (relay.pc = "sending" => relay.job.mid \in Mids)
      BY <1>3, EnqueuedJob, JobInHand DEF Pushes, RunPush
    <2>2. \A m \in Mids : m = n /\ Single(m)' => pushes[m] = 0
      BY <1>3, <2>1, PushedWaits DEF Single
    <2>3. \A m \in Mids : m = n /\ Single(m)' => ~Touched(m)
      BY <2>2 DEF QueuedFirst
    <2>4. ASSUME NEW m \in Mids, Waiting(m)', Single(m)'
          PROVE  ~Touched(m)'
      <3>1. ~Touched(m)
        BY <1>0, <1>3, <2>3, <2>4, PushedWaits DEF WaitingIsUntouched
      <3>. QED BY <1>3, <3>1, PushedWaits
    <2>5. relay'.pc = "sending" /\ Single(relay.job.mid)' => ~Reported(relay.job.mid)'
      <3>1. \A m \in Mids : Reported(m)' => Reported(m)
        BY <2>1 DEF Reported
      <3>. QED BY <1>0, <2>1, <3>1 DEF WaitingIsUntouched, Single
    <2>. QED BY <2>4, <2>5 DEF WaitingIsUntouched
  <1>4. CASE RelayReceive
    <2>1. /\ Answered /\ poll.job.mid \in Mids /\ ~Answered'
          /\ relay'.pc = "sending" /\ relay'.job = poll.job
          /\ UNCHANGED <<queue, posts, outcomes, delivered, pushes>>
      BY <1>4, JobInReply DEF RelayReceive, TypeOK, Relays, NoPoll, Answered
    <2>2. Single(poll.job.mid) => ~Touched(poll.job.mid)
      BY <2>1 DEF WaitingIsUntouched, Waiting
    <2>3. \A m \in Mids : Waiting(m)' /\ Single(m) => Waiting(m) /\ m # poll.job.mid
      BY <2>1, OneCopyOneAnswer DEF Waiting
    <2>4. \A m \in Mids : Touched(m)' => Touched(m) \/ m = poll.job.mid
      BY <2>1 DEF Touched, Reported
    <2>5. \A m \in Mids : Waiting(m)' /\ Single(m)' => ~Touched(m)'
      BY <1>0, <2>3, <2>4 DEF WaitingIsUntouched
    <2>6. Single(poll.job.mid) => ~Reported(poll.job.mid)
      BY <2>2 DEF Touched
    <2>7. Single(relay.job.mid)' => ~Reported(relay.job.mid)'
      BY <2>1, <2>6 DEF Reported, Single
    <2>. QED BY <2>1, <2>5, <2>7 DEF WaitingIsUntouched, Single
  <1>5. ASSUME PostSent \/ \E sent, ok \in BOOLEAN : SendIMessage(sent, ok)
        PROVE  WaitingIsUntouched'
    <2>1. UNCHANGED <<queue, poll>> /\ relay'.pc # "sending"
      BY <1>5 DEF PostSent, SendIMessage, TypeOK, Relays
    <2>2. \A m \in Mids : Waiting(m)' => Waiting(m)
      BY <2>1 DEF Waiting, Answered
    <2>. QED BY <1>0, <1>5, <2>1, <2>2, TouchedMoves DEF WaitingIsUntouched
  <1>. QED BY <1>1, <1>2, <1>3, <1>4, <1>5, Moves

(* Every step keeps it that an id waits, or is touched, only once it was    *)
(* queued, and is queued twice only after an unread reply.                  *)
LEMMA QueuedFirstStep ==
    ASSUME TypeOK, TypeOK', JobsAreIssued, RowsMatchDispatches, QueuedFirst,
           [Next]_vars
    PROVE  QueuedFirst'
  <1>1. ASSUME NEW m \in Mids, Waiting(m)' \/ Touched(m)'
        PROVE  pushes'[m] > 0
    <2>0. pushes[m] \in Nat /\ pushes'[m] \in Nat /\ pushes[m] <= pushes'[m]
      <3>1. pushes[m] \in Nat /\ pushes'[m] \in Nat
        BY DEF TypeOK
      <3>. QED BY <3>1, PushesGrow
    <2>1. CASE Calm \/ ServePoll
      BY <1>1, <2>0, <2>1, WaitingMoves, TouchedMoves DEF QueuedFirst
    <2>2. ASSUME NEW p \in Patchers, Pushes(p)
          PROVE  pushes'[m] > 0
      BY <1>1, <2>0, <2>2, PushedWaits DEF QueuedFirst
    <2>3. CASE RelayReceive
      <3>1. /\ Answered /\ relay'.job = poll.job
            /\ UNCHANGED <<posts, outcomes, delivered>>
        BY <2>3 DEF RelayReceive, Answered, TypeOK, Relays
      <3>2. Touched(m)' => Touched(m) \/ Waiting(m)
        BY <3>1 DEF Touched, Reported, Waiting
      <3>. QED BY <1>1, <2>0, <2>3, <3>2, WaitingMoves DEF QueuedFirst
    <2>4. ASSUME PostSent \/ \E sent, ok \in BOOLEAN : SendIMessage(sent, ok)
          PROVE  pushes'[m] > 0
      <3>1. Waiting(m)' => Waiting(m)
        BY <2>4 DEF PostSent, SendIMessage, Waiting, Answered
      <3>. QED BY <1>1, <2>0, <2>4, <3>1, TouchedMoves DEF QueuedFirst
    <2>. QED BY <2>1, <2>2, <2>3, <2>4, Moves
  <1>p. ASSUME NEW p \in Patchers, RunPush(p),
               \/ UNCHANGED unanswered /\ ~Enqueuing(p)'
               \/ unanswered' = unanswered \cup {patch[p].job.mid} /\ UNCHANGED patch,
               \A q \in Patchers : q # p => patch'[q] = patch[q]
        PROVE  QueuedFirst'
    <2>. DEFINE n == patch[p].job.mid
    <2>1. /\ n \in Mids /\ Enqueuing(p) /\ pushes[n] \in Nat
          /\ pushes'[n] = pushes[n] + 1
          /\ \A m \in Mids : m # n => pushes'[m] = pushes[m]
      BY <1>p, PushedJob DEF RunPush, Enqueuing, TypeOK
    <2>2. n \notin unanswered => pushes[n] = 0
      BY <2>1 DEF QueuedFirst
    <2>3. \A m \in Mids : m \notin unanswered' => pushes'[m] <= 1
      BY <1>p, <2>1, <2>2 DEF QueuedFirst, Single
    <2>4. \A q \in Patchers : Enqueuing(q)' => Enqueuing(q) /\ patch'[q] = patch[q]
      BY <1>p, <2>1 DEF Enqueuing
    <2>5. \A q, r \in Patchers : Enqueuing(q)' /\ Enqueuing(r)' /\ q # r =>
             patch'[q].job.mid # patch'[r].job.mid
      BY <2>4 DEF QueuedFirst
    <2>6. ASSUME NEW q \in Patchers, Enqueuing(q)', pushes'[patch'[q].job.mid] > 0
          PROVE  patch'[q].job.mid \in unanswered'
      <3>1. CASE q = p
        BY <1>p, <2>6, <3>1
      <3>2. CASE q # p
        <4>1. /\ Enqueuing(q) /\ patch'[q] = patch[q] /\ patch[q].job.mid # n
              /\ patch[q].job.mid \in Mids
          BY <2>1, <2>4, <2>6, <3>2, EnqueuedJob DEF QueuedFirst, Enqueuing
        <4>. QED BY <1>p, <2>1, <2>6, <4>1 DEF QueuedFirst
      <3>. QED BY <3>1, <3>2
    <2>. QED BY <1>1, <2>3, <2>5, <2>6 DEF QueuedFirst, Single
  <1>2. ASSUME NEW p \in Patchers, EnqueueDispatch(p) \/ EnqueueUnanswered(p)
        PROVE  QueuedFirst'
    <2>1. CASE EnqueueDispatch(p)
      <3>1. ~Enqueuing(p)' /\ \A q \in Patchers : q # p => patch'[q] = patch[q]
        BY <2>1 DEF EnqueueDispatch, IdlePatch, Enqueuing, TypeOK
      <3>. QED BY <1>p, <2>1, <3>1 DEF EnqueueDispatch
    <2>2. CASE EnqueueUnanswered(p)
      BY <1>p, <2>2 DEF EnqueueUnanswered
    <2>. QED BY <1>2, <2>1, <2>2
  <1>m. ASSUME NEW p \in Patchers, NEW job, Mints(p, job)
        PROVE  QueuedFirst'
    <2>1. /\ job.mid \in Mids /\ patch'[p].job = job /\ issued[job.mid] = None
          /\ \A q \in Patchers : q # p => patch'[q] = patch[q]
          /\ UNCHANGED <<pushes, unanswered>>
      BY <1>m, Minted DEF Mints
    <2>2. pushes'[job.mid] = 0
      BY <2>1, KnownIds
    <2>3. \A q \in Patchers : q # p /\ Enqueuing(q) => patch[q].job.mid # job.mid
      BY <2>1, EnqueuedJob, ConstantsAssumption DEF JobsAreIssued, Enqueuing
    <2>4. \A q \in Patchers : Enqueuing(q)' /\ pushes'[patch'[q].job.mid] > 0 =>
             patch'[q].job.mid \in unanswered'
      BY <2>1, <2>2 DEF QueuedFirst, Enqueuing
    <2>5. \A q, r \in Patchers : Enqueuing(q)' /\ Enqueuing(r)' /\ q # r =>
             patch'[q].job.mid # patch'[r].job.mid
      BY <2>1, <2>3 DEF QueuedFirst, Enqueuing
    <2>6. \A m \in Mids : m \notin unanswered' => Single(m)'
      BY <2>1 DEF QueuedFirst, Single
    <2>. QED BY <1>1, <2>4, <2>5, <2>6 DEF QueuedFirst
  <1>3. ASSUME NEW p \in Patchers, NEW m \in Mids,
               \/ \E d \in Drafts, st \in Statuses \cup {None}, b \in Bodies \cup {None} :
                     PatchApprove(p, d, st, b, m)
               \/ \E b \in Bodies : DirectSend(p, m, b)
        PROVE  QueuedFirst'
    BY <1>3, <1>m, Minting
  <1>4. ASSUME UNCHANGED <<pushes, unanswered>>,
               \A q \in Patchers : Enqueuing(q)' => Enqueuing(q) /\ patch'[q] = patch[q]
        PROVE  QueuedFirst'
    BY <1>1, <1>4 DEF QueuedFirst, Single
  <1>5. ASSUME NEW p \in Patchers, EnqueueRefused(p) \/ AnnounceApproved(p)
        PROVE  QueuedFirst'
    <2>1. UNCHANGED <<pushes, unanswered>>
      BY <1>5 DEF EnqueueRefused, AnnounceApproved
    <2>2. patch' = [patch EXCEPT ![p] = IdlePatch]
      BY <1>5 DEF EnqueueRefused, AnnounceApproved
    <2>. QED BY <1>4, <2>1, <2>2 DEF Enqueuing, IdlePatch, TypeOK
  <1>6. CASE BridgeCrash
    <2>1. \A q \in Patchers : ~Enqueuing(q)'
      BY <1>6 DEF BridgeCrash, Enqueuing, IdlePatch
    <2>2. UNCHANGED <<pushes, unanswered>>
      BY <1>6 DEF BridgeCrash
    <2>. QED BY <1>4, <2>1, <2>2
  <1>7. CASE UNCHANGED <<patch, pushes, unanswered>>
    BY <1>4, <1>7 DEF Enqueuing
  <1>. QED BY <1>2, <1>3, <1>5, <1>6, <1>7, Frames
        DEF Next, Request, Handler, Outbound, Failure, Restart

(* A step that repeats what was reported, and tells nothing else, keeps the *)
(* reports in agreement.                                                    *)
SameVerdict ==
    Reporting' => /\ Reporting /\ relay'.job = relay.job
                  /\ relay'.ok = relay.ok /\ relay'.attempt >= 1

LEMMA ReportsKept ==
    ASSUME TypeOK, TypeOK', JobsAreIssued, ReportsAgree, SameVerdict,
           UNCHANGED delivered, \A m \in Mids : Single(m)' => Single(m),
           \A k \in posts' :
              \/ k \in posts
              \/ \E h \in posts : /\ k.mid = h.mid /\ k.ok = h.ok
                                  /\ k.pc = "correlate" => <<k.mid, k.ok>> \in outcomes',
           outcomes \subseteq outcomes',
           \A m \in Mids, ok \in BOOLEAN : <<m, ok>> \in outcomes' =>
              <<m, ok>> \in outcomes \/ \E h \in posts : h.mid = m /\ h.ok = ok
    PROVE  ReportsAgree'
  <1>1. /\ \A h \in posts : h.mid \in Mids /\ h.ok \in BOOLEAN
        /\ \A k \in posts' : k.mid \in Mids /\ k.ok \in BOOLEAN
    BY DEF TypeOK, Reports
  <1>2. \A k \in posts' : \E h \in posts : k.mid = h.mid /\ k.ok = h.ok
    OBVIOUS
  <1>3. Reporting => relay.job.mid \in Mids
    BY JobInHand DEF Reporting
  <1>4. \A h, k \in posts' : h.mid = k.mid /\ Single(h.mid)' => h.ok = k.ok
    BY <1>1, <1>2 DEF ReportsAgree
  <1>5. \A h \in posts', ok \in BOOLEAN :
           <<h.mid, ok>> \in outcomes' /\ Single(h.mid)' => h.ok = ok
    BY <1>1, <1>2 DEF ReportsAgree
  <1>6. \A h \in posts' : h.ok => delivered'[h.mid] > 0
    BY <1>2 DEF ReportsAgree
  <1>7. \A h \in posts' : h.pc = "correlate" => <<h.mid, h.ok>> \in outcomes'
    BY DEF ReportsAgree
  <1>8. \A m \in Mids : <<m, TRUE>> \in outcomes' => delivered'[m] > 0
    BY DEF ReportsAgree
  <1>9. ASSUME Reporting'
        PROVE  /\ \A h \in posts' : h.mid = relay'.job.mid /\ Single(h.mid)' => h.ok = relay'.ok
               /\ \A ok \in BOOLEAN : <<relay'.job.mid, ok>> \in outcomes'
                                      /\ Single(relay.job.mid)' => ok = relay'.ok
               /\ relay'.ok => delivered'[relay'.job.mid] > 0
               /\ relay'.attempt >= 1
    <2>1. /\ Reporting /\ relay'.job = relay.job /\ relay'.ok = relay.ok
          /\ relay'.attempt >= 1 /\ relay.job.mid \in Mids
      BY <1>3, <1>9 DEF SameVerdict
    <2>2. \A h \in posts' : h.mid = relay.job.mid /\ Single(h.mid)' => h.ok = relay.ok
      BY <1>1, <1>2, <2>1 DEF ReportsAgree
    <2>3. \A ok \in BOOLEAN : <<relay.job.mid, ok>> \in outcomes'
             /\ Single(relay.job.mid)' => ok = relay.ok
      BY <1>1, <2>1 DEF ReportsAgree
    <2>4. relay.ok => delivered'[relay.job.mid] > 0
      BY <2>1 DEF ReportsAgree
    <2>. QED BY <2>1, <2>2, <2>3, <2>4 DEF Single
  <1>. QED BY <1>4, <1>5, <1>6, <1>7, <1>8, <1>9 DEF ReportsAgree, Single

(* No step tells two stories of one id. *)
LEMMA ReportsStep ==
    ASSUME TypeOK, JobsAreIssued, TypeOK', ReportsAgree, WaitingIsUntouched,
           RowsMatchDispatches, [Next]_vars
    PROVE  ReportsAgree'
  <1>0. \A m \in Mids : Single(m)' => Single(m)
    BY PushesGrow
  <1>1. ASSUME NEW h \in posts, PublishOutcome(h)
        PROVE  ReportsAgree'
    <2>1. \A k \in posts' : k \in posts \/ (/\ k.mid = h.mid /\ k.ok = h.ok
                                            /\ <<k.mid, k.ok>> \in outcomes')
      BY <1>1 DEF PublishOutcome, TypeOK, Reports
    <2>2. /\ UNCHANGED <<relay, delivered>>
          /\ outcomes' = outcomes \cup {<<h.mid, h.ok>>}
      BY <1>1 DEF PublishOutcome
    <2>3. SameVerdict
      BY <2>2 DEF SameVerdict, Reporting, ReportsAgree
    <2>. QED BY <1>0, <2>1, <2>2, <2>3, ReportsKept
  <1>2. ASSUME NEW h \in posts, PublishFails(h)
        PROVE  ReportsAgree'
    <2>1. UNCHANGED relay \/ (relay' = NextAttempt /\ relay.pc = "awaiting")
      BY <1>2 DEF PublishFails, IsAwaited
    <2>2. SameVerdict
      BY <2>1, NextAttemptFields DEF SameVerdict, Reporting, TypeOK, Relays, ReportsAgree
    <2>3. /\ posts' \subseteq posts /\ UNCHANGED delivered
          /\ outcomes' \in {outcomes, outcomes \cup {<<h.mid, h.ok>>}}
      BY <1>2 DEF PublishFails
    <2>. QED BY <1>0, <2>2, <2>3, ReportsKept
  <1>3. ASSUME NEW h \in posts, Correlate(h) \/ CorrelationFails(h)
        PROVE  ReportsAgree'
    <2>1. /\ posts' \subseteq posts /\ UNCHANGED <<delivered, outcomes>>
          /\ UNCHANGED relay \/ relay' = IdleRelay
      BY <1>3 DEF Correlate, CorrelationFails, Acknowledge
    <2>2. SameVerdict
      BY <2>1 DEF SameVerdict, Reporting, IdleRelay, ReportsAgree
    <2>. QED BY <1>0, <2>1, <2>2, ReportsKept
  <1>4. ASSUME posts' \subseteq posts, UNCHANGED <<outcomes, delivered>>, SameVerdict
        PROVE  ReportsAgree'
    BY <1>0, <1>4, ReportsKept
  <1>5. CASE PollEmpty \/ RelayPoll \/ RelayReceive
    <2>1. ~Reporting' /\ UNCHANGED <<posts, outcomes, delivered>>
      BY <1>5 DEF PollEmpty, RelayPoll, RelayReceive, Reporting, TypeOK, Relays
    <2>. QED BY <1>4, <2>1 DEF SameVerdict
  <1>6. CASE DropMalformed \/ ThreadDies \/ RelayCrash \/ RelayStart
    <2>1. ~Reporting' /\ UNCHANGED <<posts, outcomes, delivered>>
      BY <1>6 DEF DropMalformed, ThreadDies, RelayCrash, RelayStart, Reporting, IdleRelay
    <2>. QED BY <1>4, <2>1 DEF SameVerdict
  <1>7. CASE PostRefused
    <2>1. SameVerdict
      BY <1>7, NextAttemptFields DEF SameVerdict, PostRefused, Reporting, TypeOK,
         Relays, ReportsAgree
    <2>. QED BY <1>4, <1>7, <2>1 DEF PostRefused
  <1>8. CASE ConnectionLost \/ BridgeCrash
    <2>1. /\ relay' = AfterTransportError /\ posts' \subseteq posts
          /\ UNCHANGED <<outcomes, delivered>>
      BY <1>8 DEF ConnectionLost, BridgeCrash
    <2>2. SameVerdict
      BY <2>1, AfterTransportErrorFields DEF SameVerdict, Reporting, TypeOK,
         Relays, ReportsAgree
    <2>. QED BY <1>4, <2>1, <2>2
  <1>9. ASSUME NEW sent \in BOOLEAN, NEW ok \in BOOLEAN, SendIMessage(sent, ok)
        PROVE  ReportsAgree'
    <2>1. /\ relay.pc = "sending" /\ relay.job.mid \in Mids
          /\ \A n \in Mids : delivered[n] \in Nat
      BY <1>9, JobInHand DEF SendIMessage, TypeOK
    <2>2. /\ relay'.job = relay.job /\ relay'.ok = ok /\ relay'.attempt = 1
          /\ ok => delivered'[relay.job.mid] > 0
      BY <1>9, <2>1 DEF SendIMessage, TypeOK, Relays
    <2>3. \A n \in Mids : delivered[n] > 0 => delivered'[n] > 0
      BY <1>9, <2>1 DEF SendIMessage, TypeOK
    <2>4. Single(relay.job.mid) =>
             /\ \A h \in posts : h.mid # relay.job.mid
             /\ \A k \in BOOLEAN : <<relay.job.mid, k>> \notin outcomes
      BY <2>1 DEF WaitingIsUntouched, Reported
    <2>5. /\ UNCHANGED <<posts, outcomes, pushes>>
          /\ \A h \in posts : h.mid \in Mids
      BY <1>9 DEF SendIMessage, TypeOK, Reports
    <2>6. Reporting' =>
            /\ \A h \in posts' : h.mid = relay'.job.mid /\ Single(h.mid) => h.ok = relay'.ok
            /\ \A k \in BOOLEAN :
                  <<relay'.job.mid, k>> \in outcomes' /\ Single(relay'.job.mid) => k = relay'.ok
            /\ relay'.ok => delivered'[relay'.job.mid] > 0
            /\ relay'.attempt >= 1
      BY <2>2, <2>4, <2>5
    <2>7. /\ \A h \in posts : h.ok => delivered'[h.mid] > 0
          /\ \A n \in Mids : <<n, TRUE>> \in outcomes => delivered'[n] > 0
      BY <2>3, <2>5 DEF ReportsAgree
    <2>. QED BY <2>5, <2>6, <2>7 DEF ReportsAgree, Single
  <1>10. CASE PostSent
    <2>1. relay'.job = relay.job /\ relay'.ok = relay.ok
          /\ relay'.attempt = relay.attempt
      BY <1>10 DEF PostSent, TypeOK, Relays
    <2>2. \A h \in posts' : h \in posts \/ (/\ h.mid = relay.job.mid
                                            /\ h.ok = relay.ok
                                            /\ h.pc = "publish")
      BY <1>10 DEF PostSent
    <2>3. Reporting /\ UNCHANGED <<outcomes, delivered, pushes>>
      BY <1>10 DEF PostSent, Reporting
    <2>. QED BY <2>1, <2>2, <2>3 DEF ReportsAgree, Single
  <1>11. CASE UNCHANGED <<relay, posts, outcomes, delivered>>
    <2>1. SameVerdict
      BY <1>11 DEF SameVerdict, Reporting, ReportsAgree
    <2>. QED BY <1>4, <1>11, <2>1
  <1>. QED BY <1>1, <1>2, <1>3, <1>5, <1>6, <1>7, <1>8, <1>9, <1>10, <1>11,
     Frames DEF Next, Request, Handler, Outbound, Failure, Restart

(* An event is published only if it agrees with those published before. *)
LEMMA OutcomesStep ==
    ASSUME TypeOK, TypeOK', JobsAreIssued, ReportsAgree, OutcomesAgree, [Next]_vars
    PROVE  OutcomesAgree'
  <1>0. \A m \in Mids : Single(m)' => Single(m)
    BY PushesGrow
  <1>1. ASSUME NEW h \in posts, PublishOutcome(h) \/ PublishFails(h)
       PROVE  OutcomesAgree'
    <2>1. outcomes' \subseteq outcomes \cup {<<h.mid, h.ok>>}
      BY <1>1 DEF PublishOutcome, PublishFails
    <2>2. \A ok \in BOOLEAN : <<h.mid, ok>> \in outcomes /\ Single(h.mid) => h.ok = ok
      BY DEF ReportsAgree
    <2>3. h.mid \in Mids /\ h.ok \in BOOLEAN
      BY DEF TypeOK, Reports
    <2>. QED BY <1>0, <2>1, <2>2, <2>3 DEF OutcomesAgree
  <1>2. CASE UNCHANGED outcomes
    BY <1>0, <1>2 DEF OutcomesAgree
  <1>. QED BY <1>1, <1>2, Frames DEF Next, Request, Handler, Outbound,
     Failure, Restart

(* Only an approval mints an id for a draft. *)
LEMMA GrantsStep ==
    ASSUME TypeOK, GrantsNeedApproval, RowsMatchDispatches, [Next]_vars
    PROVE  GrantsNeedApproval'
  <1>1. ASSUME NEW d \in Drafts, NEW b \in Bodies, CreateDraft(d, b)
       PROVE  GrantsNeedApproval'
    <2>1. \A e \in Drafts : rows'[e].dispatch = rows[e].dispatch
      BY <1>1 DEF CreateDraft, RowsMatchDispatches, RowMatches, TypeOK
    <2>. QED BY <1>1, <2>1 DEF CreateDraft, GrantsNeedApproval
  <1>2. ASSUME NEW d \in Drafts, NEW st \in Statuses \cup {None}, NEW b \in
               Bodies \cup {None}, PatchRow(d, st, b)
       PROVE  GrantsNeedApproval'
    BY <1>2, ConstantsAssumption DEF PatchRow, PatchedBody, Target,
       PatchAccepted, AllowedTransitions, GrantsNeedApproval,
       RowsMatchDispatches, RowMatches, TypeOK, Rows
  <1>3. ASSUME NEW p \in Patchers, NEW d \in Drafts, NEW st \in Statuses \cup
               {None}, NEW b \in Bodies \cup {None}, NEW m \in Mids,
               PatchApprove(p, d, st, b, m)
       PROVE  GrantsNeedApproval'
    BY <1>3, ConstantsAssumption DEF PatchApprove, PatchedBody, DispatchJob,
       Target, PatchAccepted, AllowedTransitions, GrantsNeedApproval,
       RowsMatchDispatches, RowMatches, TypeOK, Rows
  <1>4. ASSUME NEW p \in Patchers, NEW m \in Mids, NEW b \in Bodies, DirectSend(p, m, b)
       PROVE  GrantsNeedApproval'
    BY <1>4, ConstantsAssumption DEF DirectSend, GrantsNeedApproval,
       RowsMatchDispatches, RowMatches, TypeOK, Rows
  <1>5. ASSUME NEW h \in posts, Correlate(h)
       PROVE  GrantsNeedApproval'
    BY <1>5, ConstantsAssumption DEF Correlate, Correlated, Acknowledge,
       IdleRelay, IsAwaited, GrantsNeedApproval, RowsMatchDispatches, RowMatches, TypeOK,
       Rows
  <1>6. CASE UNCHANGED <<rows, issued>>
    BY <1>6 DEF GrantsNeedApproval, RowsMatchDispatches, RowMatches, TypeOK, Rows
  <1>. QED BY <1>1, <1>2, <1>3, <1>4, <1>5, <1>6, Frames DEF Next, Request,
     Handler, Outbound, Failure, Restart

(* The relay polls exactly while the bridge holds a poll for it. *)
LEMMA PollStep ==
    ASSUME TypeOK, PollMatchesRelay, [Next]_vars
    PROVE  PollMatchesRelay'
  <1>1. ASSUME NEW h \in posts, PublishFails(h)
       PROVE  PollMatchesRelay'
    BY <1>1, NextAttemptFields DEF PublishFails, IsAwaited, PollMatchesRelay
  <1>2. ASSUME NEW h \in posts, Correlate(h)
       PROVE  PollMatchesRelay'
    BY <1>2 DEF Correlate, Correlated, Acknowledge, IdleRelay, IsAwaited,
       PollMatchesRelay, TypeOK, Relays
  <1>3. ASSUME NEW h \in posts, CorrelationFails(h)
       PROVE  PollMatchesRelay'
    BY <1>3 DEF CorrelationFails, Acknowledge, IdleRelay, IsAwaited, Fault,
       PollMatchesRelay, TypeOK, Relays
  <1>4. CASE ServePoll
    BY <1>4 DEF ServePoll, PollMatchesRelay, TypeOK, Relays
  <1>5. CASE PollEmpty
    BY <1>5 DEF PollEmpty, NoPoll, PollMatchesRelay, TypeOK, Relays
  <1>6. CASE RelayPoll
    BY <1>6 DEF RelayPoll, PollMatchesRelay, TypeOK, Relays
  <1>7. CASE RelayReceive
    BY <1>7 DEF RelayReceive, NoPoll, PollMatchesRelay, TypeOK, Relays
  <1>8. CASE DropMalformed
    BY <1>8 DEF DropMalformed, IdleRelay, PollMatchesRelay, TypeOK, Relays
  <1>9. ASSUME NEW sent \in BOOLEAN, NEW ok \in BOOLEAN, SendIMessage(sent,
               ok)
       PROVE  PollMatchesRelay'
    BY <1>9 DEF SendIMessage, PollMatchesRelay, TypeOK, Relays
  <1>10. CASE PostSent
    BY <1>10 DEF PostSent, PollMatchesRelay, TypeOK, Relays
  <1>11. CASE PostRefused
    BY <1>11 DEF PostRefused, NextAttempt, IdleRelay, GaveUp,
       PollMatchesRelay, TypeOK, Relays
  <1>12. CASE ConnectionLost
    BY <1>12 DEF ConnectionLost, Fault, AbandonPoll, NoPoll,
       AfterTransportError, NextAttempt, IdleRelay, LostByTransportError,
       InReply, GaveUp, PollMatchesRelay, TypeOK, Relays
  <1>13. CASE ThreadDies
    BY <1>13 DEF ThreadDies, Fault, AbandonPoll, NoPoll, IdleRelay, InReply,
       InHand, PollMatchesRelay, TypeOK, Relays
  <1>14. CASE RelayCrash
    BY <1>14 DEF RelayCrash, Fault, AbandonPoll, NoPoll, IdleRelay, InReply,
       InHand, PollMatchesRelay, TypeOK, Relays
  <1>15. CASE BridgeCrash
    BY <1>15 DEF BridgeCrash, Fault, NoPoll, IdlePatch, AfterTransportError,
       NextAttempt, IdleRelay, LostByTransportError, InReply, GaveUp,
       PollMatchesRelay, TypeOK, Relays
  <1>16. CASE RelayStart
    BY <1>16 DEF RelayStart, IdleRelay, PollMatchesRelay, TypeOK, Relays
  <1>17. CASE UNCHANGED <<poll, relay>>
    BY <1>17 DEF PollMatchesRelay, TypeOK, Relays
  <1>. QED BY <1>1, <1>2, <1>3, <1>4, <1>5, <1>6, <1>7, <1>8, <1>9, <1>10,
     <1>11, <1>12, <1>13, <1>14, <1>15, <1>16, <1>17, Frames DEF Next,
     Request, Handler, Outbound, Failure, Restart

(* A row changes only with its dispatch id, or as reported under it. *)
LEMMA RowsStep ==
    ASSUME TypeOK, RowsMatchDispatches, ReportsAgree, [Next]_vars
    PROVE  RowsMatchDispatches'
  <1>1. ASSUME NEW d \in Drafts, NEW b \in Bodies, CreateDraft(d, b)
       PROVE  RowsMatchDispatches'
    <2>1. RowMatches(d)'
      <3>1. rows'[d].dispatch = None /\ rows'[d].status = "pending"
            /\ rows'[d].body \in Bodies
        <4>1. rows'[d] = [status |-> "pending", dispatch |-> None, body |-> b]
          BY <1>1 DEF CreateDraft, TypeOK
        <4>. QED BY <4>1
      <3>. QED BY <3>1, ConstantsAssumption DEF RowMatches
    <2>2. \A e \in Drafts : e # d => RowMatches(e)'
      <3>1. /\ \A e \in Drafts : e # d => rows'[e] = rows[e]
            /\ UNCHANGED <<issued, outcomes>>
        BY <1>1 DEF CreateDraft, TypeOK, history
      <3>. QED BY <3>1 DEF RowsMatchDispatches, RowMatches
    <2>. QED BY <2>1, <2>2 DEF RowsMatchDispatches
  <1>2. ASSUME NEW d \in Drafts, NEW st \in Statuses \cup {None}, NEW b \in
               Bodies \cup {None}, PatchRow(d, st, b)
       PROVE  RowsMatchDispatches'
    <2>1. /\ rows'[d].status \in {rows[d].status, "rejected"}
          /\ rows'[d].dispatch = rows[d].dispatch /\ rows'[d].body \in Bodies
          /\ rows[d].status # None
      <3>1. /\ Target(d, st) \in {rows[d].status, "rejected"}
            /\ PatchedBody(d, b) \in Bodies /\ rows[d].status # None
        <4>1. rows[d].status # None /\ Target(d, st) # "approved"
          BY <1>2 DEF PatchRow, PatchAccepted
        <4>2. Target(d, st) \in {rows[d].status, "rejected"}
          BY <1>2, <4>1 DEF PatchRow, PatchAccepted, AllowedTransitions, Target,
                         TypeOK, Rows, Statuses
        <4>3. PatchedBody(d, b) \in Bodies
          BY <4>1 DEF PatchedBody, RowsMatchDispatches, RowMatches
        <4>. QED BY <4>1, <4>2, <4>3
      <3>2. rows'[d] = [rows[d] EXCEPT !.status = Target(d, st),
                                       !.body = PatchedBody(d, b)]
        BY <1>2 DEF PatchRow, TypeOK
      <3>3. rows[d] \in Rows
        BY DEF TypeOK
      <3>. QED BY <3>1, <3>2, <3>3 DEF Rows
    <2>2. /\ \A e \in Drafts : e # d => rows'[e] = rows[e]
          /\ UNCHANGED <<issued, outcomes>>
      BY <1>2 DEF PatchRow, TypeOK
    <2>3. RowMatches(d)'
      BY <2>1, <2>2, ConstantsAssumption DEF RowsMatchDispatches, RowMatches, Statuses
    <2>4. \A e \in Drafts : e # d => RowMatches(e)'
      BY <2>2 DEF RowsMatchDispatches, RowMatches
    <2>. QED BY <2>3, <2>4 DEF RowsMatchDispatches
  <1>3. ASSUME NEW p \in Patchers, NEW d \in Drafts, NEW st \in Statuses \cup
               {None}, NEW b \in Bodies \cup {None}, NEW m \in Mids,
               PatchApprove(p, d, st, b, m)
       PROVE  RowsMatchDispatches'
    <2>1. /\ rows'[d].status = "approved" /\ rows'[d].dispatch = m
          /\ rows'[d].body \in Bodies
          /\ \A e \in Drafts : e # d => rows'[e] = rows[e]
      BY <1>3, PatchedJob DEF PatchApprove, TypeOK
    <2>2. /\ issued[m] = None /\ issued'[m] = DispatchJob(d, b, m)
          /\ \A n \in Mids : n # m => issued'[n] = issued[n]
          /\ UNCHANGED outcomes
      BY <1>3 DEF PatchApprove, TypeOK
    <2>3. issued'[m] # None /\ issued'[m].draft = d
      BY <1>3, <2>2, PatchedJob DEF PatchApprove
    <2>4. ASSUME NEW e \in Drafts, e # d, rows[e].dispatch # None
          PROVE  rows[e].dispatch \in Mids /\ rows[e].dispatch # m
      <3>1. rows[e].dispatch \in Mids
        BY <2>4, RowIsTyped
      <3>2. issued[rows[e].dispatch] # None
        BY <2>4 DEF RowsMatchDispatches, RowMatches
      <3>. QED BY <2>2, <3>1, <3>2
    <2>5. RowMatches(d)'
      BY <2>1, <2>2, <2>3, ConstantsAssumption DEF RowMatches, Statuses
    <2>6. \A e \in Drafts : e # d => RowMatches(e)'
      <3>. SUFFICES ASSUME NEW e \in Drafts, e # d  PROVE RowMatches(e)'
        OBVIOUS
      <3>1. RowMatches(e) /\ rows'[e] = rows[e]
        BY <2>1 DEF RowsMatchDispatches
      <3>2. rows[e].dispatch # None => issued'[rows[e].dispatch] = issued[rows[e].dispatch]
        BY <2>2, <2>4
      <3>. QED BY <2>2, <3>1, <3>2 DEF RowMatches
    <2>. QED BY <2>5, <2>6 DEF RowsMatchDispatches
  <1>4. ASSUME NEW p \in Patchers, NEW m \in Mids, NEW b \in Bodies, DirectSend(p, m, b)
       PROVE  RowsMatchDispatches'
    <2>1. /\ issued[m] = None
          /\ \A n \in Mids : n # m => issued'[n] = issued[n]
          /\ UNCHANGED <<rows, outcomes>>
      BY <1>4 DEF DirectSend, TypeOK, bridgeVars
    <2>. SUFFICES ASSUME NEW d \in Drafts  PROVE RowMatches(d)'
      BY DEF RowsMatchDispatches
    <2>2. RowMatches(d)
      BY DEF RowsMatchDispatches
    <2>3. rows[d].dispatch # None => issued'[rows[d].dispatch] = issued[rows[d].dispatch]
      BY <2>1, <2>2, RowIsTyped DEF RowMatches
    <2>. QED BY <2>1, <2>2, <2>3 DEF RowMatches
  <1>5. ASSUME NEW h \in posts, PublishOutcome(h) \/ PublishFails(h)
       PROVE  RowsMatchDispatches'
    <2>1. UNCHANGED <<rows, issued>> /\ outcomes \subseteq outcomes'
      BY <1>5 DEF PublishOutcome, PublishFails
    <2>. QED BY <2>1 DEF RowsMatchDispatches, RowMatches
  <1>6. ASSUME NEW h \in posts, Correlate(h)
       PROVE  RowsMatchDispatches'
    <2>1. h.mid \in Mids /\ h.ok \in BOOLEAN /\ <<h.mid, h.ok>> \in outcomes
      BY <1>6 DEF Correlate, ReportsAgree, TypeOK, Reports
    <2>2. /\ \A e \in Drafts : rows[e].dispatch # h.mid => rows'[e] = rows[e]
          /\ UNCHANGED <<issued, outcomes>>
      BY <1>6 DEF Correlate, Correlated
    <2>3. ASSUME NEW e \in Drafts, rows[e].dispatch = h.mid
          PROVE  /\ rows'[e].status = IF h.ok THEN "sent" ELSE "send_failed"
                 /\ rows'[e].dispatch = h.mid /\ rows'[e].body = rows[e].body
      BY <1>6, <2>3 DEF Correlate, Correlated, TypeOK, Rows
    <2>4. \A e \in Drafts : rows[e].dispatch = h.mid =>
             rows[e].status \notin {None, "pending"}
      BY <2>1, ConstantsAssumption DEF RowsMatchDispatches, RowMatches
    <2>5. \A e \in Drafts : rows[e].dispatch = h.mid => RowMatches(e)'
      <3>. SUFFICES ASSUME NEW e \in Drafts, rows[e].dispatch = h.mid
                    PROVE  RowMatches(e)'
        OBVIOUS
      <3>1. RowMatches(e) /\ rows'[e].status \in {"sent", "send_failed"}
            /\ rows[e].status \notin {None, "pending"} /\ h.mid # None
        BY <2>1, <2>3, <2>4, ConstantsAssumption DEF RowsMatchDispatches
      <3>. QED BY <2>1, <2>2, <2>3, <3>1, ConstantsAssumption DEF RowMatches, Statuses
    <2>6. \A e \in Drafts : rows[e].dispatch # h.mid => RowMatches(e)'
      BY <2>2 DEF RowsMatchDispatches, RowMatches
    <2>. QED BY <2>5, <2>6 DEF RowsMatchDispatches
  <1>7. CASE UNCHANGED <<rows, issued, outcomes>>
    BY <1>7 DEF RowsMatchDispatches, RowMatches, TypeOK, Rows
  <1>. QED BY <1>1, <1>2, <1>3, <1>4, <1>5, <1>6, <1>7, Frames DEF Next,
     Request, Handler, Outbound, Failure, Restart

(* While a row is approved its body is that of its dispatch. *)
LEMMA BodyStep ==
    ASSUME TypeOK, RowsMatchDispatches, ApprovedBodyIsDispatched,
           ReportsAgree, [Next]_vars
    PROVE  ApprovedBodyIsDispatched'
  <1>1. ASSUME NEW d \in Drafts, NEW b \in Bodies, CreateDraft(d, b)
       PROVE  ApprovedBodyIsDispatched'
    BY <1>1, ConstantsAssumption DEF CreateDraft, ApprovedBodyIsDispatched,
       RowsMatchDispatches, RowMatches, TypeOK, Rows
  <1>2. ASSUME NEW d \in Drafts, NEW st \in Statuses \cup {None}, NEW b \in
               Bodies \cup {None}, PatchRow(d, st, b)
       PROVE  ApprovedBodyIsDispatched'
    BY <1>2, ConstantsAssumption DEF PatchRow, PatchedBody, Target,
       PatchAccepted, AllowedTransitions, ApprovedBodyIsDispatched,
       RowsMatchDispatches, RowMatches, TypeOK, Rows
  <1>3. ASSUME NEW p \in Patchers, NEW d \in Drafts, NEW st \in Statuses \cup
               {None}, NEW b \in Bodies \cup {None}, NEW m \in Mids,
               PatchApprove(p, d, st, b, m)
       PROVE  ApprovedBodyIsDispatched'
    <2>1. /\ rows'[d].dispatch = m /\ rows'[d].body = PatchedBody(d, b)
          /\ \A e \in Drafts : e # d => rows'[e] = rows[e]
      BY <1>3, PatchedJob DEF PatchApprove, TypeOK
    <2>2. /\ issued[m] = None /\ issued'[m].body = PatchedBody(d, b)
          /\ \A n \in Mids : n # m => issued'[n] = issued[n]
      BY <1>3, PatchedJob DEF PatchApprove, TypeOK
    <2>3. ASSUME NEW e \in Drafts, e # d, rows[e].status = "approved"
          PROVE  rows[e].dispatch \in Mids /\ rows[e].dispatch # m
      <3>1. rows[e].dispatch # None /\ issued[rows[e].dispatch] # None
        BY <2>3 DEF RowsMatchDispatches, RowMatches
      <3>. QED BY <2>2, <3>1 DEF TypeOK, Rows
    <2>. QED BY <2>1, <2>2, <2>3 DEF ApprovedBodyIsDispatched
  <1>4. ASSUME NEW p \in Patchers, NEW m \in Mids, NEW b \in Bodies, DirectSend(p, m, b)
       PROVE  ApprovedBodyIsDispatched'
    BY <1>4, ConstantsAssumption DEF DirectSend, ApprovedBodyIsDispatched,
       RowsMatchDispatches, RowMatches, TypeOK, Rows
  <1>5. ASSUME NEW h \in posts, Correlate(h)
       PROVE  ApprovedBodyIsDispatched'
    <2>1. UNCHANGED issued
      BY <1>5 DEF Correlate, history
    <2>2. ASSUME NEW d \in Drafts, rows'[d].status = "approved"
          PROVE  rows'[d] = rows[d]
      <3>1. CASE rows[d].dispatch = h.mid
        <4>1. rows[d] \in Rows
          BY DEF TypeOK
        <4>2. rows'[d].status \in {"sent", "send_failed"}
          BY <1>5, <3>1, <4>1 DEF Correlate, Correlated, Rows
        <4>. QED BY <2>2, <4>2
      <3>2. CASE rows[d].dispatch # h.mid
        BY <1>5, <3>2 DEF Correlate, Correlated
      <3>. QED BY <3>1, <3>2
    <2>. QED BY <2>1, <2>2 DEF ApprovedBodyIsDispatched
  <1>6. CASE UNCHANGED <<rows, issued>>
    BY <1>6 DEF ApprovedBodyIsDispatched, RowsMatchDispatches, RowMatches, TypeOK, Rows
  <1>. QED BY <1>1, <1>2, <1>3, <1>4, <1>5, <1>6, Frames DEF Next, Request,
     Handler, Outbound, Failure, Restart

(* An approved row names an id that is underway. *)
LEMMA TrackedIds ==
    ASSUME TypeOK, RowsMatchDispatches, ApprovedIsUnderway, NEW d \in Drafts,
           rows[d].status = "approved"
    PROVE  rows[d].dispatch \in Mids /\ Underway(rows[d].dispatch)
  <1>1. rows[d].dispatch # None
    BY DEF RowsMatchDispatches, RowMatches
  <1>. QED BY <1>1, RowIsTyped DEF ApprovedIsUnderway

(* The rest of the queue holds every job but the head. *)
LEMMA TailKeeps ==
    ASSUME TypeOK, queue # <<>>, NEW i \in 1..Len(queue)
    PROVE  \/ queue[i] = Head(queue)
           \/ \E j \in 1..Len(Tail(queue)) : Tail(queue)[j] = queue[i]
  <1>1. CASE i = 1
    BY <1>1, HeadJob
  <1>2. CASE i # 1
    <2>1. i - 1 \in 1..Len(Tail(queue)) /\ (i - 1) + 1 = i
      BY <1>2, HeadJob
    <2>. QED BY <2>1, HeadJob
  <1>. QED BY <1>1, <1>2

(* A relay that polls, or a poll without a relay, holds no job. *)
LEMMA PollingHoldsNothing ==
    ASSUME PollMatchesRelay
    PROVE  /\ poll.pc # "none" => ~Holding
           /\ relay.pc = "idle" => ~Answered
  BY DEF PollMatchesRelay, Holding, Answered

(* A failed attempt is repeated with the same job, or given up. *)
LEMMA NextAttemptKeeps ==
    ASSUME TypeOK
    PROVE  \/ NextAttempt.pc = "posting" /\ NextAttempt.job = relay.job
           \/ relay.job.mid \in GaveUp
  BY NextAttemptFields DEF NextAttempt, GaveUp

(* So is a report the transport has cut off; a poll's answer is lost. *)
LEMMA TransportErrorKeeps ==
    ASSUME TypeOK, PollMatchesRelay
    PROVE  /\ Holding => \/ /\ AfterTransportError.pc \in {"sending", "posting", "awaiting"}
                            /\ AfterTransportError.job = relay.job
                         \/ relay.job.mid \in LostByTransportError
           /\ Answered => poll.job.mid \in LostByTransportError
  <1>1. Answered => poll.job.mid \in LostByTransportError
    BY DEF Answered, LostByTransportError, InReply
  <1>2. CASE relay.pc = "awaiting"
    BY <1>1, <1>2, NextAttemptKeeps DEF AfterTransportError, LostByTransportError
  <1>3. CASE relay.pc \in {"sending", "posting"}
    BY <1>1, <1>3 DEF AfterTransportError
  <1>. QED BY <1>1, <1>2, <1>3 DEF Holding

(* A job or a verdict on its way moves on, is lost by name, or settles its
   row. *)
LEMMA UnderwayStep ==
    ASSUME TypeOK, JobsAreIssued, RowsMatchDispatches, ReportsAgree,
           ApprovedIsUnderway, PollMatchesRelay,
           [Next]_vars
    PROVE  ApprovedIsUnderway'
  <1>m. ASSUME NEW p \in Patchers, NEW job, Mints(p, job)
       PROVE  Underway(job.mid)' /\ \A n \in Mids : Underway(n) => Underway(n)'
    <2>1. /\ job.mid \in Mids /\ issued[job.mid] = None /\ patch[p].pc = "idle"
          /\ patch'[p].pc = "enqueue" /\ patch'[p].job = job
          /\ \A q \in Patchers : q # p => patch'[q] = patch[q]
          /\ UNCHANGED <<queue, poll, relay, pushes, lost>>
      BY <1>m, Minted DEF Mints
    <2>2. pushes'[job.mid] = 0
      BY <2>1 DEF JobsAreIssued, TypeOK
    <2>3. job.mid \in Unqueued' /\ \A n \in Mids : n \in Unqueued => n \in Unqueued'
      BY <2>1, <2>2 DEF Unqueued
    <2>. QED BY <2>1, <2>3 DEF Underway, Waiting, Answered, Holding
  <1>1. ASSUME NEW d \in Drafts, NEW b \in Bodies, CreateDraft(d, b)
       PROVE  ApprovedIsUnderway'
    <2>1. \A e \in Drafts : rows'[e].status = "approved" => rows'[e] = rows[e]
      BY <1>1 DEF CreateDraft, TypeOK
    <2>2. \A m : Underway(m) => Underway(m)'
      BY <1>1 DEF CreateDraft, Underway, Waiting, Unqueued, Answered, Holding
    <2>. QED BY <2>1, <2>2 DEF ApprovedIsUnderway
  <1>2. ASSUME NEW d \in Drafts, NEW st \in Statuses \cup {None}, NEW b \in
               Bodies \cup {None}, PatchRow(d, st, b)
       PROVE  ApprovedIsUnderway'
    <2>1. \A e \in Drafts : rows'[e].status = "approved" =>
             rows[e].status = "approved" /\ rows'[e].dispatch = rows[e].dispatch
      BY <1>2 DEF PatchRow, PatchAccepted, AllowedTransitions, Target, TypeOK, Rows
    <2>2. \A m : Underway(m) => Underway(m)'
      BY <1>2 DEF PatchRow, Underway, Waiting, Unqueued, Answered, Holding
    <2>. QED BY <2>1, <2>2 DEF ApprovedIsUnderway
  <1>3. ASSUME NEW p \in Patchers, NEW d \in Drafts, NEW st \in Statuses \cup
               {None}, NEW b \in Bodies \cup {None}, NEW m \in Mids,
               PatchApprove(p, d, st, b, m)
       PROVE  ApprovedIsUnderway'
    <2>1. /\ rows'[d].dispatch = m
          /\ \A e \in Drafts : e # d => rows'[e] = rows[e]
      BY <1>3 DEF PatchApprove, TypeOK
    <2>2. Mints(p, DispatchJob(d, b, m))
      BY <1>3, Minting
    <2>3. DispatchJob(d, b, m).mid = m
      BY DEF DispatchJob
    <2>. QED BY <1>m, <2>1, <2>2, <2>3, TrackedIds DEF ApprovedIsUnderway
  <1>4. ASSUME NEW p \in Patchers, NEW m \in Mids, NEW b \in Bodies, DirectSend(p, m, b)
       PROVE  ApprovedIsUnderway'
    <2>1. \A n \in Mids : Underway(n) => Underway(n)'
      BY <1>4, <1>m, Minting
    <2>. QED BY <1>4, <2>1, TrackedIds DEF DirectSend, ApprovedIsUnderway
  <1>5. ASSUME NEW p \in Patchers, EnqueueDispatch(p) \/ EnqueueUnanswered(p)
       PROVE  ApprovedIsUnderway'
    <2>1. RunPush(p) /\ UNCHANGED <<rows, poll, relay, lost>>
      BY <1>5 DEF EnqueueDispatch, EnqueueUnanswered
    <2>2. \A q \in Patchers : q # p => patch'[q] = patch[q]
      BY <1>5 DEF EnqueueDispatch, EnqueueUnanswered, TypeOK
    <2>3. /\ \A i \in 1..Len(queue) : i \in 1..Len(queue') /\ queue'[i] = queue[i]
          /\ Len(queue') \in 1..Len(queue') /\ queue'[Len(queue')] = patch[p].job
          /\ \A n \in Mids : n # patch[p].job.mid => pushes'[n] = pushes[n]
      BY <2>1, PushedJob
    <2>4. \A n \in Mids : Waiting(n) \/ n = patch[p].job.mid => Waiting(n)'
      BY <2>1, <2>3 DEF Waiting, Answered
    <2>5. \A n \in Mids : n \in Unqueued /\ n # patch[p].job.mid => n \in Unqueued'
      BY <2>2, <2>3 DEF Unqueued
    <2>6. \A n \in Mids : Underway(n) => Underway(n)'
      BY <2>1, <2>4, <2>5 DEF Underway, Holding
    <2>. QED BY <2>1, <2>6, TrackedIds DEF ApprovedIsUnderway
  <1>6. ASSUME NEW p \in Patchers, EnqueueRefused(p)
       PROVE  ApprovedIsUnderway'
    <2>1. /\ \A q \in Patchers : q # p => patch'[q] = patch[q]
          /\ lost' = lost \cup ({patch[p].job.mid} \cap Unqueued)
          /\ UNCHANGED <<rows, queue, poll, relay, pushes>>
      BY <1>6 DEF EnqueueRefused, TypeOK
    <2>2. \A n \in Mids : n \in Unqueued => n \in Unqueued' \/ n \in lost'
      BY <2>1 DEF Unqueued
    <2>3. \A n \in Mids : Underway(n) => Underway(n)'
      BY <2>1, <2>2 DEF Underway, Waiting, Answered, Holding
    <2>. QED BY <2>1, <2>3, TrackedIds DEF ApprovedIsUnderway
  <1>7. ASSUME NEW p \in Patchers, AnnounceApproved(p)
       PROVE  ApprovedIsUnderway'
    <2>1. \A m \in Mids : Underway(m) => Underway(m)'
      BY <1>7 DEF AnnounceApproved, IdlePatch, Underway, Waiting, Unqueued, Answered, Holding, TypeOK
    <2>. QED BY <1>7, <2>1, TrackedIds DEF AnnounceApproved, ApprovedIsUnderway
  <1>8. ASSUME NEW h \in posts, PublishFails(h)
       PROVE  ApprovedIsUnderway'
    <2>1. /\ IsAwaited(h) => Holding /\ relay' = NextAttempt /\ lost' = lost \cup GaveUp
          /\ ~IsAwaited(h) => UNCHANGED <<relay, lost>>
      BY <1>8 DEF PublishFails, IsAwaited, Holding
    <2>2. \A m \in Mids : Underway(m) => Underway(m)'
      BY <1>8, <2>1, NextAttemptKeeps DEF PublishFails, Underway, Waiting, Unqueued, Answered, Holding
    <2>. QED BY <1>8, <2>2, TrackedIds DEF PublishFails, ApprovedIsUnderway
  <1>9. ASSUME NEW h \in posts, Correlate(h)
       PROVE  ApprovedIsUnderway'
    <2>1. \A e \in Drafts : rows'[e].status = "approved" =>
             rows'[e] = rows[e] /\ rows[e].dispatch # h.mid
      BY <1>9 DEF Correlate, Correlated, TypeOK, Rows
    <2>2. \A m \in Mids : Underway(m) => Underway(m)' \/ m = h.mid
      BY <1>9 DEF Correlate, Acknowledge, IsAwaited, Underway, Waiting, Unqueued,
               Answered, Holding
    <2>. QED BY <2>1, <2>2, TrackedIds DEF ApprovedIsUnderway
  <1>10. ASSUME NEW h \in posts, CorrelationFails(h)
       PROVE  ApprovedIsUnderway'
    <2>1. \A m \in Mids : Underway(m) => Underway(m)'
      BY <1>10 DEF CorrelationFails, Underway, Waiting, Unqueued, Answered, Holding, Acknowledge, IsAwaited
    <2>. QED BY <1>10, <2>1, TrackedIds DEF CorrelationFails, ApprovedIsUnderway
  <1>11. CASE ServeOrphan \/ ServeUnanswered
    <2>1. /\ queue # <<>> /\ queue' = Tail(queue) /\ lost' = lost \cup {Head(queue).mid}
          /\ UNCHANGED <<rows, patch, poll, relay, pushes>>
      BY <1>11 DEF ServeOrphan, ServeUnanswered
    <2>2. \A i \in 1..Len(queue) : \/ queue[i].mid \in lost'
                                   \/ \E j \in 1..Len(queue') : queue'[j] = queue[i]
      BY <2>1, TailKeeps
    <2>3. \A n \in Mids : Underway(n) => Underway(n)'
      BY <2>1, <2>2 DEF Underway, Waiting, Unqueued, Answered, Holding
    <2>. QED BY <2>1, <2>3, TrackedIds DEF ApprovedIsUnderway
  <1>12. CASE ServePoll
    <2>1. \A i \in 1..Len(queue) : \/ queue[i] = poll'.job
                                   \/ \E j \in 1..Len(queue') : queue'[j] = queue[i]
      BY <1>12, TailKeeps DEF ServePoll
    <2>2. \A n \in Mids : Underway(n) => Underway(n)'
      BY <1>12, <2>1 DEF ServePoll, Underway, Waiting, Unqueued, Answered, Holding
    <2>. QED BY <1>12, <2>2, TrackedIds DEF ServePoll, ApprovedIsUnderway
  <1>13. CASE PollEmpty
    <2>1. \A m \in Mids : Underway(m) => Underway(m)'
      BY <1>13, PollingHoldsNothing DEF PollEmpty, Underway, Waiting, Unqueued, Answered, Holding
    <2>. QED BY <1>13, <2>1, TrackedIds DEF PollEmpty, ApprovedIsUnderway
  <1>14. CASE RelayPoll
    <2>1. ~Holding /\ poll'.pc = "blocked"
      BY <1>14 DEF RelayPoll, Holding
    <2>2. \A n \in Mids : Underway(n) => Underway(n)'
      BY <1>14, <2>1, PollingHoldsNothing DEF RelayPoll, Underway, Waiting, Unqueued, Answered
    <2>. QED BY <1>14, <2>2, TrackedIds DEF RelayPoll, ApprovedIsUnderway
  <1>15. CASE RelayReceive
    <2>1. relay'.pc = "sending" /\ relay'.job = poll.job /\ ~Holding
      BY <1>15, PollingHoldsNothing DEF RelayReceive, TypeOK, Relays
    <2>2. \A n \in Mids : Underway(n) => Underway(n)'
      BY <1>15, <2>1 DEF RelayReceive, Underway, Waiting, Unqueued, Answered, Holding
    <2>. QED BY <1>15, <2>2, TrackedIds DEF RelayReceive, ApprovedIsUnderway
  <1>16. CASE DropMalformed
    <2>1. \A m \in Mids : Underway(m) => Underway(m)'
      BY <1>16 DEF DropMalformed, Underway, Waiting, Unqueued, Answered, Holding
    <2>. QED BY <1>16, <2>1, TrackedIds DEF DropMalformed, ApprovedIsUnderway
  <1>17. ASSUME NEW sent \in BOOLEAN, NEW ok \in BOOLEAN, SendIMessage(sent,
               ok)
       PROVE  ApprovedIsUnderway'
    <2>1. \A m \in Mids : Underway(m) => Underway(m)'
      BY <1>17 DEF SendIMessage, Underway, Waiting, Unqueued, Answered, Holding, TypeOK, Relays
    <2>. QED BY <1>17, <2>1, TrackedIds DEF SendIMessage, ApprovedIsUnderway
  <1>18. CASE PostSent
    <2>1. \A m \in Mids : Underway(m) => Underway(m)'
      BY <1>18 DEF PostSent, Underway, Waiting, Unqueued, Answered, Holding, TypeOK, Relays
    <2>. QED BY <1>18, <2>1, TrackedIds DEF PostSent, ApprovedIsUnderway
  <1>19. CASE PostRefused
    <2>1. \A m \in Mids : Underway(m) => Underway(m)'
      BY <1>19, NextAttemptKeeps DEF PostRefused, Underway, Waiting, Unqueued, Answered, Holding
    <2>. QED BY <1>19, <2>1, TrackedIds DEF PostRefused, ApprovedIsUnderway
  <1>20. CASE ConnectionLost
    <2>1. \A m \in Mids : Underway(m) => Underway(m)'
      BY <1>20, TransportErrorKeeps DEF ConnectionLost, Underway, Waiting, Unqueued, Answered, Holding, AbandonPoll, NoPoll
    <2>. QED BY <1>20, <2>1, TrackedIds DEF ConnectionLost, ApprovedIsUnderway
  <1>21. CASE ThreadDies
    <2>1. \A m \in Mids : Underway(m) => Underway(m)'
      BY <1>21 DEF ThreadDies, Underway, Waiting, Unqueued, Answered, Holding, AbandonPoll, NoPoll, InReply, InHand
    <2>. QED BY <1>21, <2>1, TrackedIds DEF ThreadDies, ApprovedIsUnderway
  <1>22. CASE RelayCrash
    <2>1. \A m \in Mids : Underway(m) => Underway(m)'
      BY <1>22 DEF RelayCrash, Underway, Waiting, Unqueued, Answered, Holding, AbandonPoll, NoPoll, InReply, InHand
    <2>. QED BY <1>22, <2>1, TrackedIds DEF RelayCrash, ApprovedIsUnderway
  <1>23. CASE BridgeCrash
    <2>1. /\ relay' = AfterTransportError
          /\ lost' = lost \cup LostByTransportError \cup Unqueued
          /\ UNCHANGED <<rows, queue>>
      BY <1>23 DEF BridgeCrash
    <2>2. \A m \in Mids : Underway(m) => Underway(m)'
      BY <2>1, TransportErrorKeeps DEF Underway, Waiting, Answered, Holding
    <2>. QED BY <2>1, <2>2, TrackedIds DEF ApprovedIsUnderway
  <1>24. CASE RedisCrash
    <2>1. \A m \in Mids : Underway(m) => Underway(m)'
      BY <1>24 DEF RedisCrash, Underway, Waiting, Unqueued, Answered, Holding
    <2>. QED BY <1>24, <2>1, TrackedIds DEF RedisCrash, ApprovedIsUnderway
  <1>25. CASE RelayStart
    <2>1. \A m \in Mids : Underway(m) => Underway(m)'
      BY <1>25 DEF RelayStart, Underway, Waiting, Unqueued, Answered, Holding
    <2>. QED BY <1>25, <2>1, TrackedIds DEF RelayStart, ApprovedIsUnderway
  <1>26. CASE UNCHANGED <<rows, patch, queue, poll, relay, pushes, lost>>
    BY <1>26 DEF ApprovedIsUnderway, Underway, Waiting, Unqueued, Answered,
       Holding
  <1>. QED BY <1>1, <1>2, <1>3, <1>4, <1>5, <1>6, <1>7, <1>8, <1>9, <1>10,
     <1>11, <1>12, <1>13, <1>14, <1>15, <1>16, <1>17, <1>18, <1>19, <1>20,
     <1>21, <1>22, <1>23, <1>24, <1>25, <1>26, Frames DEF Next, Request,
     Handler, Outbound, Failure, Restart

----------------------------------------------------------------------------
(* The theorems                                                             *)

(* Before anything has happened, nothing is anywhere. *)
LEMMA InitInv == Init => IInv
  <1>. SUFFICES ASSUME Init PROVE IInv
    OBVIOUS
  <1>. USE DEF Init
  <1>1. TypeOK
    <2>1. relay \in Relays
      BY IdleTypes
    <2>2. rows \in [Drafts -> Rows]
      BY DEF NoRow, Rows
    <2>3. queue \in Seq(Jobs) /\ faults \in 0..MaxFaults /\ 0 \in 0..RedisTries
      BY ConstantsAssumption
    <2>4. pushes \in [Mids -> 0..RedisTries]
      BY <2>3
    <2>5. patch \in [Patchers -> [pc : {"idle", "enqueue", "announce"},
                                  job : Jobs \cup {None}]]
      BY DEF IdlePatch
    <2>. QED BY <2>1, <2>2, <2>3, <2>4, <2>5 DEF TypeOK, NoPoll
  <1>2. /\ \A p \in Patchers : ~Enqueuing(p)
        /\ ~Answered /\ ~Holding /\ ~Reporting /\ 1..Len(queue) = {}
    BY DEF Enqueuing, Answered, Holding, Reporting, IdlePatch, NoPoll, IdleRelay
  <1>3. JobsAreIssued
    BY <1>2 DEF JobsAreIssued
  <1>8. QueuedFirst /\ CopiesAreCounted
    <2>1. \A m \in Mids : InList(m) = {} /\ InAnswer(m) = 0 /\ InSending(m) = 0
      BY <1>2 DEF InList, InAnswer, InSending, IdleRelay
    <2>2. CopiesAreCounted
      <3>1. Cardinality({}) = 0
        BY FS_EmptySet
      <3>2. \A m \in Mids : /\ Cardinality(InList(m)) = 0
                           /\ delivered[m] = 0 /\ pushes[m] = 0
        BY <2>1, <3>1
      <3>. QED BY <2>1, <3>2 DEF CopiesAreCounted
    <2>. QED BY <1>2, <2>2 DEF QueuedFirst, Waiting, Touched, Reported, Single
  <1>4. WaitingIsUntouched
    BY <1>2 DEF WaitingIsUntouched, Waiting, Touched, Reported, Holding
  <1>5. ReportsAgree /\ OutcomesAgree
    BY <1>2 DEF ReportsAgree, OutcomesAgree
  <1>6. RowsMatchDispatches /\ GrantsNeedApproval
    BY ConstantsAssumption DEF RowsMatchDispatches, RowMatches, GrantsNeedApproval, NoRow, Statuses
  <1>7. PollMatchesRelay /\ ApprovedBodyIsDispatched /\ ApprovedIsUnderway
    BY ConstantsAssumption DEF PollMatchesRelay, ApprovedBodyIsDispatched,
       ApprovedIsUnderway, NoRow, NoPoll, IdleRelay, Statuses
  <1>. QED BY <1>1, <1>3, <1>4, <1>5, <1>6, <1>7, <1>8 DEF IInv

(* Every step keeps the invariant. *)
LEMMA StepInv == IInv /\ [Next]_vars => IInv'
  <1>. SUFFICES ASSUME IInv, [Next]_vars PROVE IInv'
    OBVIOUS
  <1>. USE DEF IInv
  <1>1. TypeOK'
    BY TypeStep
  <1>2. JobsAreIssued'
    BY <1>1, JobsStep
  <1>3. QueuedFirst' /\ CopiesAreCounted'
    BY <1>1, QueuedFirstStep, CopiesStep
  <1>4. WaitingIsUntouched'
    BY <1>1, WaitingStep
  <1>5. ReportsAgree'
    BY <1>1, ReportsStep
  <1>6. OutcomesAgree'
    BY <1>1, OutcomesStep
  <1>7. RowsMatchDispatches' /\ GrantsNeedApproval'
    BY RowsStep, GrantsStep
  <1>8. PollMatchesRelay' /\ ApprovedBodyIsDispatched' /\ ApprovedIsUnderway'
    BY <1>1, PollStep, BodyStep, UnderwayStep
  <1>. QED BY <1>1, <1>2, <1>3, <1>4, <1>5, <1>6, <1>7, <1>8

(* The inductive invariant holds in every reachable state. *)
THEOREM Inductive == Spec => []IInv
  BY InitInv, StepInv, PTL DEF Spec

(* The variables of the bridge, the relay, Redis and the row store always
   have their types. *)
THEOREM TypeCorrect == Spec => []TypeOK
  <1>1. IInv => TypeOK
    BY DEF IInv
  <1>. QED BY <1>1, Inductive, PTL

(* Messages never gets more messages for an id than jobs were queued under it,
   and that is one unless the reply to an RPUSH was lost; for any number of
   drafts, handlers, faults and attempts. *)
THEOREM AtMostOnce == Spec => []AtMostOncePerDispatch
  <1>1. IInv => AtMostOncePerDispatch
    <2>. SUFFICES ASSUME IInv, NEW m \in Mids
                  PROVE  delivered[m] <= pushes[m] /\ (m \notin unanswered => Single(m))
      BY DEF AtMostOncePerDispatch
    <2>1. /\ delivered[m] \in Nat /\ InSending(m) \in Nat /\ InAnswer(m) \in Nat
          /\ Cardinality(InList(m)) \in Nat /\ pushes[m] \in Nat
          /\ delivered[m] + InSending(m) + InAnswer(m) + Cardinality(InList(m)) <= pushes[m]
      BY CopiesInList DEF IInv, TypeOK, InSending, InAnswer, CopiesAreCounted
    <2>2. m \notin unanswered => Single(m)
      BY DEF IInv, QueuedFirst
    <2>. QED BY <2>1, <2>2
  <1>. QED BY <1>1, Inductive, PTL

(* The bus never carries both verdicts of one id. *)
THEOREM VerdictsAgree == Spec => []OutcomesAgree
  <1>1. IInv => OutcomesAgree
    BY DEF IInv
  <1>. QED BY <1>1, Inductive, PTL

(* A row marked sent was sent, under the id it holds. *)
THEOREM SentIsTrue == Spec => []SentMeansDelivered
  <1>1. ASSUME IInv, NEW d \in Drafts, rows[d].status = "sent"
        PROVE  LET m == rows[d].dispatch IN
               /\ m \in Mids /\ issued[m] # None /\ issued[m].draft = d
               /\ delivered[m] > 0 /\ <<m, TRUE>> \in outcomes
    <2>1. RowMatches(d) /\ rows[d].dispatch \in Mids \cup {None}
      BY <1>1 DEF IInv, RowsMatchDispatches, TypeOK, Rows
    <2>. QED BY <1>1, <2>1 DEF RowMatches, IInv, ReportsAgree
  <1>2. IInv => SentMeansDelivered
    BY <1>1 DEF SentMeansDelivered
  <1>. QED BY <1>2, Inductive, PTL

(* No draft is dispatched that was never approved. *)
THEOREM Gate == Spec => []ApprovalGate
  <1>1. IInv => ApprovalGate
    <2>. SUFFICES ASSUME IInv, NEW d \in Drafts, rows[d].dispatch = None
                  PROVE  /\ \A m \in Mids : issued[m] # None => issued[m].draft # d
                         /\ rows[d].status \in {None, "pending", "rejected"}
      BY DEF ApprovalGate
    <2>1. rows[d].status \in Statuses \cup {None} /\ RowMatches(d)
      BY DEF IInv, RowsMatchDispatches, TypeOK, Rows
    <2>. QED BY <2>1 DEF IInv, GrantsNeedApproval, RowMatches, Statuses
  <1>. QED BY <1>1, Inductive, PTL

(* An approved row shows the body of the job its id was minted for. *)
THEOREM BodyIsDispatched == Spec => []ApprovedBodyIsDispatched
  <1>1. IInv => ApprovedBodyIsDispatched
    BY DEF IInv
  <1>. QED BY <1>1, Inductive, PTL

(* An approved row's job is somewhere, or was lost by name. *)
THEOREM AccountedFor == Spec => []ApprovedIsAccountedFor
  <1>1. ASSUME NEW m, Underway(m) PROVE InFlight(m) \/ m \in lost
    BY <1>1 DEF Underway, Waiting, Answered, Holding, InFlight, InReply, InHand
  <1>2. IInv => ApprovedIsAccountedFor
    BY <1>1 DEF IInv, ApprovedIsUnderway, ApprovedIsAccountedFor
  <1>. QED BY <1>2, Inductive, PTL

(* A report that reaches a settled row tells what the row says, if there is
   one copy of its job. *)
LEMMA RowVerdict ==
    ASSUME IInv, NEW h \in posts, Correlate(h), NEW d \in Drafts,
           rows[d].dispatch = h.mid
    PROVE  /\ Single(h.mid) => /\ rows[d].status = "sent" => h.ok
                               /\ rows[d].status = "send_failed" => ~h.ok
           /\ rows[d].status \notin {None, "pending"}
  <1>1. h.mid \in Mids /\ h.ok \in BOOLEAN /\ h.pc = "correlate"
    BY DEF Correlate, IInv, TypeOK, Reports
  <1>2. <<h.mid, h.ok>> \in outcomes /\ RowMatches(d)
    BY <1>1 DEF IInv, ReportsAgree, RowsMatchDispatches
  <1>3. Single(h.mid) => ~(<<h.mid, TRUE>> \in outcomes /\ <<h.mid, FALSE>> \in outcomes)
    BY <1>1 DEF IInv, OutcomesAgree
  <1>. QED BY <1>1, <1>2, <1>3, ConstantsAssumption DEF RowMatches

(* No step changes a row that is marked sent. *)
THEOREM SentRowsStay == Spec => SentIsFinal
  <1>1. ASSUME IInv, [Next]_vars, NEW d \in Drafts, rows[d].status = "sent",
               Single(rows[d].dispatch)
        PROVE  rows'[d] = rows[d]
    <2>1. ASSUME NEW e \in Drafts, NEW b \in Bodies, CreateDraft(e, b)
          PROVE  rows'[d] = rows[d]
      BY <1>1, <2>1, ConstantsAssumption DEF CreateDraft, IInv, TypeOK, Statuses
    <2>2. ASSUME NEW e \in Drafts, NEW st \in Statuses \cup {None},
                 NEW b \in Bodies \cup {None}, PatchRow(e, st, b)
          PROVE  rows'[d] = rows[d]
      <3>1. CASE e = d
        <4>1. Target(d, st) = "sent" /\ b = None
          BY <1>1, <2>2, <3>1 DEF PatchRow, PatchAccepted, AllowedTransitions,
             Terminal, Statuses
        <4>2. rows'[d] = [rows[d] EXCEPT !.status = "sent", !.body = rows[d].body]
          BY <1>1, <2>2, <3>1, <4>1 DEF PatchRow, PatchedBody, IInv, TypeOK
        <4>3. rows[d] \in Rows
          BY <1>1 DEF IInv, TypeOK
        <4>. QED BY <1>1, <4>2, <4>3 DEF Rows
      <3>. QED BY <1>1, <2>2, <3>1 DEF PatchRow, IInv, TypeOK
    <2>3. ASSUME NEW p \in Patchers, NEW e \in Drafts,
                 NEW st \in Statuses \cup {None}, NEW b \in Bodies \cup {None},
                 NEW m \in Mids, PatchApprove(p, e, st, b, m)
          PROVE  rows'[d] = rows[d]
      <3>1. e # d
        BY <1>1, <2>3 DEF PatchApprove, PatchAccepted, AllowedTransitions,
           Terminal, Statuses
      <3>. QED BY <1>1, <2>3, <3>1 DEF PatchApprove, IInv, TypeOK
    <2>4. ASSUME NEW h \in posts, Correlate(h)
          PROVE  rows'[d] = rows[d]
      <3>1. CASE rows[d].dispatch = h.mid
        <4>1. rows'[d] = [rows[d] EXCEPT !.status = "sent"]
          BY <1>1, <2>4, <3>1, RowVerdict DEF Correlate, Correlated
        <4>2. rows[d] \in Rows
          BY <1>1 DEF IInv, TypeOK
        <4>. QED BY <1>1, <4>1, <4>2 DEF Rows
      <3>. QED BY <2>4, <3>1 DEF Correlate, Correlated
    <2>5. CASE UNCHANGED rows
      BY <2>5
    <2>. QED BY <1>1, <2>1, <2>2, <2>3, <2>4, <2>5, Frames
          DEF Next, Request, Handler, Outbound, Failure, Restart
  <1>2. IInv /\ [Next]_vars =>
           [\A d \in Drafts :
              rows[d].status = "sent" /\ Single(rows[d].dispatch) =>
                  rows'[d] = rows[d]]_vars
    BY <1>1
  <1>. QED BY <1>2, Inductive, PTL DEF Spec, SentIsFinal

(* Only a dispatch that was approved settles as sent, with the body that was
   delivered. *)
THEOREM SentWasApproved == Spec => SentFromApproved
  <1>1. ASSUME IInv, [Next]_vars, NEW d \in Drafts,
               rows'[d].status = "sent", rows[d].status # "sent"
        PROVE  /\ Single(rows[d].dispatch) =>
                     rows[d].status \in {"approved", "rejected"}
               /\ rows[d].status = "approved" =>
                     issued[rows[d].dispatch].body = rows'[d].body
    <2>1. ASSUME NEW e \in Drafts, NEW b \in Bodies, CreateDraft(e, b)
          PROVE  FALSE
      BY <1>1, <2>1 DEF CreateDraft, IInv, TypeOK
    <2>2. ASSUME NEW e \in Drafts, NEW st \in Statuses \cup {None},
                 NEW b \in Bodies \cup {None}, PatchRow(e, st, b)
          PROVE  FALSE
      <3>1. e = d
        BY <1>1, <2>2 DEF PatchRow, IInv, TypeOK
      <3>2. rows'[d].status = Target(d, st)
        BY <1>1, <2>2, <3>1 DEF PatchRow, IInv, TypeOK, Rows
      <3>3. rows[d].status \in Statuses
        BY <1>1, <2>2, <3>1 DEF PatchRow, PatchAccepted, IInv, TypeOK, Rows
      <3>. QED BY <1>1, <2>2, <3>1, <3>2, <3>3 DEF PatchRow, PatchAccepted,
            AllowedTransitions
    <2>3. ASSUME NEW p \in Patchers, NEW e \in Drafts,
                 NEW st \in Statuses \cup {None}, NEW b \in Bodies \cup {None},
                 NEW m \in Mids, PatchApprove(p, e, st, b, m)
          PROVE  FALSE
      BY <1>1, <2>3 DEF PatchApprove, IInv, TypeOK
    <2>4. ASSUME NEW h \in posts, Correlate(h)
          PROVE  /\ Single(rows[d].dispatch) =>
                       rows[d].status \in {"approved", "rejected"}
                 /\ rows[d].status = "approved" =>
                       issued[rows[d].dispatch].body = rows'[d].body
      <3>1. rows[d] \in Rows /\ h.ok \in BOOLEAN
        BY <1>1 DEF IInv, TypeOK, Reports
      <3>2. rows[d].dispatch = h.mid
        BY <1>1, <2>4 DEF Correlate, Correlated
      <3>3. rows'[d] = [rows[d] EXCEPT !.status = IF h.ok THEN "sent" ELSE "send_failed"]
        BY <2>4, <3>2 DEF Correlate, Correlated
      <3>4. h.ok /\ rows'[d].body = rows[d].body
        BY <1>1, <3>1, <3>3 DEF Rows
      <3>. QED BY <1>1, <2>4, <3>1, <3>2, <3>4, RowVerdict
            DEF Rows, Statuses, IInv, ApprovedBodyIsDispatched
    <2>5. CASE UNCHANGED rows
      BY <1>1, <2>5
    <2>. QED BY <1>1, <2>1, <2>2, <2>3, <2>4, <2>5, Frames
          DEF Next, Request, Handler, Outbound, Failure, Restart
  <1>2. IInv /\ [Next]_vars =>
           [\A d \in Drafts :
              rows'[d].status = "sent" /\ rows[d].status # "sent" =>
                 /\ Single(rows[d].dispatch) =>
                       rows[d].status \in {"approved", "rejected"}
                 /\ rows[d].status = "approved" =>
                       issued[rows[d].dispatch].body = rows'[d].body]_vars
    BY <1>1
  <1>. QED BY <1>2, Inductive, PTL DEF Spec, SentFromApproved

(* What a step does to the five functions DraftLifecycle speaks of, when it
   leaves what they are computed from alone. *)
LEMMA SameView ==
    /\ UNCHANGED rows => UNCHANGED <<StatusOf, CurrentOf>>
    /\ UNCHANGED issued => UNCHANGED Granted
    /\ UNCHANGED <<issued, pushes>> => UNCHANGED CopiesOf
    /\ UNCHANGED <<issued, delivered>> => UNCHANGED SentFor
  BY DEF StatusOf, CurrentOf, Granted, CopiesOf, Single, SentFor

LEMMA InitRefines == Init => Lifecycle!Init
  BY DEF Init, Lifecycle!Init, StatusOf, CurrentOf, Granted, CopiesOf, SentFor, NoRow

(* Every step of the system is a step of the life cycle, or none. *)
LEMMA StepRefines ==
    ASSUME IInv, [Next]_vars
    PROVE  [Lifecycle!Next]_(Lifecycle!vars)
  <1>. DEFINE Goal == [Lifecycle!Next]_(Lifecycle!vars)
  <1>0. /\ TypeOK /\ \A d \in Drafts : RowMatches(d)
        /\ \A d \in Drafts : rows[d] \in Rows
    BY DEF IInv, RowsMatchDispatches, TypeOK
  <1>s. ASSUME UNCHANGED <<StatusOf, CurrentOf, Granted, CopiesOf, SentFor>> PROVE Goal
    BY <1>s DEF Lifecycle!vars
  <1>1. ASSUME NEW d \in Drafts, NEW b \in Bodies, CreateDraft(d, b)
        PROVE  Goal
    <2>1. /\ StatusOf[d] = None
          /\ StatusOf' = [StatusOf EXCEPT ![d] = "pending"]
      BY <1>0, <1>1 DEF CreateDraft, StatusOf, TypeOK
    <2>2. CurrentOf' = CurrentOf
      BY <1>0, <1>1 DEF CreateDraft, CurrentOf, TypeOK, RowMatches
    <2>3. Lifecycle!Create(d)
      BY <1>1, <2>1, <2>2, SameView DEF Lifecycle!Create, CreateDraft
    <2>. QED BY <2>3 DEF Lifecycle!Next
  <1>2. ASSUME NEW d \in Drafts, NEW st \in Statuses \cup {None},
               NEW b \in Bodies \cup {None}, PatchRow(d, st, b)
        PROVE  Goal
    <2>1. /\ rows[d].status # None /\ Target(d, st) # "approved"
          /\ Target(d, st) # rows[d].status =>
                Target(d, st) \in AllowedTransitions[rows[d].status]
          /\ rows' = [rows EXCEPT ![d].status = Target(d, st),
                                  ![d].body = PatchedBody(d, b)]
          /\ UNCHANGED <<issued, pushes, delivered>>
      BY <1>2 DEF PatchRow, PatchAccepted
    <2>2. rows'[d] = [rows[d] EXCEPT !.status = Target(d, st),
                                     !.body = PatchedBody(d, b)]
      BY <1>0, <2>1 DEF TypeOK
    <2>3. /\ rows'[d].status = Target(d, st) /\ rows'[d].dispatch = rows[d].dispatch
          /\ \A e \in Drafts : e # d => rows'[e] = rows[e]
      BY <1>0, <2>1, <2>2 DEF TypeOK, Rows
    <2>4. StatusOf' = [StatusOf EXCEPT ![d] = Target(d, st)] /\ CurrentOf' = CurrentOf
      BY <2>3 DEF StatusOf, CurrentOf
    <2>5. CASE Target(d, st) = rows[d].status
      <3>1. StatusOf' = StatusOf
        BY <2>4, <2>5 DEF StatusOf
      <3>. QED BY <1>s, <2>1, <2>4, <3>1, SameView
    <2>6. CASE Target(d, st) # rows[d].status
      <3>1. rows[d].status \in Statuses
        BY <1>0, <2>1 DEF Rows
      <3>2. /\ Target(d, st) = "rejected"
            /\ rows[d].status \in {"pending", "approved", "send_failed"}
        BY <2>1, <2>6, <3>1 DEF AllowedTransitions, Terminal, Statuses
      <3>3. Lifecycle!Reject(d)
        BY <2>1, <2>4, <3>2, SameView DEF Lifecycle!Reject, Lifecycle!Open, StatusOf
      <3>. QED BY <3>3 DEF Lifecycle!Next
    <2>. QED BY <2>5, <2>6
  <1>3. ASSUME NEW p \in Patchers, NEW d \in Drafts,
               NEW st \in Statuses \cup {None}, NEW b \in Bodies \cup {None},
               NEW m \in Mids, PatchApprove(p, d, st, b, m)
        PROVE  Goal
    <2>1. /\ PatchAccepted(d, st, b) /\ Target(d, st) = "approved"
          /\ issued[m] = None /\ issued' = [issued EXCEPT ![m] = DispatchJob(d, b, m)]
          /\ rows' = [rows EXCEPT ![d] = [status |-> "approved", dispatch |-> m,
                                          body |-> PatchedBody(d, b)]]
          /\ UNCHANGED <<pushes, delivered>>
      BY <1>3 DEF PatchApprove
    <2>2. /\ issued'[m] # None /\ issued'[m].draft = d /\ d # None
          /\ \A n \in Mids : n # m => issued'[n] = issued[n]
      BY <1>0, <2>1, PatchedJob, ConstantsAssumption DEF TypeOK, IInv
    <2>3. rows[d].status \in {"pending", "approved", "send_failed"}
      <3>1. rows[d].status \in Statuses
        BY <1>0, <2>1 DEF PatchAccepted, Rows
      <3>. QED BY <2>1, <3>1 DEF PatchAccepted, AllowedTransitions, Terminal, Statuses
    <2>4. /\ StatusOf' = [StatusOf EXCEPT ![d] = "approved"]
          /\ CurrentOf' = [CurrentOf EXCEPT ![d] = m]
      BY <1>0, <2>1 DEF StatusOf, CurrentOf, TypeOK
    <2>5. Granted[m] = None /\ Granted' = [Granted EXCEPT ![m] = d]
      <3>1. Granted[m] = None
        BY <2>1 DEF Granted
      <3>2. \A n \in Mids : Granted'[n] = IF n = m THEN d ELSE Granted[n]
        BY <2>2 DEF Granted
      <3>3. Granted' = [n \in Mids |-> Granted'[n]]
        BY DEF Granted
      <3>4. Granted = [n \in Mids |-> Granted[n]]
        BY DEF Granted
      <3>. QED BY <3>1, <3>2, <3>3, <3>4
    <2>6. delivered[m] = 0 /\ pushes[m] = 0
      BY <1>0, <2>1, KnownIds DEF IInv, Touched, TypeOK
    <2>7. SentFor' = SentFor /\ CopiesOf' = CopiesOf
      <3>1. SentFor' = SentFor
        BY <2>1, <2>2, <2>5, <2>6 DEF SentFor, Granted
      <3>2. \A n \in Mids : (Granted[n] = None \/ Single(n)) <=> (Granted'[n] = None \/ Single(n))
        BY <2>2, <2>6 DEF Granted, Single
      <3>. QED BY <2>1, <3>1, <3>2 DEF CopiesOf, Single
    <2>8. Lifecycle!Approve(d, m)
      BY <2>3, <2>4, <2>5, <2>7 DEF Lifecycle!Approve, Lifecycle!Open, StatusOf
    <2>. QED BY <2>8 DEF Lifecycle!Next
  <1>4. ASSUME NEW p \in Patchers, NEW m \in Mids, NEW b \in Bodies, DirectSend(p, m, b)
        PROVE  Goal
    <2>1. /\ issued[m] = None
          /\ issued' = [issued EXCEPT ![m] = [mid |-> m, draft |-> None, body |-> b]]
          /\ UNCHANGED <<rows, pushes, delivered>>
      BY <1>4 DEF DirectSend
    <2>2. /\ issued'[m].draft = None
          /\ \A n \in Mids : n # m => issued'[n] = issued[n]
      BY <1>0, <2>1 DEF TypeOK
    <2>3. Granted' = Granted
      BY <2>1, <2>2 DEF Granted
    <2>4. SentFor' = SentFor /\ CopiesOf' = CopiesOf
      BY <2>1, <2>3 DEF SentFor, CopiesOf, Single
    <2>. QED BY <1>s, <2>1, <2>3, <2>4, SameView
  <1>5. ASSUME NEW h \in posts, Correlate(h)
        PROVE  Goal
    <2>1. /\ \A e \in Drafts : rows[e].dispatch # h.mid => rows'[e] = rows[e]
          /\ UNCHANGED <<issued, pushes, delivered>>
      BY <1>5 DEF Correlate, Correlated
    <2>2. h.mid \in Mids /\ h.ok \in BOOLEAN /\ h.pc = "correlate" /\ h.mid # None
      BY <1>0, <1>5, ConstantsAssumption DEF Correlate, TypeOK, Reports
    <2>3. ASSUME NEW e \in Drafts, rows[e].dispatch = h.mid
          PROVE  /\ rows'[e].status = IF h.ok THEN "sent" ELSE "send_failed"
                 /\ rows'[e].dispatch = h.mid
                 /\ issued[h.mid].draft = e
      BY <1>0, <1>5, <2>2, <2>3 DEF Correlate, Correlated, Rows, RowMatches
    <2>4. CurrentOf' = CurrentOf
      BY <2>1, <2>3 DEF CurrentOf
    <2>5. CASE \A e \in Drafts : rows'[e].status = rows[e].status
      <3>1. StatusOf' = StatusOf
        BY <2>5 DEF StatusOf
      <3>. QED BY <1>s, <2>1, <2>4, <3>1, SameView
    <2>6. ASSUME NEW d \in Drafts, rows'[d].status # rows[d].status
          PROVE  Goal
      <3>1. rows[d].dispatch = h.mid
        BY <2>1, <2>6
      <3>2. \A e \in Drafts : e # d => rows'[e] = rows[e]
        BY <2>1, <2>3, <3>1
      <3>. DEFINE outcome == IF h.ok THEN "sent" ELSE "send_failed"
      <3>3. StatusOf' = [StatusOf EXCEPT ![d] = outcome]
        BY <2>3, <3>1, <3>2 DEF StatusOf
      <3>4. Granted[h.mid] # None
        <4>1. RowMatches(d) /\ d # None
          BY <1>0, ConstantsAssumption
        <4>2. issued[h.mid] # None /\ issued[h.mid].draft = d
          BY <2>2, <3>1, <4>1 DEF RowMatches
        <4>. QED BY <2>2, <4>1, <4>2 DEF Granted
      <3>5. \/ rows[d].status \in {"approved", "rejected"}
            \/ rows[d].status \in Lifecycle!Settled /\ CopiesOf[h.mid] > 1
        <4>1. rows[d].status \in Statuses \cup {None}
          BY <1>0 DEF Rows
        <4>2. /\ rows[d].status \notin {None, "pending"}
              /\ Single(h.mid) => /\ rows[d].status = "sent" => h.ok
                                  /\ rows[d].status = "send_failed" => ~h.ok
          BY <1>5, <3>1, RowVerdict
        <4>3. CASE Single(h.mid)
          BY <2>3, <2>6, <3>1, <4>1, <4>2, <4>3 DEF Statuses
        <4>4. CASE ~Single(h.mid)
          <5>1. CopiesOf[h.mid] = pushes[h.mid] /\ pushes[h.mid] \in Nat
            BY <1>0, <2>2, <3>4, <4>4 DEF CopiesOf, TypeOK
          <5>2. CopiesOf[h.mid] > 1
            BY <4>4, <5>1 DEF Single
          <5>. QED BY <4>1, <4>2, <5>2 DEF Statuses, Lifecycle!Settled
        <4>. QED BY <4>3, <4>4
      <3>6. h.ok => SentFor[h.mid] > 0
        <4>1. h.ok => delivered[h.mid] > 0
          BY DEF IInv, ReportsAgree
        <4>. QED BY <2>2, <3>4, <4>1 DEF SentFor
      <3>7. Lifecycle!Settle(d, outcome)
        BY <2>1, <2>2, <2>4, <3>1, <3>3, <3>5, <3>6, SameView
           DEF Lifecycle!Settle, StatusOf, CurrentOf
      <3>. QED BY <3>7 DEF Lifecycle!Next, Lifecycle!Settled
    <2>. QED BY <2>5, <2>6
  <1>6. ASSUME NEW sent \in BOOLEAN, NEW ok \in BOOLEAN, SendIMessage(sent, ok)
        PROVE  Goal
    <2>. DEFINE m == relay.job.mid
    <2>1. /\ relay.pc = "sending" /\ m \in Mids /\ UNCHANGED <<rows, issued, pushes>>
          /\ delivered' = IF sent THEN [delivered EXCEPT ![m] = delivered[m] + 1]
                                  ELSE delivered
      BY <1>6, JobInHand DEF SendIMessage, IInv
    <2>2. CASE Granted[m] = None \/ ~sent
      <3>1. SentFor' = SentFor
        <4>1. Granted' = Granted
          BY <2>1, SameView
        <4>2. \A n \in Mids : Granted[n] # None => delivered'[n] = delivered[n]
          BY <1>0, <2>1, <2>2 DEF TypeOK
        <4>. QED BY <4>1, <4>2 DEF SentFor
      <3>. QED BY <1>s, <2>1, <3>1, SameView
    <2>3. CASE Granted[m] # None /\ sent
      <3>1. SentFor[m] = delivered[m] /\ Granted' = Granted
        BY <2>1, <2>3, SameView DEF SentFor
      <3>2. /\ delivered'[m] = delivered[m] + 1
            /\ \A n \in Mids : n # m => delivered'[n] = delivered[n]
        BY <1>0, <2>1, <2>3 DEF TypeOK
      <3>3. SentFor' = [SentFor EXCEPT ![relay.job.mid] = SentFor[relay.job.mid] + 1]
        BY <2>1, <2>3, <3>1, <3>2 DEF SentFor
      <3>4. SentFor[m] < CopiesOf[m]
        <4>1. /\ delivered[m] \in Nat /\ InSending(m) = 1 /\ InAnswer(m) \in Nat
              /\ Cardinality(InList(m)) \in Nat /\ pushes[m] \in Nat
              /\ delivered[m] + InSending(m) + InAnswer(m) + Cardinality(InList(m)) <= pushes[m]
          BY <1>0, <2>1, CopiesInList DEF TypeOK, InSending, InAnswer, IInv, CopiesAreCounted
        <4>2. delivered[m] < pushes[m]
          BY <4>1
        <4>3. CopiesOf[m] = IF pushes[m] <= 1 THEN 1 ELSE pushes[m]
          BY <2>1, <2>3 DEF CopiesOf, Single
        <4>. QED BY <3>1, <4>1, <4>2, <4>3
      <3>5. Lifecycle!Deliver(relay.job.mid)
        BY <2>1, <2>3, <3>1, <3>3, <3>4, SameView DEF Lifecycle!Deliver
      <3>. QED BY <2>1, <3>5 DEF Lifecycle!Next
    <2>. QED BY <2>2, <2>3
  <1>7. ASSUME NEW p \in Patchers, EnqueueDispatch(p) \/ EnqueueUnanswered(p)
        PROVE  Goal
    <2>. DEFINE m == patch[p].job.mid
    <2>1. RunPush(p) /\ UNCHANGED <<rows, issued, delivered>>
      BY <1>7 DEF EnqueueDispatch, EnqueueUnanswered
    <2>2. m \in Mids /\ Granted' = Granted
      BY <2>1, EnqueuedJob, SameView DEF RunPush, IInv
    <2>3. /\ pushes[m] \in Nat /\ pushes'[m] = pushes[m] + 1
          /\ \A n \in Mids : n # m => pushes'[n] = pushes[n]
      BY <1>0, <2>1, <2>2 DEF RunPush, TypeOK
    <2>4. \A n \in Mids : n # m => CopiesOf'[n] = CopiesOf[n]
      BY <2>2, <2>3 DEF CopiesOf, Single
    <2>5. CopiesOf = [n \in Mids |-> CopiesOf[n]] /\ CopiesOf' = [n \in Mids |-> CopiesOf'[n]]
      BY DEF CopiesOf
    <2>6. CASE Granted[m] = None \/ pushes[m] = 0
      <3>1. CopiesOf'[m] = CopiesOf[m]
        BY <2>2, <2>3, <2>6 DEF CopiesOf, Single
      <3>2. CopiesOf' = CopiesOf
        BY <2>4, <2>5, <3>1
      <3>. QED BY <1>s, <2>1, <2>2, <3>2, SameView
    <2>7. CASE Granted[m] # None /\ pushes[m] # 0
      <3>1. CopiesOf[m] = pushes[m] /\ CopiesOf'[m] = pushes[m] + 1
        BY <2>2, <2>3, <2>7 DEF CopiesOf, Single
      <3>2. CopiesOf' = [CopiesOf EXCEPT ![patch[p].job.mid] = CopiesOf[patch[p].job.mid] + 1]
        BY <2>2, <2>4, <2>5, <3>1
      <3>3. Lifecycle!Copy(patch[p].job.mid)
        BY <2>1, <2>2, <2>7, <3>2, SameView DEF Lifecycle!Copy
      <3>. QED BY <2>2, <3>3 DEF Lifecycle!Next
    <2>. QED BY <2>6, <2>7
  <1>8. CASE UNCHANGED <<rows, issued, pushes, delivered>>
    BY <1>s, <1>8, SameView
  <1>. QED BY <1>1, <1>2, <1>3, <1>4, <1>5, <1>6, <1>7, <1>8, Frames
        DEF Next, Request, Handler, Outbound, Failure, Restart

(* Queue, long poll, osascript, retries and crashes implement the life cycle. *)
THEOREM Implements == Spec => ImplementsLifecycle
  BY InitRefines, StepRefines, Inductive, PTL
     DEF Spec, ImplementsLifecycle, Lifecycle!Spec

----------------------------------------------------------------------------
(* Part 2: DraftCLI                                                         *)

(* The proof looks at one command q at a time, beside the handlers hs that  *)
(* are suspended, the ids js that were queued, and those of them, us, whose *)
(* RPUSH was left without its reply.                                        *)
Steps == {"idle", "get", "editor", "patch", "wait", "then"}
Exits == {None, 0, 1, 130}

CommandRecords ==
    [pc : Steps,
     cmd : Commands \cup {None}, draft : Drafts \cup {None},
     text : Bodies \cup {None}, slot : Patchers \cup {None},
     exit : Exits, minted : SUBSET Mids, wasApproved : BOOLEAN,
     cutOff : BOOLEAN]

Editing == {"edit", "edit_approve"}
Releasing == {"approve", "retry", "edit_approve"}

(* What a command is at fits what it was asked to do.                       *)
Fits(q) ==
    /\ q.pc # "idle" => q.cmd \in Commands /\ q.draft \in Drafts /\ ~q.cutOff
    /\ q.pc \in {"get", "editor"} => q.cmd \notin {"approve", "reject"} /\ q.text = None
    /\ q.pc = "editor" => q.cmd \in Editing
    /\ q.pc = "patch" => (q.cmd \in Editing <=> q.text # None)
    /\ q.pc = "then" => q.cmd = "edit_approve"
    /\ q.pc = "wait" => IF q.text = None THEN q.cmd \in Releasing
                        ELSE q.cmd \in Editing /\ q.wasApproved

(* How many ids a command may have minted by now, and that it has no more.  *)
Spent(q) ==
    CASE q.pc \in {"get", "editor", "patch"} -> 0
      [] q.pc = "then" -> IF q.wasApproved THEN 1 ELSE 0
      [] q.pc = "wait" /\ q.text # None -> 1
      [] OTHER -> Allowance(q)

Counted(q) == IsFiniteSet(q.minted) /\ Cardinality(q.minted) <= Spent(q)

Has(hs, p, q) == hs[p].pc = "enqueue" /\ hs[p].job.mid \in q.minted

(* A command waits for the one handler that works for it: the id in its     *)
(* hand is the last the command minted, and those before it are queued.     *)
Waits(q, hs, js) ==
    /\ q.slot \in Patchers /\ hs[q.slot].pc # "idle"
    /\ q.minted # {}
    /\ IF hs[q.slot].pc = "enqueue"
       THEN /\ hs[q.slot].job.mid \in q.minted
            /\ q.minted \ {hs[q.slot].job.mid} \subseteq js
            /\ q.minted # {hs[q.slot].job.mid} => q.cmd = "edit_approve" /\ q.wasApproved
       ELSE q.minted \subseteq js
    /\ \A p \in Patchers : p # q.slot => ~Has(hs, p, q)

(* No handler works for a command that does not wait, and what it minted is *)
(* queued while it goes on.                                                 *)
Settled(q, hs, js) ==
    /\ \A p \in Patchers : ~Has(hs, p, q)
    /\ q.pc # "idle" => q.minted \subseteq js
    /\ q.pc \in {"get", "editor", "patch"} => q.minted = {}
    /\ q.pc = "then" /\ ~q.wasApproved => q.minted = {}

(* What ExitIsTruthful says of one command.                                 *)
Truthful(q, js, us) ==
    q.pc = "idle" /\ q.cmd # None /\ ~q.cutOff =>
        /\ q.exit = 0 => q.minted \subseteq js
        /\ q.exit = 0 /\ q.cmd \in {"approve", "retry"} => q.minted # {}
        /\ q.exit # 0 => \/ q.minted \cap js \subseteq us
                         \/ q.cmd = "edit_approve" /\ q.wasApproved

SoundCommand(q, hs, js, us) ==
    /\ Fits(q) /\ Counted(q) /\ Truthful(q, js, us)
    /\ IF q.pc = "wait" THEN Waits(q, hs, js) ELSE q.slot = None
    /\ q.pc # "wait" /\ ~q.cutOff => Settled(q, hs, js)

CommandsAreSound ==
    /\ cli \in [Operators -> CommandRecords]
    /\ \A o \in Operators : SoundCommand(cli[o], patch, Queued, unanswered)

(* A command's ids were minted, and the handlers that the terminals start   *)
(* queue jobs of drafts.                                                    *)
MintedAreIssued ==
    /\ \A o \in Operators : \A m \in cli[o].minted : issued[m] # None
    /\ \A p \in Patchers : patch[p].pc = "enqueue" => patch[p].job.draft # None

(* What a terminal shows is the row's body, unless another operator edited  *)
(* it since.                                                                *)
ScreensAreCurrent ==
    \A o \in Operators, d \in Drafts :
        screen[o][d].body # None =>
            /\ rows[d].status # None
            /\ ~screen[o][d].raced => rows[d].body = screen[o][d].body

CliInv == CliTypeOK /\ CommandsAreSound /\ MintedAreIssued /\ ScreensAreCurrent

----------------------------------------------------------------------------
(* One command                                                              *)

(* The moves of a command that the actions write as EXCEPT.                 *)
Cut(q, exit) == [Ended(q, exit) EXCEPT !.cutOff = TRUE]

SecondPatch(q) == [q EXCEPT !.pc = "then", !.slot = None]

Onward(q, pc, text) == [q EXCEPT !.pc = pc, !.text = text]

Suspended(q, p, m, t, w) ==
    [q EXCEPT !.pc = "wait", !.slot = p, !.minted = @ \cup {m}, !.text = t, !.wasApproved = w]

LEMMA MintedOnce ==
  ASSUME NEW S, NEW m, IsFiniteSet(S)
  PROVE  /\ IsFiniteSet(S \cup {m}) /\ Cardinality(S) \in Nat
         /\ Cardinality(S \cup {m}) \in Nat
         /\ Cardinality(S \cup {m}) <= Cardinality(S) + 1
  BY FS_AddElement, FS_CardinalityType

LEMMA NothingMinted == IsFiniteSet({}) /\ Cardinality({}) = 0
  BY FS_EmptySet

LEMMA StepsAndExits ==
  /\ "idle" \in Steps /\ "editor" \in Steps /\ "patch" \in Steps
  /\ "wait" \in Steps /\ "then" \in Steps /\ "get" \in Steps
  /\ None \in Exits /\ 0 \in Exits /\ 1 \in Exits /\ 130 \in Exits
  BY DEF Steps, Exits

LEMMA SpentIsTyped ==
  ASSUME NEW q \in CommandRecords
  PROVE  Allowance(q) \in Nat /\ Spent(q) \in Nat
  BY DEF Allowance, Spent, CommandRecords

(* The end of a command leaves its minted ids alone.                        *)
LEMMA EndedFields ==
  ASSUME NEW q \in CommandRecords, NEW exit \in {0, 1, 130}
  PROVE  LET e == Ended(q, exit) IN
         /\ e \in CommandRecords
         /\ e.pc = "idle" /\ e.exit = exit /\ e.slot = None
         /\ e.cmd = q.cmd /\ e.minted = q.minted /\ e.wasApproved = q.wasApproved
         /\ e.cutOff = q.cutOff /\ e.draft = q.draft /\ e.text = q.text
  <1>1. Ended(q, exit) \in CommandRecords
    BY StepsAndExits DEF Ended, CommandRecords, Exits
  <1>. QED BY <1>1 DEF Ended, CommandRecords

(* A command may end at any step before its handler: with 1 or 130 always,  *)
(* with 0 unless it was to release something.                               *)
LEMMA EndIsSound ==
  ASSUME NEW q \in CommandRecords, NEW hs, NEW js, NEW us, NEW exit \in {0, 1, 130},
         SoundCommand(q, hs, js, us), q.pc \in {"get", "editor", "patch", "then"},
         exit = 0 => q.cmd \notin {"approve", "retry"}
  PROVE  SoundCommand(Ended(q, exit), hs, js, us)
  <1>. DEFINE e == Ended(q, exit)
  <1>1. /\ e.pc = "idle" /\ e.exit = exit /\ e.slot = None
        /\ e.cmd = q.cmd /\ e.minted = q.minted /\ e.wasApproved = q.wasApproved
        /\ e.cutOff = q.cutOff
    BY EndedFields
  <1>. HIDE DEF e
  <1>2. ~q.cutOff /\ Settled(q, hs, js) /\ Fits(q) /\ Counted(q)
    BY DEF SoundCommand, Fits
  <1>3. Fits(e)
    BY <1>1 DEF Fits
  <1>4. Spent(q) <= Spent(e) /\ Spent(q) \in Nat /\ Spent(e) \in Nat
    <2>1. Spent(e) = Allowance(q) /\ Allowance(q) \in Nat /\ Spent(q) \in Nat
      BY <1>1, SpentIsTyped DEF Spent, Allowance
    <2>. QED BY <2>1 DEF Spent, Allowance
  <1>5. Counted(e)
    BY <1>1, <1>2, <1>4, FS_CardinalityType DEF Counted
  <1>6. Settled(e, hs, js)
    BY <1>1, <1>2 DEF Settled, Has
  <1>7. Truthful(e, js, us)
    BY <1>1, <1>2 DEF Settled, Truthful, Fits
  <1>. QED BY <1>1, <1>3, <1>5, <1>6, <1>7 DEF SoundCommand, e

LEMMA CutFields ==
  ASSUME NEW q \in CommandRecords, NEW exit \in {0, 1, 130}
  PROVE  LET e == Cut(q, exit) IN
         /\ e \in CommandRecords /\ e.cutOff /\ e.pc = "idle" /\ e.slot = None
         /\ e.cmd = q.cmd /\ e.minted = q.minted /\ e.wasApproved = q.wasApproved
  <1>. DEFINE r == Ended(q, exit)
  <1>1. /\ r \in CommandRecords /\ r.pc = "idle" /\ r.slot = None
        /\ r.cmd = q.cmd /\ r.minted = q.minted /\ r.wasApproved = q.wasApproved
    BY EndedFields
  <1>2. Cut(q, exit) = [r EXCEPT !.cutOff = TRUE]
    BY DEF Cut
  <1>. HIDE DEF r
  <1>3. Cut(q, exit) \in CommandRecords
    BY <1>1, <1>2 DEF CommandRecords
  <1>4. /\ Cut(q, exit).cutOff = TRUE /\ Cut(q, exit).pc = "idle" /\ Cut(q, exit).slot = None
        /\ Cut(q, exit).cmd = q.cmd /\ Cut(q, exit).minted = q.minted
        /\ Cut(q, exit).wasApproved = q.wasApproved
    BY <1>1, <1>2 DEF CommandRecords
  <1>. QED BY <1>3, <1>4

LEMMA ThenFields ==
  ASSUME NEW q \in CommandRecords
  PROVE  LET e == SecondPatch(q) IN
         /\ e \in CommandRecords /\ e.pc = "then" /\ e.slot = None
         /\ e.exit = q.exit /\ e.cmd = q.cmd /\ e.draft = q.draft /\ e.text = q.text
         /\ e.minted = q.minted /\ e.wasApproved = q.wasApproved /\ e.cutOff = q.cutOff
  <1>1. SecondPatch(q) \in CommandRecords
    BY StepsAndExits DEF CommandRecords, SecondPatch
  <1>. QED BY <1>1 DEF CommandRecords, SecondPatch

(* A command may be cut off anywhere.                                       *)
LEMMA CutIsSound ==
  ASSUME NEW q \in CommandRecords, NEW hs, NEW js, NEW us, NEW hs2, NEW exit \in {0, 1, 130},
         SoundCommand(q, hs, js, us), q.pc # "idle"
  PROVE  SoundCommand(Cut(q, exit), hs2, js, us)
  <1>. DEFINE e == Cut(q, exit)
  <1>1. /\ e.pc = "idle" /\ e.slot = None /\ e.cutOff /\ e \in CommandRecords
        /\ e.cmd = q.cmd /\ e.minted = q.minted /\ e.wasApproved = q.wasApproved
    BY CutFields
  <1>. HIDE DEF e
  <1>2. Fits(q) /\ Counted(q)
    BY DEF SoundCommand
  <1>3. Spent(q) <= Spent(e) /\ Spent(q) \in Nat /\ Spent(e) \in Nat
    <2>1. Spent(e) = Allowance(q) /\ Allowance(q) \in Nat /\ Spent(q) \in Nat
      BY <1>1, SpentIsTyped DEF Spent, Allowance
    <2>. QED BY <1>2, <2>1 DEF Spent, Allowance, Fits
  <1>4. Counted(e)
    BY <1>1, <1>2, <1>3, FS_CardinalityType DEF Counted
  <1>5. Fits(e) /\ Truthful(e, js, us)
    BY <1>1 DEF Fits, Truthful
  <1>. QED BY <1>1, <1>4, <1>5 DEF SoundCommand, e

(* The world moves on while command q stands still: handlers may change but *)
(* the one q waits for, and ids may be queued but those of q, or without    *)
(* their reply.                                                             *)
LEMMA StandsStill ==
  ASSUME NEW q \in CommandRecords, NEW hs, NEW js, NEW us, NEW hs2, NEW js2, NEW us2,
         SoundCommand(q, hs, js, us), js \subseteq js2, us \subseteq us2,
         q.pc = "idle" /\ ~q.cutOff => q.minted \cap js2 \subseteq js \cup us2,
         q.pc = "wait" => hs2[q.slot] = hs[q.slot],
         ~q.cutOff => \A p \in Patchers : Has(hs2, p, q) => Has(hs, p, q)
  PROVE  SoundCommand(q, hs2, js2, us2)
  <1>1. Truthful(q, js2, us2)
    BY DEF SoundCommand, Truthful
  <1>2. CASE q.pc = "wait"
    <2>1. ~q.cutOff /\ Waits(q, hs, js)
      BY <1>2 DEF SoundCommand, Fits
    <2>2. \A p \in Patchers : p # q.slot => ~Has(hs2, p, q)
      BY <2>1 DEF Waits
    <2>3. Waits(q, hs2, js2)
      BY <1>2, <2>1, <2>2 DEF Waits
    <2>. QED BY <1>1, <1>2, <2>3 DEF SoundCommand
  <1>3. CASE q.pc # "wait"
    <2>1. ~q.cutOff => Settled(q, hs2, js2)
      BY <1>3 DEF SoundCommand, Settled
    <2>. QED BY <1>1, <1>3, <2>1 DEF SoundCommand
  <1>. QED BY <1>2, <1>3

(* The handler has queued the job of the command that waits for it.         *)
LEMMA HandlerQueuesJob ==
  ASSUME NEW q \in CommandRecords, NEW hs, NEW js, NEW us, NEW hs2, NEW p \in Patchers,
         SoundCommand(q, hs, js, us), hs[p].pc = "enqueue", hs2[p].pc = "announce",
         \A r \in Patchers : r # p => hs2[r] = hs[r]
  PROVE  SoundCommand(q, hs2, js \cup {hs[p].job.mid}, us)
  <1>. DEFINE m == hs[p].job.mid
  <1>0. \A r \in Patchers : Has(hs2, r, q) => Has(hs, r, q)
    BY DEF Has
  <1>1. CASE q.pc = "wait" /\ q.slot = p
    <2>1. Waits(q, hs, js)
      BY <1>1 DEF SoundCommand
    <2>2. \A r \in Patchers : r # q.slot => ~Has(hs2, r, q)
      BY <1>0, <2>1 DEF Waits
    <2>3. Waits(q, hs2, js \cup {m})
      BY <1>1, <2>1, <2>2 DEF Waits
    <2>. QED BY <1>1, <2>3 DEF SoundCommand, Truthful
  <1>2. CASE q.pc = "wait" /\ q.slot # p
    <2>1. hs2[q.slot] = hs[q.slot]
      BY <1>2 DEF SoundCommand, Waits
    <2>. QED BY <1>0, <1>2, <2>1, StandsStill
  <1>3. CASE q.pc # "wait"
    <2>1. ~q.cutOff => m \notin q.minted
      BY <1>3 DEF SoundCommand, Settled, Has
    <2>. QED BY <1>0, <1>3, <2>1, StandsStill
  <1>. QED BY <1>1, <1>2, <1>3

(* How the answer to a PATCH moves the command that waited for it.          *)
LEMMA AnswerCases ==
  ASSUME NEW q \in CommandRecords, Fits(q), q.pc = "wait", NEW status \in {200, 502}
  PROVE  LET a == AfterPatch(Resumed(q), status) IN
         /\ a \in CommandRecords
         /\ a.cmd = q.cmd /\ a.draft = q.draft /\ a.minted = q.minted /\ a.text = q.text
         /\ a.wasApproved = q.wasApproved /\ a.cutOff = q.cutOff /\ a.slot = None
         /\ \/ /\ a.pc = "then" /\ status = 200
               /\ q.cmd = "edit_approve" /\ q.wasApproved /\ q.text # None
            \/ a.pc = "idle" /\ a.exit = ExitCode(status)
  <1>1. Resumed(q) \in CommandRecords
    BY StepsAndExits DEF Resumed, CommandRecords
  <1>2. /\ Resumed(q).pc = IF q.text # None THEN "patch" ELSE "then"
        /\ Resumed(q).cmd = q.cmd /\ Resumed(q).draft = q.draft
        /\ Resumed(q).minted = q.minted /\ Resumed(q).text = q.text
        /\ Resumed(q).wasApproved = q.wasApproved /\ Resumed(q).cutOff = q.cutOff
    BY DEF Resumed, CommandRecords
  <1>3. ExitCode(status) \in {0, 1}
    BY DEF ExitCode, Raises
  <1>4. CASE status = 200 /\ q.cmd = "edit_approve" /\ q.text # None
    <2>1. AfterPatch(Resumed(q), status) = SecondPatch(Resumed(q))
      BY <1>2, <1>4 DEF AfterPatch, Raises, SecondPatch
    <2>2. q.wasApproved
      BY <1>4 DEF Fits
    <2>. DEFINE r == Resumed(q)
                e == SecondPatch(r)
    <2>3. /\ e \in CommandRecords /\ e.pc = "then" /\ e.slot = None
          /\ e.cmd = r.cmd /\ e.draft = r.draft /\ e.text = r.text
          /\ e.minted = r.minted /\ e.wasApproved = r.wasApproved /\ e.cutOff = r.cutOff
      <3>. HIDE DEF r
      <3>. QED BY <1>1, ThenFields DEF r
    <2>4. AfterPatch(Resumed(q), status) = e
      BY <2>1
    <2>. HIDE DEF e, r
    <2>5. e.cmd = q.cmd /\ e.draft = q.draft /\ e.minted = q.minted /\ e.text = q.text
      BY <1>2, <2>3 DEF r
    <2>6. e.wasApproved = q.wasApproved /\ e.cutOff = q.cutOff
      BY <1>2, <2>3 DEF r
    <2>7. /\ e \in CommandRecords /\ e.slot = None /\ e.pc = "then" /\ status = 200
          /\ q.cmd = "edit_approve" /\ q.text # None
      BY <1>4, <2>3
    <2>. QED BY <2>2, <2>4, <2>5, <2>6, <2>7
  <1>5. CASE ~(status = 200 /\ q.cmd = "edit_approve" /\ q.text # None)
    <2>1. AfterPatch(Resumed(q), status) = Ended(Resumed(q), ExitCode(status))
      BY <1>2, <1>5 DEF AfterPatch, Raises
    <2>. QED BY <1>1, <1>2, <1>3, <2>1, EndedFields
  <1>. QED BY <1>4, <1>5

(* The handler refused: the id it had is not queued, unless an RPUSH of it  *)
(* was left without its reply.                                              *)
LEMMA RefusalIsSound ==
  ASSUME NEW q \in CommandRecords, NEW hs, NEW js, NEW us, NEW hs2,
         SoundCommand(q, hs, js, us), q.pc = "wait", hs[q.slot].pc = "enqueue",
         hs2[q.slot].pc = "idle",
         \A r \in Patchers : r # q.slot => hs2[r] = hs[r],
         hs[q.slot].job.mid \in js => hs[q.slot].job.mid \in us
  PROVE  SoundCommand(AfterPatch(Resumed(q), 502), hs2, js, us)
  <1>. DEFINE a == AfterPatch(Resumed(q), 502)
  <1>1. Fits(q) /\ Counted(q) /\ Waits(q, hs, js)
    BY DEF SoundCommand
  <1>2. /\ a \in CommandRecords /\ a.pc = "idle" /\ a.exit = 1 /\ a.slot = None
        /\ a.cmd = q.cmd /\ a.minted = q.minted /\ a.wasApproved = q.wasApproved
        /\ a.cutOff = q.cutOff
    BY <1>1, AnswerCases DEF ExitCode, Raises
  <1>. HIDE DEF a
  <1>3. Settled(a, hs2, js)
    BY <1>1, <1>2 DEF Settled, Has, Waits
  <1>4. Truthful(a, js, us)
    BY <1>1, <1>2 DEF Truthful, Waits
  <1>5. Counted(a)
    <2>1. Allowance(a) = Allowance(q) /\ Allowance(q) \in Nat /\ Spent(a) = Allowance(a)
      BY <1>2, SpentIsTyped DEF Allowance, Spent
    <2>2. Spent(q) <= Allowance(q) /\ Spent(q) \in Nat
      BY <1>1, <2>1, SpentIsTyped DEF Spent, Allowance, Fits
    <2>. QED BY <1>1, <1>2, <2>1, <2>2, FS_CardinalityType DEF Counted
  <1>. QED BY <1>2, <1>3, <1>4, <1>5 DEF SoundCommand, Fits, a

(* The handler is done: what the command minted is queued.                  *)
LEMMA AnswerIsSound ==
  ASSUME NEW q \in CommandRecords, NEW hs, NEW js, NEW us, NEW hs2,
         SoundCommand(q, hs, js, us), q.pc = "wait", hs[q.slot].pc = "announce",
         hs2[q.slot].pc = "idle",
         \A r \in Patchers : r # q.slot => hs2[r] = hs[r]
  PROVE  SoundCommand(AfterPatch(Resumed(q), 200), hs2, js, us)
  <1>. DEFINE a == AfterPatch(Resumed(q), 200)
  <1>1. Fits(q) /\ Counted(q) /\ Waits(q, hs, js)
    BY DEF SoundCommand
  <1>2. /\ a \in CommandRecords /\ a.slot = None /\ a.draft = q.draft
        /\ a.cmd = q.cmd /\ a.minted = q.minted /\ a.wasApproved = q.wasApproved
        /\ a.cutOff = q.cutOff /\ a.text = q.text
        /\ \/ a.pc = "then" /\ q.cmd = "edit_approve" /\ q.wasApproved /\ q.text # None
           \/ a.pc = "idle" /\ a.exit = 0
    BY <1>1, AnswerCases DEF ExitCode, Raises
  <1>. HIDE DEF a
  <1>3. Settled(a, hs2, js)
    BY <1>1, <1>2 DEF Settled, Has, Waits
  <1>4. Truthful(a, js, us)
    BY <1>1, <1>2 DEF Truthful, Waits
  <1>5. Counted(a)
    <2>1. Allowance(a) = Allowance(q) /\ Allowance(q) \in Nat
      BY <1>2, SpentIsTyped DEF Allowance
    <2>2. /\ Spent(q) <= Spent(a) /\ Spent(q) \in Nat /\ Spent(a) \in Nat
      BY <1>1, <1>2, <2>1, SpentIsTyped DEF Spent, Allowance, Fits
    <2>. QED BY <1>1, <1>2, <2>2, FS_CardinalityType DEF Counted
  <1>6. Fits(a)
    BY <1>1, <1>2 DEF Fits
  <1>. QED BY <1>2, <1>3, <1>4, <1>5, <1>6 DEF SoundCommand, a

(* What a PATCH of a command asks for.                                      *)
LEMMA RequestFields ==
  ASSUME NEW st, NEW b
  PROVE  /\ FieldOf(UpdateDraft(st, b), "status") = st
         /\ FieldOf(UpdateDraft(st, b), "body") = b
  BY DEF FieldOf, UpdateDraft, DraftPatchRequest

LEMMA PatchFields ==
  ASSUME NEW q \in CommandRecords, Fits(q), q.pc \in {"patch", "then"}
  PROVE  LET st == FieldOf(PatchOf(q), "status")  b == FieldOf(PatchOf(q), "body") IN
         /\ st \in Statuses \cup {None} /\ b \in Bodies \cup {None}
         /\ IF q.pc = "patch" /\ q.cmd \in Editing
            THEN st = None /\ b = q.text /\ b # None
            ELSE b = None /\ st = IF q.cmd = "reject" THEN "rejected" ELSE "approved"
  <1>1. q.text \in Bodies \cup {None} /\ q.cmd \in Commands
    BY DEF CommandRecords, Fits
  <1>2. CASE q.pc = "patch" /\ q.cmd \in Editing
    <2>1. PatchOf(q) = UpdateDraft(None, q.text)
      BY <1>2 DEF PatchOf, Editing
    <2>. QED BY <1>1, <1>2, <2>1, RequestFields DEF Fits
  <1>3. CASE ~(q.pc = "patch" /\ q.cmd \in Editing) /\ q.cmd = "reject"
    <2>1. PatchOf(q) = UpdateDraft("rejected", None)
      BY <1>3 DEF PatchOf, Fits
    <2>. QED BY <1>3, <2>1, RequestFields DEF Statuses
  <1>4. CASE ~(q.pc = "patch" /\ q.cmd \in Editing) /\ q.cmd # "reject"
    <2>1. PatchOf(q) = UpdateDraft("approved", None)
      BY <1>1, <1>4 DEF PatchOf, Editing, Commands
    <2>. QED BY <1>4, <2>1, RequestFields DEF Statuses
  <1>. QED BY <1>2, <1>3, <1>4

LEMMA SuspendedFields ==
  ASSUME NEW q \in CommandRecords, NEW p \in Patchers, NEW m \in Mids,
         NEW t \in Bodies \cup {None}, NEW w \in BOOLEAN
  PROVE  LET e == Suspended(q, p, m, t, w) IN
         /\ e \in CommandRecords
         /\ e.pc = "wait" /\ e.slot = p /\ e.minted = q.minted \cup {m}
         /\ e.text = t /\ e.wasApproved = w /\ e.cmd = q.cmd /\ e.draft = q.draft
         /\ e.cutOff = q.cutOff
  <1>. DEFINE a == [q EXCEPT !.pc = "wait", !.slot = p]
              b == [a EXCEPT !.text = t, !.wasApproved = w]
  <1>1. Suspended(q, p, m, t, w) \in CommandRecords
    <2>1. a \in CommandRecords
      BY StepsAndExits DEF CommandRecords
    <2>2. Suspended(q, p, m, t, w) = [b EXCEPT !.minted = @ \cup {m}]
      BY DEF Suspended, CommandRecords
    <2>. HIDE DEF a
    <2>3. b \in CommandRecords
      BY <2>1 DEF CommandRecords
    <2>. HIDE DEF b
    <2>. QED BY <2>2, <2>3 DEF CommandRecords
  <1>. QED BY <1>1 DEF Suspended, CommandRecords

(* A PATCH that approves: the first one of an edit, because the row is      *)
(* approved already, or one that asks for it.                               *)
LEMMA SuspensionIsSound ==
  ASSUME NEW q \in CommandRecords, NEW hs, NEW js, NEW us, NEW hs2, NEW p \in Patchers, NEW m \in Mids,
         NEW t \in Bodies \cup {None}, NEW w \in BOOLEAN,
         SoundCommand(q, hs, js, us), q.pc \in {"patch", "then"}, m \notin js,
         hs2[p].pc = "enqueue", hs2[p].job.mid = m,
         \A r \in Patchers : r # p => hs2[r] = hs[r],
         \A r \in Patchers : r # p /\ hs[r].pc = "enqueue" => hs[r].job.mid # m,
         IF q.pc = "patch" /\ q.cmd \in Editing THEN w /\ t = q.text /\ t # None
         ELSE w = q.wasApproved /\ t = None /\ q.cmd # "reject"
  PROVE  SoundCommand(Suspended(q, p, m, t, w), hs2, js, us)
  <1>. DEFINE e == Suspended(q, p, m, t, w)
  <1>1. /\ e \in CommandRecords /\ e.pc = "wait" /\ e.slot = p /\ e.minted = q.minted \cup {m}
        /\ e.text = t /\ e.wasApproved = w /\ e.cmd = q.cmd /\ e.draft = q.draft
        /\ e.cutOff = q.cutOff
    BY SuspendedFields
  <1>. HIDE DEF e
  <1>2. Fits(q) /\ Counted(q) /\ ~q.cutOff /\ Settled(q, hs, js)
    BY DEF SoundCommand, Fits
  <1>3. q.cmd \in Commands
    BY <1>2 DEF Fits
  <1>4. Fits(e)
    BY <1>1, <1>2, <1>3 DEF Fits, Editing, Releasing, Commands
  <1>5. Spent(q) + 1 <= Spent(e) /\ Spent(q) \in Nat /\ Spent(e) \in Nat
    <2>1. Spent(q) \in Nat /\ Spent(e) \in Nat
      BY <1>1, SpentIsTyped
    <2>2. CASE q.pc = "patch" /\ q.cmd \in Editing
      BY <1>1, <1>2, <2>2 DEF Spent, Fits
    <2>3. CASE q.pc = "patch" /\ q.cmd \notin Editing
      BY <1>1, <1>3, <2>3 DEF Spent, Allowance, Commands, Editing
    <2>4. CASE q.pc = "then"
      BY <1>1, <1>2, <2>4 DEF Spent, Allowance, Fits
    <2>. QED BY <2>1, <2>2, <2>3, <2>4
  <1>6. Counted(e)
    <2>1. /\ IsFiniteSet(q.minted \cup {m}) /\ Cardinality(q.minted) \in Nat
          /\ Cardinality(q.minted \cup {m}) \in Nat
          /\ Cardinality(q.minted \cup {m}) <= Cardinality(q.minted) + 1
      BY <1>2, MintedOnce DEF Counted
    <2>2. Cardinality(q.minted \cup {m}) <= Spent(e)
      BY <1>2, <1>5, <2>1 DEF Counted
    <2>. QED BY <1>1, <2>1, <2>2 DEF Counted
  <1>7. Waits(e, hs2, js)
    <2>1. q.minted \subseteq js
      BY <1>2 DEF Settled
    <2>2. q.minted = {} \/ (q.cmd = "edit_approve" /\ w)
      BY <1>2 DEF Settled, Fits, Editing
    <2>3. \A r \in Patchers : r # p => ~Has(hs2, r, e)
      BY <1>1, <1>2 DEF Settled, Has
    <2>. QED BY <1>1, <2>1, <2>2, <2>3 DEF Waits
  <1>. QED BY <1>1, <1>4, <1>6, <1>7 DEF SoundCommand, Truthful, e

(* Any other PATCH is answered at once.                                     *)
LEMMA AnsweredIsSound ==
  ASSUME NEW q \in CommandRecords, NEW hs, NEW js, NEW us, NEW status \in {200, 409},
         SoundCommand(q, hs, js, us), q.pc \in {"patch", "then"},
         status = 200 => q.cmd \notin {"approve", "retry"}
  PROVE  /\ AfterPatch(q, status) \in CommandRecords
         /\ AfterPatch(q, status).minted = q.minted
         /\ SoundCommand(AfterPatch(q, status), hs, js, us)
  <1>1. ExitCode(status) \in {0, 1, 130} /\ (ExitCode(status) = 0 <=> status = 200)
    BY DEF ExitCode, Raises
  <1>2. CASE status = 200 /\ q.cmd = "edit_approve" /\ q.pc # "then"
    <2>. DEFINE e == SecondPatch(q)
    <2>1. AfterPatch(q, status) = e
      BY <1>2 DEF AfterPatch, Raises, SecondPatch
    <2>2. /\ e \in CommandRecords /\ e.pc = "then" /\ e.slot = None /\ e.exit = q.exit
          /\ e.cmd = q.cmd /\ e.draft = q.draft /\ e.text = q.text
          /\ e.minted = q.minted /\ e.wasApproved = q.wasApproved /\ e.cutOff = q.cutOff
      BY ThenFields
    <2>. HIDE DEF e
    <2>3. Fits(q) /\ Counted(q) /\ ~q.cutOff /\ Settled(q, hs, js) /\ q.minted = {}
      BY <1>2 DEF SoundCommand, Fits, Settled
    <2>4. Counted(e)
      <3>1. Spent(e) \in Nat
        BY <2>2, SpentIsTyped
      <3>. QED BY <2>2, <2>3, <3>1, NothingMinted DEF Counted
    <2>5. Fits(e) /\ Settled(e, hs, js) /\ Truthful(e, js, us)
      BY <1>2, <2>2, <2>3 DEF Fits, Settled, Truthful, Has
    <2>6. SoundCommand(e, hs, js, us)
      BY <2>2, <2>4, <2>5 DEF SoundCommand
    <2>. QED BY <2>1, <2>2, <2>6
  <1>3. CASE ~(status = 200 /\ q.cmd = "edit_approve" /\ q.pc # "then")
    <2>1. AfterPatch(q, status) = Ended(q, ExitCode(status))
      BY <1>3 DEF AfterPatch, Raises
    <2>. QED BY <1>1, <2>1, EndIsSound, EndedFields
  <1>. QED BY <1>2, <1>3

----------------------------------------------------------------------------
(* All commands                                                             *)

(* A command under way is that of a draft.                                  *)
LEMMA CommandOf ==
  ASSUME CommandsAreSound, NEW o \in Operators
  PROVE  /\ cli[o] \in CommandRecords /\ SoundCommand(cli[o], patch, Queued, unanswered) /\ Fits(cli[o])
         /\ cli[o].pc # "idle" => cli[o].draft \in Drafts /\ ~cli[o].cutOff
  BY DEF CommandsAreSound, SoundCommand, Fits

(* What the dispatch invariant says of the handlers.                        *)
LEMMA HandsDiffer ==
  ASSUME IInv
  PROVE  /\ patch \in [Patchers -> [pc : {"idle", "enqueue", "announce"}, job : Jobs \cup {None}]]
         /\ \A p \in Patchers : patch[p].pc = "enqueue" =>
               patch[p].job.mid \in Mids /\ issued[patch[p].job.mid] # None
         /\ \A p, r \in Patchers : patch[p].pc = "enqueue" /\ patch[r].pc = "enqueue" /\ p # r =>
               patch[p].job.mid # patch[r].job.mid
         /\ \A p \in Patchers : patch[p].pc = "enqueue" /\ patch[p].job.mid \in Queued =>
               patch[p].job.mid \in unanswered
         /\ \A m \in Mids : issued[m] = None => m \notin Queued
  <1>1. TypeOK /\ JobsAreIssued /\ QueuedFirst
    BY DEF IInv
  <1>2. \A p \in Patchers : patch[p].pc = "enqueue" =>
            patch[p].job.mid \in Mids /\ issued[patch[p].job.mid] # None
    BY <1>1, EnqueuedJob, ConstantsAssumption DEF JobsAreIssued, Enqueuing
  <1>3. \A m \in Mids : issued[m] = None => m \notin Queued
    BY <1>1, KnownIds DEF Queued
  <1>. QED BY <1>1, <1>2, <1>3 DEF QueuedFirst, Enqueuing, TypeOK, Queued

(* An RPUSH adds the id of its job to those that are queued.                *)
LEMMA QueuedGrows ==
  ASSUME IInv, NEW p \in Patchers, RunPush(p)
  PROVE  Queued' = Queued \cup {patch[p].job.mid}
  <1>1. TypeOK /\ JobsAreIssued
    BY DEF IInv
  <1>2. /\ patch[p].job.mid \in Mids
        /\ pushes'[patch[p].job.mid] > 0
        /\ \A m \in Mids : m # patch[p].job.mid => pushes'[m] = pushes[m]
    <2>1. pushes[patch[p].job.mid] \in Nat
      BY <1>1, PushedJob DEF TypeOK
    <2>. QED BY <1>1, <2>1, PushedJob
  <1>. QED BY <1>2 DEF Queued

(* The commands' steps are steps of the draft path, or leave it alone.      *)
LEMMA StepsAreDispatch ==
  ASSUME CommandsAreSound, [CliNext]_allVars
  PROVE  [Next]_vars
  <1>1. ASSUME NEW o \in Operators, NEW p \in Patchers, NEW m \in Mids, PatchSuspends(o, p, m)
        PROVE  Next
    <2>1. cli[o].draft \in Drafts /\ Fits(cli[o]) /\ cli[o] \in CommandRecords
      BY <1>1, CommandOf DEF PatchSuspends, AtPatch
    <2>2. /\ FieldOf(PatchOf(cli[o]), "status") \in Statuses \cup {None}
          /\ FieldOf(PatchOf(cli[o]), "body") \in Bodies \cup {None}
      BY <1>1, <2>1, PatchFields DEF PatchSuspends, AtPatch
    <2>3. PatchApprove(p, cli[o].draft, FieldOf(PatchOf(cli[o]), "status"),
                       FieldOf(PatchOf(cli[o]), "body"), m)
      BY <1>1 DEF PatchSuspends
    <2>. QED BY <2>1, <2>2, <2>3 DEF Next, Request
  <1>2. ASSUME NEW o \in Operators, PatchAnswers(o)
        PROVE  [Next]_vars
    <2>1. cli[o].draft \in Drafts /\ Fits(cli[o]) /\ cli[o] \in CommandRecords
      BY <1>2, CommandOf DEF PatchAnswers, AtPatch
    <2>2. /\ FieldOf(PatchOf(cli[o]), "status") \in Statuses \cup {None}
          /\ FieldOf(PatchOf(cli[o]), "body") \in Bodies \cup {None}
      BY <1>2, <2>1, PatchFields DEF PatchAnswers, AtPatch
    <2>3. \/ PatchRow(cli[o].draft, FieldOf(PatchOf(cli[o]), "status"),
                      FieldOf(PatchOf(cli[o]), "body"))
          \/ UNCHANGED vars
      BY <1>2 DEF PatchAnswers, dispatchVars
    <2>. QED BY <2>1, <2>2, <2>3 DEF Next, Request
  <1>3. ASSUME NEW o \in Operators,
               \/ \E all \in BOOLEAN : CmdList(o, all)
               \/ \E d \in Drafts :
                     \/ CmdShow(o, d) \/ CmdApprove(o, d) \/ CmdReject(o, d) \/ CmdRetry(o, d)
                     \/ \E thenApprove \in BOOLEAN : CmdEdit(o, d, thenApprove)
               \/ GetFirst(o)
               \/ \E text \in Bodies \cup {None} : CloseEditor(o, text)
               \/ NoBridge(o)
               \/ \E exit \in {1, 130} : CutOff(o, exit)
        PROVE  UNCHANGED vars
    BY <1>3 DEF CmdList, CmdShow, CmdApprove, CmdReject, CmdRetry, CmdEdit, Begin, GetFirst,
       CloseEditor, NoBridge, CutOff, dispatchVars
  <1>4. ASSUME NEW p \in Patchers, HandlerEnqueues(p) \/ HandlerRefuses(p) \/ HandlerDone(p)
        PROVE  Next
    BY <1>4 DEF HandlerEnqueues, HandlerRefuses, HandlerDone, Next, Handler, Failure
  <1>5. ASSUME NEW d \in Drafts, NEW b \in Bodies, BrainCreates(d, b)
        PROVE  Next
    BY <1>5 DEF BrainCreates, Next, Request
  <1>6. BridgeDies \/ Elsewhere => Next
    BY DEF BridgeDies, Elsewhere, Next, Failure, Restart, Handler
  <1>7. UNCHANGED allVars => UNCHANGED vars
    BY DEF allVars, dispatchVars
  <1>. QED BY <1>1, <1>2, <1>3, <1>4, <1>5, <1>6, <1>7 DEF CliNext

(* What each step leaves alone.                                             *)
LEMMA CliFrames ==
  /\ \A d \in Drafts, b \in Bodies : BrainCreates(d, b) =>
        /\ born' = Append(born, d)
        /\ UNCHANGED <<patch, cli, known, screen, Queued, unanswered, begun, cutOffs>>
  /\ \A o \in Operators :
        /\ \A all \in BOOLEAN : CmdList(o, all) =>
              UNCHANGED <<patch, cli, screen, born, Queued, unanswered, begun, cutOffs>>
        /\ \A d \in Drafts : CmdShow(o, d) =>
              UNCHANGED <<patch, cli, known, born, Queued, unanswered, begun, cutOffs>>
        /\ \A d \in Drafts, cmd \in Commands : Begin(o, cmd, d) =>
              /\ begun < MaxCommands /\ begun' = begun + 1
              /\ UNCHANGED <<patch, known, screen, born, Queued, unanswered, cutOffs>>
        /\ GetFirst(o) => UNCHANGED <<patch, known, born, Queued, unanswered, begun, cutOffs>>
        /\ \A text \in Bodies \cup {None} : CloseEditor(o, text) =>
              UNCHANGED <<patch, known, screen, born, Queued, unanswered, begun, cutOffs>>
        /\ \A p \in Patchers, m \in Mids : PatchSuspends(o, p, m) =>
              UNCHANGED <<known, born, Queued, unanswered, begun, cutOffs>>
        /\ PatchAnswers(o) => UNCHANGED <<patch, known, born, Queued, unanswered, begun, cutOffs>>
        /\ NoBridge(o) => UNCHANGED <<patch, known, screen, born, Queued, unanswered, begun, cutOffs>>
        /\ \A exit \in {1, 130} : CutOff(o, exit) =>
              /\ cutOffs < MaxCutOffs /\ cutOffs' = cutOffs + 1
              /\ UNCHANGED <<patch, known, screen, born, Queued, unanswered, begun>>
  /\ \A p \in Patchers :
        /\ HandlerEnqueues(p) => UNCHANGED cliVars
        /\ HandlerRefuses(p) \/ HandlerDone(p) =>
              UNCHANGED <<known, screen, born, Queued, unanswered, begun, cutOffs>>
  /\ BridgeDies => UNCHANGED <<known, screen, born, Queued, unanswered, begun, cutOffs>>
  /\ Elsewhere => UNCHANGED cliVars
  /\ UNCHANGED allVars => UNCHANGED <<patch, cli, known, screen, born, Queued, unanswered, begun, cutOffs>>
  <1>1. ASSUME NEW d \in Drafts, NEW b \in Bodies, BrainCreates(d, b)
        PROVE  /\ born' = Append(born, d)
               /\ UNCHANGED <<patch, cli, known, screen, Queued, unanswered, begun, cutOffs>>
    BY <1>1 DEF BrainCreates, CreateDraft, Queued
  <1>2. ASSUME NEW o \in Operators, NEW all \in BOOLEAN, CmdList(o, all)
        PROVE  UNCHANGED <<patch, cli, screen, born, Queued, unanswered, begun, cutOffs>>
    BY <1>2 DEF CmdList, dispatchVars, vars, Queued
  <1>3. ASSUME NEW o \in Operators, NEW d \in Drafts, CmdShow(o, d)
        PROVE  UNCHANGED <<patch, cli, known, born, Queued, unanswered, begun, cutOffs>>
    BY <1>3 DEF CmdShow, dispatchVars, vars, Queued
  <1>4. ASSUME NEW o \in Operators, NEW d \in Drafts, NEW cmd \in Commands, Begin(o, cmd, d)
        PROVE  /\ begun < MaxCommands /\ begun' = begun + 1
               /\ UNCHANGED <<patch, known, screen, born, Queued, unanswered, cutOffs>>
    BY <1>4 DEF Begin, dispatchVars, vars, Queued
  <1>5. ASSUME NEW o \in Operators, GetFirst(o)
        PROVE  UNCHANGED <<patch, known, born, Queued, unanswered, begun, cutOffs>>
    BY <1>5 DEF GetFirst, dispatchVars, vars, Queued
  <1>6. ASSUME NEW o \in Operators, NEW text \in Bodies \cup {None}, CloseEditor(o, text)
        PROVE  UNCHANGED <<patch, known, screen, born, Queued, unanswered, begun, cutOffs>>
    BY <1>6 DEF CloseEditor, dispatchVars, vars, Queued
  <1>7. ASSUME NEW o \in Operators, NEW p \in Patchers, NEW m \in Mids, PatchSuspends(o, p, m)
        PROVE  UNCHANGED <<known, born, Queued, unanswered, begun, cutOffs>>
    BY <1>7 DEF PatchSuspends, PatchApprove, Queued
  <1>8. ASSUME NEW o \in Operators, PatchAnswers(o)
        PROVE  UNCHANGED <<patch, known, born, Queued, unanswered, begun, cutOffs>>
    BY <1>8 DEF PatchAnswers, PatchRow, dispatchVars, vars, Queued
  <1>9. ASSUME NEW o \in Operators, NoBridge(o)
        PROVE  UNCHANGED <<patch, known, screen, born, Queued, unanswered, begun, cutOffs>>
    BY <1>9 DEF NoBridge, dispatchVars, vars, Queued
  <1>10. ASSUME NEW o \in Operators, NEW exit \in {1, 130}, CutOff(o, exit)
         PROVE  /\ cutOffs < MaxCutOffs /\ cutOffs' = cutOffs + 1
                /\ UNCHANGED <<patch, known, screen, born, Queued, unanswered, begun>>
    BY <1>10 DEF CutOff, dispatchVars, vars, Queued
  <1>11. ASSUME NEW p \in Patchers, HandlerEnqueues(p)
         PROVE  UNCHANGED cliVars
    BY <1>11 DEF HandlerEnqueues
  <1>12. ASSUME NEW p \in Patchers, HandlerRefuses(p) \/ HandlerDone(p)
         PROVE  UNCHANGED <<known, screen, born, Queued, unanswered, begun, cutOffs>>
    BY <1>12 DEF HandlerRefuses, HandlerDone, EnqueueRefused, AnnounceApproved, Queued
  <1>13. BridgeDies => UNCHANGED <<known, screen, born, Queued, unanswered, begun, cutOffs>>
    BY DEF BridgeDies, BridgeCrash, Queued
  <1>14. Elsewhere => UNCHANGED cliVars
    BY DEF Elsewhere
  <1>15. UNCHANGED allVars => UNCHANGED <<patch, cli, known, screen, born, Queued, unanswered, begun, cutOffs>>
    BY DEF allVars, cliVars, dispatchVars, vars, Queued
  <1>16. /\ \A o \in Operators, all \in BOOLEAN : CmdList(o, all) =>
               UNCHANGED <<patch, cli, screen, born, Queued, unanswered, begun, cutOffs>>
         /\ \A o \in Operators, d \in Drafts : CmdShow(o, d) =>
               UNCHANGED <<patch, cli, known, born, Queued, unanswered, begun, cutOffs>>
    BY <1>2, <1>3
  <1>. QED BY <1>1, <1>4, <1>5, <1>6, <1>7, <1>8, <1>9, <1>10, <1>11, <1>12, <1>13, <1>14,
       <1>15, <1>16

(* retry, edit, approve and reject begin alike.                             *)
LEMMA Beginnings ==
  ASSUME NEW o \in Operators, NEW d \in Drafts,
         \/ CmdApprove(o, d) \/ CmdReject(o, d) \/ CmdRetry(o, d)
         \/ \E thenApprove \in BOOLEAN : CmdEdit(o, d, thenApprove)
  PROVE  \E cmd \in Commands : Begin(o, cmd, d)
  BY DEF CmdApprove, CmdReject, CmdRetry, CmdEdit, Commands

(* Only one command moves, and the handlers and the queued ids stay.        *)
OnlyMoves(o, e) == cli' = [cli EXCEPT ![o] = e] /\ UNCHANGED <<patch, Queued, unanswered>>

LEMMA OneMoves ==
  ASSUME CommandsAreSound, NEW o \in Operators, NEW e \in CommandRecords,
         OnlyMoves(o, e), SoundCommand(e, patch, Queued, unanswered)
  PROVE  CommandsAreSound'
  <1>1. cli' \in [Operators -> CommandRecords]
    BY DEF CommandsAreSound, OnlyMoves
  <1>2. \A x \in Operators : SoundCommand(cli'[x], patch', Queued', unanswered')
    BY DEF CommandsAreSound, OnlyMoves
  <1>. QED BY <1>1, <1>2 DEF CommandsAreSound

LEMMA BeginKeeps ==
  ASSUME CommandsAreSound, NEW o \in Operators, NEW d \in Drafts, NEW cmd \in Commands,
         Begin(o, cmd, d)
  PROVE  CommandsAreSound'
  <1>. DEFINE e == [NoCommand EXCEPT !.cmd = cmd, !.draft = d,
                    !.pc = IF cmd \in {"approve", "reject"} THEN "patch" ELSE "get"]
  <1>1. /\ e \in CommandRecords /\ e.cmd = cmd /\ e.draft = d
        /\ e.pc = IF cmd \in {"approve", "reject"} THEN "patch" ELSE "get"
        /\ e.text = None /\ e.slot = None /\ e.minted = {} /\ ~e.wasApproved /\ ~e.cutOff
    BY StepsAndExits DEF NoCommand, CommandRecords
  <1>2. cli' = [cli EXCEPT ![o] = e] /\ UNCHANGED <<patch, Queued, unanswered>>
    BY CliFrames DEF Begin
  <1>. HIDE DEF e
  <1>3. Fits(e)
    BY <1>1 DEF Fits, Commands, Editing
  <1>4. Counted(e)
    BY <1>1, NothingMinted DEF Counted, Spent
  <1>5. Settled(e, patch, Queued) /\ Truthful(e, Queued, unanswered)
    BY <1>1 DEF Settled, Truthful, Has
  <1>6. SoundCommand(e, patch, Queued, unanswered)
    BY <1>1, <1>3, <1>4, <1>5 DEF SoundCommand
  <1>9. OnlyMoves(o, e)
    BY <1>1, <1>2, <1>6 DEF OnlyMoves
  <1>. QED BY <1>1, <1>2, <1>6, <1>9, OneMoves

(* A command at a step before its first PATCH may go to the next.           *)
LEMMA GoesOn ==
  ASSUME NEW q \in CommandRecords, NEW hs, NEW js, NEW us, NEW pc \in {"editor", "patch"},
         NEW text \in Bodies \cup {None},
         SoundCommand(q, hs, js, us), q.pc \in {"get", "editor"},
         pc = "editor" => q.pc = "get" /\ q.cmd # "retry" /\ text = None,
         pc = "patch" => (q.cmd \in Editing <=> text # None)
  PROVE  Onward(q, pc, text) \in CommandRecords /\ SoundCommand(Onward(q, pc, text), hs, js, us)
  <1>. DEFINE e == Onward(q, pc, text)
  <1>1. /\ e \in CommandRecords /\ e.pc = pc /\ e.text = text /\ e.slot = q.slot
        /\ e.cmd = q.cmd /\ e.draft = q.draft /\ e.minted = q.minted /\ e.cutOff = q.cutOff
    <2>1. e \in CommandRecords
      BY StepsAndExits DEF Onward, CommandRecords
    <2>. QED BY <2>1 DEF Onward, CommandRecords
  <1>. HIDE DEF e
  <1>2. Fits(q) /\ Settled(q, hs, js) /\ q.minted = {} /\ q.slot = None /\ ~q.cutOff
    BY DEF SoundCommand, Fits, Settled
  <1>3. Fits(e)
    BY <1>1, <1>2 DEF Fits, Commands, Editing
  <1>4. Counted(e)
    BY <1>1, <1>2, NothingMinted DEF Counted, Spent
  <1>5. Settled(e, hs, js) /\ Truthful(e, js, us)
    BY <1>1, <1>2 DEF Settled, Truthful, Has
  <1>. QED BY <1>1, <1>2, <1>3, <1>4, <1>5 DEF SoundCommand, e

LEMMA GetKeeps ==
  ASSUME CommandsAreSound, NEW o \in Operators, GetFirst(o)
  PROVE  CommandsAreSound'
  <1>. DEFINE q == cli[o]
  <1>1. q \in CommandRecords /\ SoundCommand(q, patch, Queued, unanswered) /\ q.pc = "get" /\ Fits(q)
    BY CommandOf DEF GetFirst
  <1>2. UNCHANGED <<patch, Queued, unanswered>>
    BY CliFrames
  <1>3. CASE cli' = [cli EXCEPT ![o] = Ended(q, 1)]
    <2>1. Ended(q, 1) \in CommandRecords /\ SoundCommand(Ended(q, 1), patch, Queued, unanswered)
      BY <1>1, EndIsSound, EndedFields
    <2>9. OnlyMoves(o, Ended(q, 1))
      BY <1>2, <1>3, <2>1 DEF OnlyMoves
    <2>. QED BY <1>2, <1>3, <2>1, <2>9, OneMoves
  <1>4. CASE cli' = [cli EXCEPT ![o].pc = "patch"] /\ q.cmd = "retry"
    <2>. DEFINE e == Onward(q, "patch", None)
    <2>1. cli' = [cli EXCEPT ![o] = e]
      <3>1. [q EXCEPT !.pc = "patch"] = e
        BY <1>1 DEF Fits, CommandRecords, Onward
      <3>. QED BY <1>4, <3>1
    <2>2. e \in CommandRecords /\ SoundCommand(e, patch, Queued, unanswered)
      BY <1>1, <1>4, GoesOn DEF Editing
    <2>. HIDE DEF e
    <2>9. OnlyMoves(o, e)
      BY <1>2, <2>1, <2>2 DEF OnlyMoves
    <2>. QED BY <1>2, <2>1, <2>2, <2>9, OneMoves
  <1>5. CASE cli' = [cli EXCEPT ![o].pc = "editor"] /\ q.cmd # "retry"
    <2>. DEFINE e == Onward(q, "editor", None)
    <2>1. cli' = [cli EXCEPT ![o] = e]
      <3>1. [q EXCEPT !.pc = "editor"] = e
        BY <1>1 DEF Fits, CommandRecords, Onward
      <3>. QED BY <1>5, <3>1
    <2>2. e \in CommandRecords /\ SoundCommand(e, patch, Queued, unanswered)
      BY <1>1, <1>5, GoesOn
    <2>. HIDE DEF e
    <2>9. OnlyMoves(o, e)
      BY <1>2, <2>1, <2>2 DEF OnlyMoves
    <2>. QED BY <1>2, <2>1, <2>2, <2>9, OneMoves
  <1>. QED BY <1>3, <1>4, <1>5 DEF GetFirst

LEMMA EditorKeeps ==
  ASSUME CommandsAreSound, NEW o \in Operators, NEW text \in Bodies \cup {None},
         CloseEditor(o, text)
  PROVE  CommandsAreSound'
  <1>. DEFINE q == cli[o]
  <1>1. q \in CommandRecords /\ SoundCommand(q, patch, Queued, unanswered) /\ q.pc = "editor" /\ Fits(q)
    BY CommandOf DEF CloseEditor
  <1>2. UNCHANGED <<patch, Queued, unanswered>>
    BY CliFrames
  <1>3. q.cmd \in Editing /\ q.cmd \notin {"approve", "retry"}
    BY <1>1 DEF Fits, Editing
  <1>4. CASE cli' = [cli EXCEPT ![o] = Ended(q, 0)]
    <2>1. Ended(q, 0) \in CommandRecords /\ SoundCommand(Ended(q, 0), patch, Queued, unanswered)
      BY <1>1, <1>3, EndIsSound, EndedFields
    <2>9. OnlyMoves(o, Ended(q, 0))
      BY <1>2, <1>4, <2>1 DEF OnlyMoves
    <2>. QED BY <1>2, <1>4, <2>1, <2>9, OneMoves
  <1>5. CASE cli' = [cli EXCEPT ![o] = [q EXCEPT !.pc = "patch", !.text = text]] /\ text # None
    <2>. DEFINE e == Onward(q, "patch", text)
    <2>1. e \in CommandRecords /\ SoundCommand(e, patch, Queued, unanswered)
      BY <1>1, <1>3, <1>5, GoesOn
    <2>2. cli' = [cli EXCEPT ![o] = e]
      BY <1>5 DEF Onward
    <2>. HIDE DEF e
    <2>9. OnlyMoves(o, e)
      BY <1>2, <2>1, <2>2 DEF OnlyMoves
    <2>. QED BY <1>2, <2>1, <2>2, <2>9, OneMoves
  <1>. QED BY <1>4, <1>5 DEF CloseEditor

LEMMA AnsweredKeeps ==
  ASSUME CommandsAreSound, NEW o \in Operators, PatchAnswers(o)
  PROVE  CommandsAreSound'
  <1>. DEFINE q == cli[o]
              st == FieldOf(PatchOf(q), "status")
              b == FieldOf(PatchOf(q), "body")
  <1>1. q \in CommandRecords /\ SoundCommand(q, patch, Queued, unanswered) /\ Fits(q)
        /\ q.pc \in {"patch", "then"}
    BY CommandOf DEF PatchAnswers, AtPatch
  <1>2. CASE PatchRow(q.draft, st, b) /\ cli' = [cli EXCEPT ![o] = AfterPatch(q, 200)]
    <2>1. st # "approved"
      BY <1>2, ConstantsAssumption DEF PatchRow, Target, Statuses
    <2>2. q.cmd \notin {"approve", "retry"}
      BY <1>1, <2>1, PatchFields DEF Editing
    <2>3. UNCHANGED <<patch, Queued, unanswered>>
      BY CliFrames
    <2>4. /\ AfterPatch(q, 200) \in CommandRecords
          /\ SoundCommand(AfterPatch(q, 200), patch, Queued, unanswered)
      BY <1>1, <2>2, AnsweredIsSound
    <2>9. OnlyMoves(o, AfterPatch(q, 200))
      BY <1>2, <2>3 DEF OnlyMoves
    <2>. QED BY <2>4, <2>9, OneMoves
  <1>3. CASE cli' = [cli EXCEPT ![o] = AfterPatch(q, 409)] /\ UNCHANGED dispatchVars
    <2>1. UNCHANGED <<patch, Queued, unanswered>>
      BY CliFrames
    <2>2. /\ AfterPatch(q, 409) \in CommandRecords
          /\ SoundCommand(AfterPatch(q, 409), patch, Queued, unanswered)
      BY <1>1, AnsweredIsSound
    <2>9. OnlyMoves(o, AfterPatch(q, 409))
      BY <1>3, <2>1 DEF OnlyMoves
    <2>. QED BY <2>2, <2>9, OneMoves
  <1>. QED BY <1>2, <1>3 DEF PatchAnswers

LEMMA StoppedKeeps ==
  ASSUME CommandsAreSound, NEW o \in Operators,
         NoBridge(o) \/ \E exit \in {1, 130} : CutOff(o, exit)
  PROVE  CommandsAreSound'
  <1>. DEFINE q == cli[o]
  <1>1. q \in CommandRecords /\ SoundCommand(q, patch, Queued, unanswered)
    BY CommandOf
  <1>2. CASE NoBridge(o)
    <2>1. /\ q.pc \in {"get", "patch", "then"} /\ cli' = [cli EXCEPT ![o] = Ended(q, 1)]
          /\ UNCHANGED <<patch, Queued, unanswered>>
      BY <1>2, CliFrames DEF NoBridge, AtPatch
    <2>2. Ended(q, 1) \in CommandRecords /\ SoundCommand(Ended(q, 1), patch, Queued, unanswered)
      BY <1>1, <2>1, EndIsSound, EndedFields
    <2>9. OnlyMoves(o, Ended(q, 1))
      BY <2>1, <2>2 DEF OnlyMoves
    <2>. QED BY <2>1, <2>2, <2>9, OneMoves
  <1>3. ASSUME NEW exit \in {1, 130}, CutOff(o, exit) PROVE CommandsAreSound'
    <2>1. /\ q.pc # "idle" /\ cli' = [cli EXCEPT ![o] = Cut(q, exit)]
          /\ UNCHANGED <<patch, Queued, unanswered>>
      BY <1>3, CliFrames DEF CutOff, Cut
    <2>2. exit \in {0, 1, 130}
      OBVIOUS
    <2>. HIDE DEF q
    <2>3. Cut(q, exit) \in CommandRecords /\ SoundCommand(Cut(q, exit), patch, Queued, unanswered)
      BY <1>1, <2>1, <2>2, CutFields, CutIsSound
    <2>9. OnlyMoves(o, Cut(q, exit))
      BY <2>1, <2>2, <2>3 DEF OnlyMoves
    <2>. QED BY <2>1, <2>2, <2>3, <2>9, OneMoves
  <1>. QED BY <1>2, <1>3

(* The PATCH that suspends its handler: the slot was free, so that nobody   *)
(* waits for it, and the id is new, so that no command has it.              *)
LEMMA SuspendKeeps ==
  ASSUME IInv, CommandsAreSound, MintedAreIssued, NEW o \in Operators, NEW p \in Patchers,
         NEW m \in Mids, PatchSuspends(o, p, m)
  PROVE  CommandsAreSound'
  <1>. DEFINE q == cli[o]
              st == FieldOf(PatchOf(q), "status")
              b == FieldOf(PatchOf(q), "body")
              t == IF b = None THEN None ELSE q.text
              w == q.wasApproved \/ (b # None /\ rows[q.draft].status = "approved")
              e == Suspended(q, p, m, t, w)
  <1>1. q \in CommandRecords /\ SoundCommand(q, patch, Queued, unanswered) /\ Fits(q)
        /\ q.pc \in {"patch", "then"}
    BY CommandOf DEF PatchSuspends, AtPatch
  <1>2. /\ cli' = [cli EXCEPT ![o] = e] /\ UNCHANGED <<Queued, unanswered>>
        /\ PatchApprove(p, q.draft, st, b, m)
    BY CliFrames DEF PatchSuspends, Suspended
  <1>3. /\ patch[p].pc = "idle" /\ issued[m] = None
        /\ patch' = [patch EXCEPT ![p] = [pc |-> "enqueue", job |-> DispatchJob(q.draft, b, m)]]
        /\ DispatchJob(q.draft, b, m).mid = m
        /\ Target(q.draft, st) = "approved"
    BY <1>2 DEF PatchApprove, DispatchJob
  <1>4. /\ patch'[p].pc = "enqueue" /\ patch'[p].job.mid = m
        /\ \A r \in Patchers : r # p => patch'[r] = patch[r]
        /\ \A r \in Patchers : r # p /\ patch[r].pc = "enqueue" => patch[r].job.mid # m
    BY <1>3, HandsDiffer
  <1>5. m \notin Queued /\ \A x \in Operators : m \notin cli[x].minted
    BY <1>3, HandsDiffer DEF MintedAreIssued
  <1>6. e \in CommandRecords /\ SoundCommand(e, patch', Queued, unanswered)
    <2>1. /\ b \in Bodies \cup {None}
          /\ IF q.pc = "patch" /\ q.cmd \in Editing THEN st = None /\ b = q.text /\ b # None
             ELSE b = None /\ st = IF q.cmd = "reject" THEN "rejected" ELSE "approved"
      BY <1>1, PatchFields
    <2>2. t \in Bodies \cup {None} /\ w \in BOOLEAN
      BY <1>1, <2>1 DEF CommandRecords
    <2>3. IF q.pc = "patch" /\ q.cmd \in Editing THEN w /\ t = q.text /\ t # None
          ELSE w = q.wasApproved /\ t = None /\ q.cmd # "reject"
      <3>1. q.wasApproved \in BOOLEAN
        BY <1>1 DEF CommandRecords
      <3>. QED BY <1>3, <2>1, <3>1, ConstantsAssumption DEF Target, Statuses
    <2>. HIDE DEF t, w, q, b, st
    <2>4. e \in CommandRecords
      BY <1>1, <2>2, SuspendedFields
    <2>5. SoundCommand(e, patch', Queued, unanswered)
      BY <1>1, <1>4, <1>5, <2>2, <2>3, SuspensionIsSound
    <2>. QED BY <2>4, <2>5
  <1>. HIDE DEF e
  <1>7. cli' \in [Operators -> CommandRecords]
    BY <1>2, <1>6 DEF CommandsAreSound
  <1>8. ASSUME NEW x \in Operators
        PROVE  SoundCommand(cli'[x], patch', Queued', unanswered')
    <2>1. CASE x = o
      BY <1>2, <1>6, <2>1 DEF CommandsAreSound
    <2>2. CASE x # o
      <3>1. cli'[x] = cli[x] /\ cli[x] \in CommandRecords /\ SoundCommand(cli[x], patch, Queued, unanswered)
        BY <1>2, <2>2 DEF CommandsAreSound
      <3>2. cli[x].pc = "wait" => patch'[cli[x].slot] = patch[cli[x].slot]
        BY <1>3, <1>4, <3>1 DEF SoundCommand, Waits
      <3>3. \A r \in Patchers : Has(patch', r, cli[x]) => Has(patch, r, cli[x])
        BY <1>4, <1>5 DEF Has
      <3>. QED BY <1>2, <3>1, <3>2, <3>3, StandsStill
    <2>. QED BY <2>1, <2>2
  <1>. QED BY <1>7, <1>8 DEF CommandsAreSound

LEMMA EnqueueKeeps ==
  ASSUME IInv, CommandsAreSound, MintedAreIssued, NEW p \in Patchers, HandlerEnqueues(p)
  PROVE  CommandsAreSound'
  <1>. DEFINE m == patch[p].job.mid
  <1>1. /\ patch[p].pc = "enqueue" /\ cli' = cli
        /\ EnqueueDispatch(p) \/ EnqueueUnanswered(p)
    BY DEF HandlerEnqueues, EnqueueDispatch, EnqueueUnanswered, RunPush, cliVars
  <1>2. Queued' = Queued \cup {m}
    BY <1>1, QueuedGrows DEF EnqueueDispatch, EnqueueUnanswered
  <1>3. CASE EnqueueDispatch(p)
    <2>1. /\ patch' = [patch EXCEPT ![p] = [pc |-> "announce", job |-> None]]
          /\ unanswered' = unanswered
      BY <1>1, <1>3 DEF EnqueueDispatch, MintedAreIssued
    <2>2. patch'[p].pc = "announce" /\ \A r \in Patchers : r # p => patch'[r] = patch[r]
      BY <2>1, HandsDiffer
    <2>3. ASSUME NEW x \in Operators
          PROVE  SoundCommand(cli'[x], patch', Queued', unanswered')
      BY <1>1, <1>2, <2>1, <2>2, CommandOf, HandlerQueuesJob
    <2>. QED BY <1>1, <2>3 DEF CommandsAreSound
  <1>4. CASE EnqueueUnanswered(p)
    <2>1. patch' = patch /\ unanswered' = unanswered \cup {m}
      BY <1>4 DEF EnqueueUnanswered
    <2>2. ASSUME NEW x \in Operators
          PROVE  SoundCommand(cli'[x], patch', Queued', unanswered')
      BY <1>1, <1>2, <2>1, CommandOf, StandsStill
    <2>. QED BY <1>1, <2>2 DEF CommandsAreSound
  <1>. QED BY <1>1, <1>3, <1>4

(* A handler ends: its command, if one still waits for it, is answered.     *)
LEMMA AnswerKeeps ==
  ASSUME IInv, CommandsAreSound, MintedAreIssued, NEW p \in Patchers,
         HandlerRefuses(p) \/ HandlerDone(p)
  PROVE  CommandsAreSound'
  <1>. DEFINE status == IF patch[p].pc = "enqueue" THEN 502 ELSE 200
  <1>1. /\ patch[p].pc \in {"enqueue", "announce"} /\ UNCHANGED <<Queued, unanswered>>
        /\ patch' = [patch EXCEPT ![p] = IdlePatch]
        /\ AnswerSlot(p, status)
    <2>1. CASE HandlerRefuses(p)
      BY <2>1, CliFrames DEF HandlerRefuses, EnqueueRefused, RefusalStatus
    <2>2. CASE HandlerDone(p)
      BY <2>2, CliFrames DEF HandlerDone, AnnounceApproved
    <2>. QED BY <2>1, <2>2
  <1>2. /\ patch'[p].pc = "idle" /\ \A r \in Patchers : r # p => patch'[r] = patch[r]
        /\ patch[p].pc = "enqueue" /\ patch[p].job.mid \in Queued =>
              patch[p].job.mid \in unanswered
    BY <1>1, HandsDiffer DEF IdlePatch
  <1>3. ASSUME NEW x \in Operators
        PROVE  cli'[x] \in CommandRecords /\ SoundCommand(cli'[x], patch', Queued', unanswered')
    <2>1. cli[x] \in CommandRecords /\ SoundCommand(cli[x], patch, Queued, unanswered) /\ Fits(cli[x])
      BY CommandOf
    <2>2. CASE cli[x].slot = p
      <3>1. cli[x].pc = "wait" /\ patch[cli[x].slot].pc = patch[p].pc
        BY <2>1, <2>2, DraftCLIAssumption DEF SoundCommand
      <3>2. cli'[x] = AfterPatch(Resumed(cli[x]), status)
        BY <1>1, <2>2 DEF AnswerSlot, Awaiting
      <3>3. AfterPatch(Resumed(cli[x]), status) \in CommandRecords
        BY <2>1, <3>1, AnswerCases
      <3>4. CASE patch[p].pc = "enqueue"
        <4>1. SoundCommand(AfterPatch(Resumed(cli[x]), 502), patch', Queued, unanswered)
          BY <1>2, <2>1, <2>2, <3>1, <3>4, RefusalIsSound
        <4>. QED BY <1>1, <3>2, <3>3, <3>4, <4>1
      <3>5. CASE patch[p].pc = "announce"
        <4>1. SoundCommand(AfterPatch(Resumed(cli[x]), 200), patch', Queued, unanswered)
          BY <1>2, <2>1, <2>2, <3>1, <3>5, AnswerIsSound
        <4>. QED BY <1>1, <3>2, <3>3, <3>5, <4>1
      <3>. QED BY <1>1, <3>4, <3>5
    <2>3. CASE cli[x].slot # p
      <3>1. cli'[x] = cli[x]
        BY <1>1, <2>3 DEF AnswerSlot, Awaiting
      <3>2. cli[x].pc = "wait" => patch'[cli[x].slot] = patch[cli[x].slot]
        BY <1>2, <2>1, <2>3 DEF SoundCommand, Waits
      <3>3. \A r \in Patchers : Has(patch', r, cli[x]) => Has(patch, r, cli[x])
        BY <1>2 DEF Has
      <3>. QED BY <1>1, <2>1, <3>1, <3>2, <3>3, StandsStill
    <2>. QED BY <2>2, <2>3
  <1>4. cli' = [x \in Operators |-> cli'[x]]
    BY <1>1 DEF AnswerSlot
  <1>. QED BY <1>3, <1>4 DEF CommandsAreSound

LEMMA BridgeDeathKeeps ==
  ASSUME CommandsAreSound, BridgeDies
  PROVE  CommandsAreSound'
  <1>1. /\ \A r \in Patchers : patch'[r].pc = "idle"
        /\ UNCHANGED <<Queued, unanswered>>
        /\ cli' = [o \in Operators |->
              IF cli[o].pc = "wait" THEN Cut(cli[o], 1) ELSE cli[o]]
    BY CliFrames DEF BridgeDies, BridgeCrash, IdlePatch, Cut
  <1>2. ASSUME NEW x \in Operators
        PROVE  cli'[x] \in CommandRecords /\ SoundCommand(cli'[x], patch', Queued', unanswered')
    <2>1. cli[x] \in CommandRecords /\ SoundCommand(cli[x], patch, Queued, unanswered)
      BY CommandOf
    <2>2. CASE cli[x].pc = "wait"
      <3>1. cli'[x] = Cut(cli[x], 1)
        BY <1>1, <2>2
      <3>2. Cut(cli[x], 1) \in CommandRecords /\ SoundCommand(Cut(cli[x], 1), patch', Queued, unanswered)
        BY <2>1, <2>2, CutIsSound, CutFields
      <3>. QED BY <1>1, <3>1, <3>2
    <2>3. CASE cli[x].pc # "wait"
      <3>1. cli'[x] = cli[x]
        BY <1>1, <2>3
      <3>2. \A r \in Patchers : ~Has(patch', r, cli[x])
        BY <1>1 DEF Has
      <3>. QED BY <1>1, <2>1, <2>3, <3>1, <3>2, StandsStill
    <2>. QED BY <2>2, <2>3
  <1>3. cli' = [x \in Operators |-> cli'[x]]
    BY <1>1
  <1>. QED BY <1>2, <1>3 DEF CommandsAreSound

(* Redis, the relay and the reports change neither handlers nor ids, and of *)
(* the rows only the status.                                                *)
LEMMA ElsewhereFrame ==
  ASSUME TypeOK, Elsewhere
  PROVE  /\ UNCHANGED <<patch, issued, cli, known, screen, born, Queued, unanswered, begun, cutOffs>>
         /\ \A d \in Drafts : /\ rows'[d].body = rows[d].body
                              /\ rows[d].status # None => rows'[d].status # None
  <1>1. ASSUME NEW h \in posts, Correlate(h)
        PROVE  /\ UNCHANGED <<patch, issued, pushes, unanswered>>
               /\ \A d \in Drafts : /\ rows'[d].body = rows[d].body
                                    /\ rows[d].status # None => rows'[d].status # None
    <2>1. UNCHANGED <<patch, issued, pushes, unanswered>> /\ rows' = Correlated(h)
      BY <1>1 DEF Correlate, history
    <2>2. ASSUME NEW d \in Drafts
          PROVE  /\ rows'[d].body = rows[d].body
                 /\ rows[d].status # None => rows'[d].status # None
      <3>1. rows'[d] = IF rows[d].dispatch = h.mid
                       THEN [rows[d] EXCEPT !.status = IF h.ok THEN "sent" ELSE "send_failed"]
                       ELSE rows[d]
        BY <2>1 DEF Correlated
      <3>2. rows[d] \in Rows
        BY RowIsTyped
      <3>3. CASE rows'[d] = rows[d]
        BY <3>3
      <3>4. ASSUME NEW st \in {"sent", "send_failed"},
                   rows'[d] = [rows[d] EXCEPT !.status = st]
            PROVE  rows'[d].body = rows[d].body /\ rows'[d].status # None
        BY <3>2, <3>4, ConstantsAssumption DEF Rows, Statuses
      <3>. QED BY <3>1, <3>3, <3>4
    <2>. QED BY <2>1, <2>2
  <1>2. ASSUME NEW h \in posts, PublishOutcome(h) \/ PublishFails(h)
        PROVE  UNCHANGED <<patch, issued, rows, pushes, unanswered>>
    BY <1>2 DEF PublishOutcome, PublishFails
  <1>3. Outbound \/ RedisCrash \/ RedisStart \/ BridgeStart => UNCHANGED <<patch, issued, rows, pushes, unanswered>>
    BY Frames DEF Outbound
  <1>4. UNCHANGED <<cli, known, screen, born, begun, cutOffs>>
    BY DEF Elsewhere, cliVars
  <1>5. UNCHANGED pushes => UNCHANGED Queued
    BY DEF Queued
  <1>. QED BY <1>1, <1>2, <1>3, <1>4, <1>5 DEF Elsewhere

(* Every step keeps the commands sound.                                     *)
LEMMA CommandsStep ==
  ASSUME IInv, CommandsAreSound, MintedAreIssued, [CliNext]_allVars
  PROVE  CommandsAreSound'
  <1>1. ASSUME UNCHANGED <<cli, Queued, unanswered, patch>>
        PROVE  CommandsAreSound'
    BY <1>1 DEF CommandsAreSound
  <1>2. ASSUME NEW d \in Drafts, NEW b \in Bodies, BrainCreates(d, b)
        PROVE  CommandsAreSound'
    BY <1>1, <1>2, CliFrames
  <1>3. ASSUME NEW o \in Operators
        PROVE  /\ \A all \in BOOLEAN : CmdList(o, all) => CommandsAreSound'
               /\ \A d \in Drafts : CmdShow(o, d) => CommandsAreSound'
    BY <1>1, CliFrames
  <1>4. ASSUME NEW o \in Operators, NEW d \in Drafts,
               \/ CmdApprove(o, d) \/ CmdReject(o, d) \/ CmdRetry(o, d)
               \/ \E thenApprove \in BOOLEAN : CmdEdit(o, d, thenApprove)
        PROVE  CommandsAreSound'
    <2>1. PICK cmd \in Commands : Begin(o, cmd, d)
      BY <1>4 DEF CmdApprove, CmdReject, CmdRetry, CmdEdit, Commands
    <2>. QED BY <2>1, BeginKeeps
  <1>5. ASSUME NEW o \in Operators,
               \/ GetFirst(o) \/ PatchAnswers(o) \/ NoBridge(o)
               \/ \E text \in Bodies \cup {None} : CloseEditor(o, text)
               \/ \E exit \in {1, 130} : CutOff(o, exit)
        PROVE  CommandsAreSound'
    BY <1>5, GetKeeps, EditorKeeps, AnsweredKeeps, StoppedKeeps
  <1>6. ASSUME NEW o \in Operators, NEW p \in Patchers, NEW m \in Mids, PatchSuspends(o, p, m)
        PROVE  CommandsAreSound'
    BY <1>6, SuspendKeeps
  <1>7. ASSUME NEW p \in Patchers, HandlerEnqueues(p) \/ HandlerRefuses(p) \/ HandlerDone(p)
        PROVE  CommandsAreSound'
    BY <1>7, EnqueueKeeps, AnswerKeeps
  <1>8. BridgeDies => CommandsAreSound'
    BY BridgeDeathKeeps
  <1>9. Elsewhere => CommandsAreSound'
    BY <1>1, ElsewhereFrame DEF IInv
  <1>10. UNCHANGED allVars => CommandsAreSound'
    BY <1>1, CliFrames
  <1>. QED BY <1>2, <1>3, <1>4, <1>5, <1>6, <1>7, <1>8, <1>9, <1>10 DEF CliNext

(* What a command has minted grows by the id of its PATCH, if it sends one. *)
LEMMA MintedMoves ==
  ASSUME CommandsAreSound, [CliNext]_allVars, NEW o \in Operators,
         NEW x \in cli'[o].minted, x \notin cli[o].minted
  PROVE  \E p \in Patchers, m \in Mids : PatchSuspends(o, p, m) /\ x = m
  <1>1. cli \in [Operators -> CommandRecords] /\ cli[o] \in CommandRecords /\ Fits(cli[o])
    BY CommandOf DEF CommandsAreSound
  <1>2. ~UNCHANGED cli
    OBVIOUS
  <1>3. ASSUME NEW y \in Operators, NEW d \in Drafts, NEW cmd \in Commands, Begin(y, cmd, d)
        PROVE  FALSE
    BY <1>1, <1>3 DEF Begin, NoCommand
  <1>4. ASSUME NEW y \in Operators, GetFirst(y)
        PROVE  FALSE
    <2>1. cli[y] \in CommandRecords /\ Ended(cli[y], 1).minted = cli[y].minted
      BY <1>1, EndedFields
    <2>. QED BY <1>1, <1>4, <2>1 DEF GetFirst, CommandRecords
  <1>5. ASSUME NEW y \in Operators, NEW text \in Bodies \cup {None}, CloseEditor(y, text)
        PROVE  FALSE
    <2>1. cli[y] \in CommandRecords /\ Ended(cli[y], 0).minted = cli[y].minted
      BY <1>1, EndedFields
    <2>. QED BY <1>1, <1>5, <2>1 DEF CloseEditor, CommandRecords
  <1>6. ASSUME NEW y \in Operators, PatchAnswers(y)
        PROVE  FALSE
    <2>1. ASSUME NEW status \in {200, 409}
          PROVE  AfterPatch(cli[y], status).minted = cli[y].minted
      <3>1. cli[y] \in CommandRecords /\ ExitCode(status) \in {0, 1, 130}
        BY <1>1 DEF ExitCode, Raises
      <3>2. CASE AfterPatch(cli[y], status) = Ended(cli[y], ExitCode(status))
        <4>1. Ended(cli[y], ExitCode(status)).minted = cli[y].minted
          BY <3>1, EndedFields
        <4>. QED BY <3>2, <4>1
      <3>3. CASE AfterPatch(cli[y], status) = SecondPatch(cli[y])
        <4>1. SecondPatch(cli[y]).minted = cli[y].minted
          BY <3>1, ThenFields
        <4>. QED BY <3>3, <4>1
      <3>. QED BY <3>2, <3>3 DEF AfterPatch, SecondPatch
    <2>2. cli' = [cli EXCEPT ![y] = AfterPatch(cli[y], 200)]
          \/ cli' = [cli EXCEPT ![y] = AfterPatch(cli[y], 409)]
      BY <1>6 DEF PatchAnswers
    <2>. QED BY <1>1, <2>1, <2>2
  <1>7. ASSUME NEW y \in Operators, NoBridge(y) \/ \E exit \in {1, 130} : CutOff(y, exit)
        PROVE  FALSE
    <2>1. cli[y] \in CommandRecords
      BY <1>1
    <2>2. \A exit \in {1, 130} : /\ Ended(cli[y], exit).minted = cli[y].minted
                                 /\ Cut(cli[y], exit).minted = cli[y].minted
      BY <2>1, EndedFields, CutFields
    <2>3. PICK exit \in {1, 130} :
             \/ cli' = [cli EXCEPT ![y] = Ended(cli[y], exit)]
             \/ cli' = [cli EXCEPT ![y] = Cut(cli[y], exit)]
      BY <1>7 DEF NoBridge, CutOff, Cut
    <2>. QED BY <1>1, <2>2, <2>3
  <1>8. ASSUME NEW p \in Patchers, HandlerRefuses(p) \/ HandlerDone(p)
        PROVE  FALSE
    <2>1. PICK status \in {200, 502} : AnswerSlot(p, status)
      BY <1>8 DEF HandlerRefuses, HandlerDone, RefusalStatus
    <2>2. CASE cli[o].slot = p
      <3>1. cli[o].pc = "wait"
        BY <2>2, CommandOf, DraftCLIAssumption DEF SoundCommand
      <3>2. cli'[o] = AfterPatch(Resumed(cli[o]), status)
        BY <2>1, <2>2 DEF AnswerSlot, Awaiting
      <3>. QED BY <1>1, <3>1, <3>2, AnswerCases
    <2>3. CASE cli[o].slot # p
      BY <2>1, <2>3 DEF AnswerSlot, Awaiting
    <2>. QED BY <2>2, <2>3
  <1>9. ASSUME BridgeDies
        PROVE  FALSE
    <2>1. Cut(cli[o], 1).minted = cli[o].minted
      BY <1>1, CutFields
    <2>. QED BY <1>9, <2>1 DEF BridgeDies, Cut
  <1>10. ASSUME NEW y \in Operators, NEW d \in Drafts,
                \/ CmdApprove(y, d) \/ CmdReject(y, d) \/ CmdRetry(y, d)
                \/ \E thenApprove \in BOOLEAN : CmdEdit(y, d, thenApprove)
         PROVE  FALSE
    <2>1. PICK cmd \in Commands : Begin(y, cmd, d)
      BY <1>10 DEF CmdApprove, CmdReject, CmdRetry, CmdEdit, Commands
    <2>. QED BY <2>1, <1>3
  <1>11. ASSUME NEW y \in Operators, NEW p \in Patchers, NEW m \in Mids, PatchSuspends(y, p, m)
         PROVE  y = o /\ x = m
    <2>1. cli[y] \in CommandRecords
      BY <1>1
    <2>2. y # o => cli'[o] = cli[o]
      BY <1>11 DEF PatchSuspends
    <2>3. cli'[y].minted = cli[y].minted \cup {m}
      BY <1>1, <1>11, <2>1 DEF PatchSuspends, CommandRecords
    <2>. QED BY <2>2, <2>3
  <1>12. /\ \A d \in Drafts, b \in Bodies : ~BrainCreates(d, b)
         /\ \A y \in Operators, all \in BOOLEAN : ~CmdList(y, all)
         /\ \A y \in Operators, d \in Drafts : ~CmdShow(y, d)
         /\ \A p \in Patchers : ~HandlerEnqueues(p)
         /\ ~Elsewhere /\ ~UNCHANGED allVars
    BY <1>2 DEF BrainCreates, CmdList, CmdShow, HandlerEnqueues, Elsewhere, allVars, cliVars
  <1>. QED BY <1>4, <1>5, <1>6, <1>7, <1>8, <1>9, <1>10, <1>11, <1>12 DEF CliNext

(* An id stays issued, with its job.                                        *)
LEMMA IssuedStays ==
  ASSUME TypeOK, [Next]_vars, NEW m \in Mids, issued[m] # None
  PROVE  issued'[m] = issued[m]
  <1>1. ASSUME NEW p \in Patchers, NEW d \in Drafts, NEW st \in Statuses \cup {None},
               NEW b \in Bodies \cup {None}, NEW n \in Mids, PatchApprove(p, d, st, b, n)
        PROVE  issued'[m] = issued[m]
    BY <1>1 DEF PatchApprove, TypeOK
  <1>2. ASSUME NEW p \in Patchers, NEW n \in Mids, NEW b \in Bodies, DirectSend(p, n, b)
        PROVE  issued'[m] = issued[m]
    BY <1>2 DEF DirectSend, TypeOK
  <1>3. \/ \E p \in Patchers, d \in Drafts, st \in Statuses \cup {None}, b \in Bodies \cup {None},
             n \in Mids : PatchApprove(p, d, st, b, n)
        \/ \E p \in Patchers, n \in Mids, b \in Bodies : DirectSend(p, n, b)
        \/ UNCHANGED issued
    BY Frames DEF Next, Request, Handler, Outbound, Failure, Restart
  <1>. QED BY <1>1, <1>2, <1>3

(* A handler is queueing because it was, or for the draft of a command.     *)
LEMMA HandlersMove ==
  ASSUME IInv, CommandsAreSound, [CliNext]_allVars
  PROVE  \A p \in Patchers : patch'[p].pc = "enqueue" =>
            patch'[p] = patch[p] \/ patch'[p].job.draft \in Drafts
  <1>1. patch \in [Patchers -> [pc : {"idle", "enqueue", "announce"}, job : Jobs \cup {None}]]
    BY HandsDiffer
  <1>2. ASSUME NEW o \in Operators, NEW p \in Patchers, NEW m \in Mids, PatchSuspends(o, p, m),
               NEW r \in Patchers, patch'[r].pc = "enqueue"
        PROVE  patch'[r] = patch[r] \/ patch'[r].job.draft \in Drafts
    <2>1. cli[o].draft \in Drafts
      BY <1>2, CommandOf DEF PatchSuspends, AtPatch
    <2>. QED BY <1>1, <1>2, <2>1 DEF PatchSuspends, PatchApprove, DispatchJob
  <1>3. ASSUME NEW p \in Patchers, HandlerEnqueues(p) \/ HandlerRefuses(p) \/ HandlerDone(p),
               NEW r \in Patchers, patch'[r].pc = "enqueue"
        PROVE  patch'[r] = patch[r]
    BY <1>1, <1>3 DEF HandlerEnqueues, HandlerRefuses, HandlerDone, EnqueueDispatch,
       EnqueueUnanswered, EnqueueRefused, AnnounceApproved, IdlePatch
  <1>4. ASSUME BridgeDies, NEW r \in Patchers
        PROVE  patch'[r].pc # "enqueue"
    BY <1>4 DEF BridgeDies, BridgeCrash, IdlePatch
  <1>5. ASSUME NEW o \in Operators, PatchAnswers(o)
        PROVE  UNCHANGED patch
    BY <1>5 DEF PatchAnswers, PatchRow, dispatchVars, vars
  <1>6. /\ \A d \in Drafts, b \in Bodies : BrainCreates(d, b) => UNCHANGED patch
        /\ \A o \in Operators :
              /\ \A all \in BOOLEAN : CmdList(o, all) => UNCHANGED patch
              /\ \A d \in Drafts :
                    /\ CmdShow(o, d) \/ CmdApprove(o, d) \/ CmdReject(o, d) \/ CmdRetry(o, d) =>
                          UNCHANGED patch
                    /\ \A thenApprove \in BOOLEAN : CmdEdit(o, d, thenApprove) => UNCHANGED patch
              /\ GetFirst(o) => UNCHANGED patch
              /\ \A text \in Bodies \cup {None} : CloseEditor(o, text) => UNCHANGED patch
              /\ NoBridge(o) => UNCHANGED patch
              /\ \A exit \in {1, 130} : CutOff(o, exit) => UNCHANGED patch
        /\ Elsewhere => UNCHANGED patch
        /\ UNCHANGED allVars => UNCHANGED patch
    <2>1. Elsewhere => UNCHANGED patch
      BY ElsewhereFrame DEF IInv
    <2>. QED BY <2>1, CliFrames, Beginnings
  <1>. QED BY <1>2, <1>3, <1>4, <1>5, <1>6 DEF CliNext

LEMMA MintedStep ==
  ASSUME IInv, CliTypeOK, CommandsAreSound, MintedAreIssued, [CliNext]_allVars
  PROVE  MintedAreIssued'
  <1>1. [Next]_vars /\ TypeOK
    BY StepsAreDispatch DEF IInv
  <1>2. \A m \in Mids : issued[m] # None => issued'[m] # None
    BY <1>1, IssuedStays
  <1>3. \A o \in Operators : cli[o].minted \subseteq Mids
    BY DEF CliTypeOK
  <1>4. ASSUME NEW o \in Operators, NEW m \in cli'[o].minted PROVE issued'[m] # None
    <2>1. CASE m \in cli[o].minted
      BY <1>2, <1>3, <2>1 DEF MintedAreIssued
    <2>2. CASE m \notin cli[o].minted
      <3>1. PICK p \in Patchers, n \in Mids : PatchSuspends(o, p, n) /\ m = n
        BY <2>2, MintedMoves
      <3>2. IInv'
        BY <1>1, StepInv
      <3>3. issued'[m] # None
        <4>1. patch'[p].pc = "enqueue" /\ patch'[p].job.mid = m
          BY <1>1, <3>1 DEF PatchSuspends, PatchApprove, DispatchJob, TypeOK
        <4>2. patch'[p].job \in Jobs /\ issued'[patch'[p].job.mid] = patch'[p].job
          BY <3>2, <4>1 DEF IInv, JobsAreIssued, Enqueuing
        <4>. QED BY <4>1, <4>2, ConstantsAssumption
      <3>. QED BY <3>3
    <2>. QED BY <2>1, <2>2
  <1>5. ASSUME NEW p \in Patchers, patch'[p].pc = "enqueue"
        PROVE  patch'[p].job.draft # None
    BY <1>5, HandlersMove, ConstantsAssumption DEF MintedAreIssued
  <1>. QED BY <1>4, <1>5 DEF MintedAreIssued

----------------------------------------------------------------------------
(* Screens                                                                  *)

(* What a step does to the rows while the screens stay.                     *)
LEMMA ScreensStay ==
  ASSUME ScreensAreCurrent, UNCHANGED screen,
         \A d \in Drafts : rows[d].status # None =>
            rows'[d].status # None /\ rows'[d].body = rows[d].body
  PROVE  ScreensAreCurrent'
  BY DEF ScreensAreCurrent

(* A terminal reads a row.                                                  *)
LEMMA ScreenReads ==
  ASSUME CliTypeOK, ScreensAreCurrent, UNCHANGED rows, NEW o \in Operators, NEW d \in Drafts,
         rows[d].status # None,
         screen' = [screen EXCEPT ![o][d] = [body |-> rows[d].body, raced |-> FALSE]]
  PROVE  ScreensAreCurrent'
  <1>1. \A x \in Operators, y \in Drafts :
           screen'[x][y] = IF x = o /\ y = d THEN [body |-> rows[d].body, raced |-> FALSE]
                           ELSE screen[x][y]
    BY DEF CliTypeOK
  <1>. QED BY <1>1 DEF ScreensAreCurrent

(* A PATCH with a body is seen by who sent it, and races with the others.   *)
LEMMA ScreensSee ==
  ASSUME CliTypeOK, ScreensAreCurrent, NEW o \in Operators, NEW d \in Drafts,
         NEW b \in Bodies \cup {None}, rows[d].status # None,
         rows'[d].status # None, rows'[d].body = PatchedBody(d, b),
         \A y \in Drafts : y # d => rows'[y] = rows[y],
         screen' = Seen(o, d, b)
  PROVE  ScreensAreCurrent'
  <1>1. CASE b = None
    <2>1. \A x \in Operators : screen'[x] = screen[x]
      BY <1>1 DEF Seen
    <2>. QED BY <1>1, <2>1 DEF ScreensAreCurrent, PatchedBody
  <1>2. CASE b # None
    <2>1. \A x \in Operators : screen[x] \in [Drafts -> [body : Bodies \cup {None}, raced : BOOLEAN]]
      BY DEF CliTypeOK
    <2>2. screen'[o] = [screen[o] EXCEPT ![d] = [body |-> b, raced |-> FALSE]]
      BY <1>2 DEF Seen
    <2>3. \A x \in Operators : x # o =>
             screen'[x] = [screen[x] EXCEPT ![d].raced = @ \/ b # rows[d].body]
      BY <1>2 DEF Seen
    <2>4. ASSUME NEW x \in Operators, NEW y \in Drafts, screen'[x][y].body # None
          PROVE  /\ rows'[y].status # None
                 /\ ~screen'[x][y].raced => rows'[y].body = screen'[x][y].body
      <3>1. CASE x = o /\ y = d
        BY <1>2, <2>1, <2>2, <3>1 DEF PatchedBody
      <3>2. CASE x # o /\ y = d
        <4>1. /\ screen'[x][d].body = screen[x][d].body
              /\ ~screen'[x][d].raced => ~screen[x][d].raced /\ b = rows[d].body
          <5>. DEFINE r == screen[x][d].raced \/ b # rows[d].body
          <5>1. screen[x][d] \in [body : Bodies \cup {None}, raced : BOOLEAN] /\ r \in BOOLEAN
            BY <2>1
          <5>2. screen'[x][d] = [screen[x][d] EXCEPT !.raced = r]
            BY <2>1, <2>3, <3>2
          <5>. HIDE DEF r
          <5>3. screen'[x][d].body = screen[x][d].body /\ screen'[x][d].raced = r
            BY <5>1, <5>2
          <5>. QED BY <5>3 DEF r
        <4>2. screen[x][d].body # None
          BY <2>4, <3>2, <4>1
        <4>3. ~screen[x][d].raced => rows[d].body = screen[x][d].body
          BY <4>2 DEF ScreensAreCurrent
        <4>4. rows'[d].body = b
          BY <1>2 DEF PatchedBody
        <4>5. ASSUME ~screen'[x][d].raced PROVE rows'[d].body = screen'[x][d].body
          BY <4>1, <4>3, <4>4, <4>5
        <4>. QED BY <3>2, <4>5
      <3>3. CASE y # d
        <4>1. screen'[x][y] = screen[x][y]
          <5>1. CASE x = o
            BY <2>1, <2>2, <3>3, <5>1
          <5>2. CASE x # o
            <6>1. PICK e : screen'[x] = [screen[x] EXCEPT ![d] = e]
              BY <2>3, <5>2
            <6>. QED BY <2>1, <3>3, <6>1
          <5>. QED BY <5>1, <5>2
        <4>. QED BY <2>4, <3>3, <4>1 DEF ScreensAreCurrent
      <3>. QED BY <3>1, <3>2, <3>3
    <2>. QED BY <2>4 DEF ScreensAreCurrent
  <1>. QED BY <1>1, <1>2

LEMMA ScreensStep ==
  ASSUME IInv, CliTypeOK, CommandsAreSound, ScreensAreCurrent, [CliNext]_allVars
  PROVE  ScreensAreCurrent'
  <1>0. TypeOK /\ rows \in [Drafts -> Rows]
    BY DEF IInv, TypeOK
  <1>1. ASSUME NEW d \in Drafts, NEW b \in Bodies, BrainCreates(d, b)
        PROVE  ScreensAreCurrent'
    BY <1>0, <1>1, ScreensStay DEF BrainCreates, CreateDraft
  <1>2. ASSUME NEW o \in Operators, NEW d \in Drafts, CmdShow(o, d)
        PROVE  ScreensAreCurrent'
    <2>1. /\ UNCHANGED rows /\ rows[d].status # None
          /\ screen' = [screen EXCEPT ![o][d] = [body |-> rows[d].body, raced |-> FALSE]]
      BY <1>2 DEF CmdShow, Raises, GetStatus, DraftOut, dispatchVars, vars
    <2>. QED BY <2>1, ScreenReads
  <1>3. ASSUME NEW o \in Operators, GetFirst(o)
        PROVE  ScreensAreCurrent'
    <2>1. cli[o].draft \in Drafts /\ UNCHANGED rows
      BY <1>3, CommandOf DEF GetFirst, dispatchVars, vars
    <2>2. \/ UNCHANGED screen
          \/ /\ rows[cli[o].draft].status # None
             /\ screen' = [screen EXCEPT ![o][cli[o].draft] =
                             [body |-> rows[cli[o].draft].body, raced |-> FALSE]]
      BY <1>3 DEF GetFirst, Raises, GetStatus, DraftOut
    <2>. QED BY <2>1, <2>2, ScreenReads, ScreensStay
  <1>4. ASSUME NEW o \in Operators, NEW p \in Patchers, NEW m \in Mids, PatchSuspends(o, p, m)
        PROVE  ScreensAreCurrent'
    <2>. DEFINE d == cli[o].draft
                st == FieldOf(PatchOf(cli[o]), "status")
                b == FieldOf(PatchOf(cli[o]), "body")
    <2>1. d \in Drafts /\ b \in Bodies \cup {None}
      BY <1>4, CommandOf, PatchFields DEF PatchSuspends, AtPatch
    <2>2. PatchApprove(p, d, st, b, m) /\ screen' = Seen(o, d, b)
      BY <1>4 DEF PatchSuspends
    <2>. HIDE DEF d, st, b
    <2>3. /\ rows[d].status # None
          /\ rows' = [rows EXCEPT ![d] = [status |-> "approved", dispatch |-> m,
                                          body |-> PatchedBody(d, b)]]
      BY <2>2 DEF PatchApprove, PatchAccepted
    <2>4. /\ rows'[d].status # None /\ rows'[d].body = PatchedBody(d, b)
          /\ \A y \in Drafts : y # d => rows'[y] = rows[y]
      BY <1>0, <2>1, <2>3, ConstantsAssumption DEF Statuses
    <2>. QED BY <2>1, <2>2, <2>3, <2>4, ScreensSee
  <1>5. ASSUME NEW o \in Operators, PatchAnswers(o)
        PROVE  ScreensAreCurrent'
    <2>. DEFINE d == cli[o].draft
                st == FieldOf(PatchOf(cli[o]), "status")
                b == FieldOf(PatchOf(cli[o]), "body")
    <2>1. d \in Drafts /\ st \in Statuses \cup {None} /\ b \in Bodies \cup {None}
      BY <1>5, CommandOf, PatchFields DEF PatchAnswers, AtPatch
    <2>2. \/ PatchRow(d, st, b) /\ screen' = Seen(o, d, b)
          \/ UNCHANGED <<rows, screen>>
      BY <1>5 DEF PatchAnswers, dispatchVars, vars
    <2>. HIDE DEF d, st, b
    <2>3. CASE PatchRow(d, st, b) /\ screen' = Seen(o, d, b)
      <3>1. /\ rows[d].status # None /\ Target(d, st) # None
            /\ rows' = [rows EXCEPT ![d].status = Target(d, st), ![d].body = PatchedBody(d, b)]
        BY <2>3 DEF PatchRow, PatchAccepted, Target
      <3>2. /\ rows'[d].status = Target(d, st) /\ rows'[d].body = PatchedBody(d, b)
            /\ \A y \in Drafts : y # d => rows'[y] = rows[y]
        BY <1>0, <2>1, <3>1 DEF Rows
      <3>. QED BY <2>1, <2>3, <3>1, <3>2, ScreensSee
    <2>. QED BY <2>2, <2>3, ScreensStay
  <1>6. ASSUME UNCHANGED <<rows, screen>>
        PROVE  ScreensAreCurrent'
    BY <1>6, ScreensStay
  <1>7. ASSUME NEW p \in Patchers, HandlerEnqueues(p) \/ HandlerRefuses(p) \/ HandlerDone(p)
        PROVE  ScreensAreCurrent'
    BY <1>6, <1>7 DEF HandlerEnqueues, HandlerRefuses, HandlerDone, EnqueueDispatch,
       EnqueueUnanswered, EnqueueRefused, cliVars, AnnounceApproved
  <1>8. Elsewhere => ScreensAreCurrent'
    BY <1>0, ElsewhereFrame, ScreensStay
  <1>9. BridgeDies => ScreensAreCurrent'
    BY <1>6 DEF BridgeDies, BridgeCrash
  <1>10. ASSUME NEW o \in Operators,
                \/ \E all \in BOOLEAN : CmdList(o, all)
                \/ \E d \in Drafts :
                      \/ CmdApprove(o, d) \/ CmdReject(o, d) \/ CmdRetry(o, d)
                      \/ \E thenApprove \in BOOLEAN : CmdEdit(o, d, thenApprove)
                \/ \E text \in Bodies \cup {None} : CloseEditor(o, text)
                \/ NoBridge(o)
                \/ \E exit \in {1, 130} : CutOff(o, exit)
         PROVE  ScreensAreCurrent'
    <2>1. UNCHANGED <<rows, screen>>
      BY <1>10 DEF CmdList, CmdApprove, CmdReject, CmdRetry, CmdEdit, Begin,
         CloseEditor, NoBridge, CutOff, dispatchVars, vars
    <2>. QED BY <1>6, <2>1
  <1>11. UNCHANGED allVars => ScreensAreCurrent'
    BY <1>6 DEF allVars, dispatchVars, vars, cliVars
  <1>. QED BY <1>1, <1>2, <1>3, <1>4, <1>5, <1>7, <1>8, <1>9, <1>10, <1>11 DEF CliNext

----------------------------------------------------------------------------
(* Types, and the invariant of the whole                                    *)

(* Which steps change what the operators have seen.                         *)
LEMMA SeenMoves ==
  ASSUME CommandsAreSound, [CliNext]_allVars
  PROVE  /\ \/ known' = known
            \/ \E o \in Operators, all \in BOOLEAN : CmdList(o, all)
         /\ \/ born' = born
            \/ \E d \in Drafts : born' = Append(born, d)
         /\ \/ screen' = screen
            \/ \E o \in Operators, d \in Drafts :
                  screen' = [screen EXCEPT ![o][d] = [body |-> rows[d].body, raced |-> FALSE]]
            \/ \E o \in Operators, d \in Drafts, b \in Bodies \cup {None} :
                  screen' = Seen(o, d, b)
         /\ begun' = begun \/ (begun < MaxCommands /\ begun' = begun + 1)
         /\ cutOffs' = cutOffs \/ (cutOffs < MaxCutOffs /\ cutOffs' = cutOffs + 1)
  <1>1. \/ known' = known
        \/ \E o \in Operators, all \in BOOLEAN : CmdList(o, all)
    BY CliFrames, Beginnings DEF CliNext, cliVars
  <1>2. \/ born' = born
        \/ \E d \in Drafts : born' = Append(born, d)
    BY CliFrames, Beginnings DEF CliNext, cliVars
  <1>3. begun' = begun \/ (begun < MaxCommands /\ begun' = begun + 1)
    BY CliFrames, Beginnings DEF CliNext, cliVars
  <1>4. cutOffs' = cutOffs \/ (cutOffs < MaxCutOffs /\ cutOffs' = cutOffs + 1)
    BY CliFrames, Beginnings DEF CliNext, cliVars
  <1>5. \/ screen' = screen
        \/ \E o \in Operators, d \in Drafts : CmdShow(o, d)
        \/ \E o \in Operators : GetFirst(o)
        \/ \E o \in Operators, p \in Patchers, m \in Mids : PatchSuspends(o, p, m)
        \/ \E o \in Operators : PatchAnswers(o)
    BY CliFrames, Beginnings DEF CliNext, cliVars
  <1>6. ASSUME NEW o \in Operators, NEW d \in Drafts, CmdShow(o, d)
        PROVE  screen' = [screen EXCEPT ![o][d] = [body |-> rows[d].body, raced |-> FALSE]]
    BY <1>6 DEF CmdShow, DraftOut
  <1>7. ASSUME NEW o \in Operators, GetFirst(o)
        PROVE  \/ screen' = screen
               \/ \E d \in Drafts :
                    screen' = [screen EXCEPT ![o][d] = [body |-> rows[d].body, raced |-> FALSE]]
    <2>1. cli[o].draft \in Drafts
      BY <1>7, CommandOf DEF GetFirst
    <2>. QED BY <1>7, <2>1 DEF GetFirst, DraftOut
  <1>8. ASSUME NEW o \in Operators,
               PatchAnswers(o) \/ \E p \in Patchers, m \in Mids : PatchSuspends(o, p, m)
        PROVE  \/ screen' = screen
               \/ \E d \in Drafts, b \in Bodies \cup {None} : screen' = Seen(o, d, b)
    <2>1. AtPatch(o)
      BY <1>8 DEF PatchAnswers, PatchSuspends
    <2>2. cli[o].draft \in Drafts /\ FieldOf(PatchOf(cli[o]), "body") \in Bodies \cup {None}
      BY <2>1, CommandOf, PatchFields DEF AtPatch
    <2>3. \/ screen' = screen
          \/ screen' = Seen(o, cli[o].draft, FieldOf(PatchOf(cli[o]), "body"))
      BY <1>8 DEF PatchAnswers, PatchSuspends
    <2>. QED BY <2>2, <2>3
  <1>9. \/ screen' = screen
        \/ \E o \in Operators, d \in Drafts :
              screen' = [screen EXCEPT ![o][d] = [body |-> rows[d].body, raced |-> FALSE]]
        \/ \E o \in Operators, d \in Drafts, b \in Bodies \cup {None} :
              screen' = Seen(o, d, b)
    BY <1>5, <1>6, <1>7, <1>8
  <1>. QED BY <1>1, <1>2, <1>3, <1>4, <1>9

(* The list shows drafts that were created.                                 *)
LEMMA ListedAreDrafts ==
  ASSUME born \in Seq(Drafts), NEW req
  PROVE  Listed(req) \subseteq Drafts
  <1>1. \A i \in 1..Len(born) : born[i] \in Drafts
    OBVIOUS
  <1>. QED BY <1>1 DEF Listed

LEMMA CliTypeStep ==
  ASSUME IInv, CliInv, [CliNext]_allVars
  PROVE  CliTypeOK'
  <1>0. CliTypeOK /\ CommandsAreSound /\ MintedAreIssued /\ ScreensAreCurrent
    BY DEF CliInv
  <1>1. cli' \in [Operators -> CommandRecords]
    BY <1>0, CommandsStep DEF CommandsAreSound
  <1>2. known' \in [Operators -> SUBSET Drafts]
    <2>1. \A st : ListDrafts(st) \subseteq Drafts
      BY <1>0, ListedAreDrafts DEF CliTypeOK, ListDrafts
    <2>2. \/ known' = known
          \/ \E o \in Operators : \E S \in SUBSET Drafts : known' = [known EXCEPT ![o] = @ \cup S]
      BY <1>0, <2>1, SeenMoves DEF CmdList
    <2>. QED BY <1>0, <2>2 DEF CliTypeOK
  <1>3. born' \in Seq(Drafts)
    <2>1. \/ born' = born
          \/ \E d \in Drafts : born' = Append(born, d)
      BY <1>0, SeenMoves
    <2>2. born \in Seq(Drafts)
      BY <1>0 DEF CliTypeOK
    <2>. QED BY <2>1, <2>2
  <1>4. begun' \in 0..MaxCommands /\ cutOffs' \in 0..MaxCutOffs
    BY <1>0, SeenMoves, DraftCLIAssumption DEF CliTypeOK
  <1>5. screen' \in [Operators -> [Drafts -> [body : Bodies \cup {None}, raced : BOOLEAN]]]
    <2>. DEFINE Shown == [body : Bodies \cup {None}, raced : BOOLEAN]
    <2>0. /\ screen \in [Operators -> [Drafts -> Shown]]
          /\ \A d \in Drafts : [body |-> rows[d].body, raced |-> FALSE] \in Shown
      BY <1>0, RowIsTyped DEF CliTypeOK, IInv, Rows
    <2>1. ASSUME NEW o \in Operators, NEW d \in Drafts,
                 screen' = [screen EXCEPT ![o][d] = [body |-> rows[d].body, raced |-> FALSE]]
          PROVE  screen' \in [Operators -> [Drafts -> Shown]]
      <3>. HIDE DEF Shown
      <3>. QED BY <2>0, <2>1
    <2>2. ASSUME NEW o \in Operators, NEW d \in Drafts, NEW b \in Bodies \cup {None},
                 screen' = Seen(o, d, b)
          PROVE  screen' \in [Operators -> [Drafts -> Shown]]
      <3>1. ASSUME NEW x \in Operators PROVE screen'[x] \in [Drafts -> Shown]
        <4>. DEFINE r == screen[x][d].raced \/ b # rows[d].body
                    e == [screen[x][d] EXCEPT !.raced = r]
                    f == [body |-> b, raced |-> FALSE]
        <4>1. r \in BOOLEAN /\ screen[x][d] \in Shown
          BY <2>0
        <4>2. e \in Shown /\ f \in Shown
          <5>. HIDE DEF r
          <5>. QED BY <4>1
        <4>3. \/ screen'[x] = screen[x]
              \/ screen'[x] = [screen[x] EXCEPT ![d] = f]
              \/ screen'[x] = [screen[x] EXCEPT ![d] = e]
          BY <2>0, <2>2 DEF Seen
        <4>. HIDE DEF e, f, Shown
        <4>. QED BY <2>0, <4>2, <4>3
      <3>2. screen' = [x \in Operators |-> screen'[x]]
        BY <2>2 DEF Seen
      <3>. HIDE DEF Shown
      <3>. QED BY <3>1, <3>2
    <2>3. screen' = screen => screen' \in [Operators -> [Drafts -> Shown]]
      BY <2>0
    <2>. QED BY <1>0, <2>1, <2>2, <2>3, SeenMoves
  <1>. QED BY <1>1, <1>2, <1>3, <1>4, <1>5 DEF CliTypeOK, CommandRecords, Steps, Exits

LEMMA CliStart == CliInit => IInv /\ CliInv
  <1>. SUFFICES ASSUME CliInit PROVE IInv /\ CliInv
    OBVIOUS
  <1>1. Init /\ IInv
    BY InitInv DEF CliInit
  <1>2. /\ NoCommand \in CommandRecords /\ NoCommand.pc = "idle" /\ NoCommand.cmd = None
        /\ NoCommand.slot = None /\ NoCommand.minted = {}
    BY StepsAndExits DEF NoCommand, CommandRecords
  <1>3. SoundCommand(NoCommand, patch, Queued, unanswered)
    <2>1. Counted(NoCommand)
      BY <1>2, NothingMinted, SpentIsTyped DEF Counted
    <2>2. Fits(NoCommand) /\ Settled(NoCommand, patch, Queued) /\ Truthful(NoCommand, Queued, unanswered)
      BY <1>2 DEF Fits, Settled, Truthful, Has
    <2>. QED BY <1>2, <2>1, <2>2 DEF SoundCommand
  <1>4. CommandsAreSound
    BY <1>2, <1>3 DEF CliInit, CommandsAreSound
  <1>5. MintedAreIssued
    BY <1>1, <1>2 DEF CliInit, Init, IdlePatch, MintedAreIssued
  <1>6. ScreensAreCurrent
    BY DEF CliInit, ScreensAreCurrent, Unseen
  <1>7. CliTypeOK
    <2>1. screen \in [Operators -> [Drafts -> [body : Bodies \cup {None}, raced : BOOLEAN]]]
      BY DEF CliInit, Unseen
    <2>2. cli \in [Operators -> CommandRecords]
      BY <1>4 DEF CommandsAreSound
    <2>. QED BY <2>1, <2>2, DraftCLIAssumption DEF CliInit, CliTypeOK, CommandRecords, Steps, Exits
  <1>. QED BY <1>1, <1>4, <1>5, <1>6, <1>7 DEF CliInv

LEMMA CliStep == IInv /\ CliInv /\ [CliNext]_allVars => IInv' /\ CliInv'
  <1>. SUFFICES ASSUME IInv, CliInv, [CliNext]_allVars PROVE IInv' /\ CliInv'
    OBVIOUS
  <1>1. CliTypeOK /\ CommandsAreSound /\ MintedAreIssued /\ ScreensAreCurrent
    BY DEF CliInv
  <1>2. IInv'
    BY <1>1, StepsAreDispatch, StepInv
  <1>3. CliTypeOK'
    BY CliTypeStep
  <1>4. CommandsAreSound'
    BY <1>1, CommandsStep
  <1>5. MintedAreIssued'
    BY <1>1, MintedStep
  <1>6. ScreensAreCurrent'
    BY <1>1, ScreensStep
  <1>. QED BY <1>2, <1>3, <1>4, <1>5, <1>6 DEF CliInv

----------------------------------------------------------------------------
(* Theorems                                                                 *)

(* The inductive invariant of the operators' commands and the draft path:   *)
(* every command is where the rows, the handlers and the queue say it is.   *)
THEOREM CliInductive == CliSpec => [](IInv /\ CliInv)
  BY CliStart, CliStep, PTL DEF CliSpec

(* Whatever the operators do from their terminals is a behaviour of the     *)
(* draft path, so that every theorem about DraftDispatch holds under it.    *)
THEOREM OperatorsUseDispatch == CliSpec => Spec
  <1>1. CliInit => Init
    BY DEF CliInit
  <1>2. CliInv /\ [CliNext]_allVars => [Next]_vars
    BY StepsAreDispatch DEF CliInv
  <1>. QED BY <1>1, <1>2, CliInductive, PTL DEF CliSpec, Spec

(* brain-drafts.py queues no more messages in one command than the command  *)
(* says, however many operators, failures and repeated PATCHes there are.   *)
THEOREM OnePerCommand == CliSpec => []OneMessagePerCommand
  <1>1. IInv /\ CliInv => OneMessagePerCommand
    <2>. SUFFICES ASSUME CliInv, NEW o \in Operators
                  PROVE  Cardinality(cli[o].minted \cap Queued) <= Allowance(cli[o])
      BY DEF OneMessagePerCommand
    <2>. DEFINE q == cli[o]
    <2>1. q \in CommandRecords /\ Counted(q) /\ Fits(q)
      BY CommandOf DEF CliInv, SoundCommand
    <2>2. Allowance(q) \in Nat /\ Spent(q) \in Nat
      BY <2>1, SpentIsTyped
    <2>3. Spent(q) <= Allowance(q)
      BY <2>1, <2>2 DEF Spent, Allowance, Fits
    <2>. HIDE DEF q
    <2>4. q.minted \cap Queued \subseteq q.minted /\ IsFiniteSet(q.minted)
      BY <2>1 DEF Counted
    <2>5. /\ Cardinality(q.minted \cap Queued) \in Nat /\ Cardinality(q.minted) \in Nat
          /\ Cardinality(q.minted \cap Queued) <= Cardinality(q.minted)
      BY <2>4, FS_Subset, FS_CardinalityType
    <2>6. Cardinality(q.minted \cap Queued) <= Allowance(q)
      BY <2>1, <2>2, <2>3, <2>5 DEF Counted
    <2>. QED BY <2>6 DEF q
  <1>. QED BY <1>1, CliInductive, PTL

(* The exit code of a command that was not cut off tells whether its        *)
(* message was queued, at the end of the command and ever after; what is    *)
(* reported as a failure and queued all the same is an id with an RPUSH     *)
(* that was left without its reply.                                         *)
THEOREM ExitsAreTrue == CliSpec => []ExitIsTruthful
  <1>1. IInv /\ CliInv => ExitIsTruthful
    <2>1. ASSUME CliInv, NEW o \in Operators PROVE Truthful(cli[o], Queued, unanswered)
      BY <2>1, CommandOf DEF CliInv, SoundCommand
    <2>. QED BY <2>1 DEF ExitIsTruthful, Truthful
  <1>. QED BY <1>1, CliInductive, PTL

(* The message that an approval releases has the body that the operator's   *)
(* terminal showed last, unless another operator edited the row meanwhile.  *)
THEOREM ShownIsReleased == CliSpec => ReleasedAsShown
  <1>. DEFINE Released(o) ==
         LET q == cli[o]  s == screen'[o][q.draft] IN
         cli'[o].pc = "wait" /\ s.body # None /\ ~s.raced =>
             \A m \in cli'[o].minted \ q.minted : issued'[m].body = s.body
  <1>1. ASSUME IInv, CliInv, CliInv', [CliNext]_allVars, NEW o \in Operators
        PROVE  Released(o)
    <2>. SUFFICES ASSUME NEW x \in cli'[o].minted, x \notin cli[o].minted,
                         screen'[o][cli[o].draft].body # None,
                         ~screen'[o][cli[o].draft].raced
                  PROVE  issued'[x].body = screen'[o][cli[o].draft].body
      OBVIOUS
    <2>. DEFINE d == cli[o].draft
                st == FieldOf(PatchOf(cli[o]), "status")
                b == FieldOf(PatchOf(cli[o]), "body")
    <2>1. CommandsAreSound /\ ScreensAreCurrent'
      BY <1>1 DEF CliInv
    <2>2. PICK p \in Patchers : x \in Mids /\ PatchSuspends(o, p, x)
      BY <1>1, <2>1, MintedMoves
    <2>3. d \in Drafts
      BY <2>1, <2>2, CommandOf DEF PatchSuspends, AtPatch
    <2>4. PatchApprove(p, d, st, b, x)
      BY <2>2 DEF PatchSuspends
    <2>. HIDE DEF d, st, b
    <2>5. /\ rows' = [rows EXCEPT ![d] = [status |-> "approved", dispatch |-> x,
                                          body |-> PatchedBody(d, b)]]
          /\ issued' = [issued EXCEPT ![x] = DispatchJob(d, b, x)]
      BY <2>4 DEF PatchApprove
    <2>6. issued'[x].body = PatchedBody(d, b) /\ rows'[d].body = PatchedBody(d, b)
      BY <1>1, <2>2, <2>3, <2>5 DEF IInv, TypeOK, DispatchJob
    <2>7. rows'[d].body = screen'[o][d].body
      BY <2>1, <2>3 DEF ScreensAreCurrent, d
    <2>. QED BY <2>6, <2>7 DEF d
  <1>2. IInv /\ CliInv /\ CliInv' /\ [CliNext]_allVars =>
           [\A o \in Operators : Released(o)]_allVars
    BY <1>1
  <1>3. [](IInv /\ CliInv) /\ [][CliNext]_allVars => [][\A o \in Operators : Released(o)]_allVars
    BY <1>2, PTL
  <1>. QED BY <1>3, CliInductive DEF CliSpec, ReleasedAsShown
=============================================================================
