--------------------------- MODULE Inbound_proofs ---------------------------
(***************************************************************************)
(* What is proved of Inbound, for any number of rows, attempts and faults:  *)
(* the relay skips no message and repeats one for a fault only, and the     *)
(* brain accounts for every event and, once it is marked, answers it no     *)
(* more.                                                                    *)
(***************************************************************************)
EXTENDS Inbound, FiniteSetTheorems, TLAPS

(* A set of numbers that is finite and not empty has a lowest one: among    *)
(* the sets of the numbers below each of its members one is minimal.        *)
LEMMA LowestRow ==
  ASSUME NEW S \in SUBSET Nat, S # {}, IsFiniteSet(S)
  PROVE  Min(S) \in S /\ \A y \in S : Min(S) <= y
  <1>. DEFINE Below(b) == {y \in S : y < b}
              F == {Below(b) : b \in S}
  <1>1. F \subseteq SUBSET S /\ F # {}
    OBVIOUS
  <1>2. PICK T \in F : \A U \in F : <<U, T>> \notin StrictSubsetOrdering(S)
    <2>1. IsWellFoundedOn(StrictSubsetOrdering(S), SUBSET S)
      BY FS_StrictSubsetOrderingWellFounded, FS_FiniteSubsetsOfFinite
    <2>. HIDE DEF F
    <2>. QED BY <2>1, <1>1, WFMin
  <1>3. PICK x \in S : T = Below(x)
    OBVIOUS
  <1>4. ASSUME NEW y \in S, y < x PROVE FALSE
    <2>1. x \in Nat /\ y \in Nat /\ \A z \in S : z \in Nat
      OBVIOUS
    <2>2. ASSUME NEW z \in Below(y) PROVE z \in Below(x)
      BY <1>4, <2>1
    <2>3. y \in Below(x)
      BY <1>4
    <2>4. y \notin Below(y)
      BY <2>1
    <2>. HIDE DEF Below
    <2>5. Below(y) # Below(x) /\ Below(y) \subseteq Below(x)
      BY <2>2, <2>3, <2>4
    <2>6. <<Below(y), Below(x)>> \in StrictSubsetOrdering(S)
      <3>1. Below(y) \subseteq S /\ Below(x) \subseteq S
        BY DEF Below
      <3>. QED BY <2>5, <3>1 DEF StrictSubsetOrdering
    <2>. QED BY <1>2, <1>3, <2>6 DEF F
  <1>5. \A y \in S : x <= y
    BY <1>4
  <1>. QED BY <1>5 DEF Min

----------------------------------------------------------------------------
(* The inductive invariant                                                  *)

(* The type invariant, as the relay sees it and as the brain does.          *)
RelayTypes ==
    /\ chat \in Seq(Kinds) /\ Len(chat) <= MaxRows
    /\ cursor \in 0..Len(chat) \cup {NoFile}
    /\ relay \in [pc : {"down", "idle", "posting", "awaiting"},
                  batch : SUBSET (1..Len(chat)), attempt : 0..MaxAttempts,
                  since : 0..MaxFaults]
    /\ posts \subseteq [row : 1..Len(chat), since : 0..MaxFaults,
                        pc : {"publish", "answer"}, event : 0..Len(events)]
    /\ events \in Seq(1..Len(chat))
    /\ backlog \in 0..Len(chat)
    /\ givenUp \subseteq 1..Len(chat)
    /\ faults \in 0..MaxFaults

BrainTypes ==
    /\ wire \in Seq(1..Len(events))
    /\ brain \in [pc : {"down", "waiting", "thinking", "creating", "marking",
                        "failing"},
                  event : 0..Len(events)]
    /\ processed \subseteq 1..Len(events)
    /\ drafts \in Seq(Nat) /\ Len(drafts) = Len(events)
    /\ missed \subseteq 1..Len(events) /\ unmarked \subseteq 1..Len(events)

(* The relay posts as long as it has a batch, which lies past the cursor.   *)
RelayIsPlaced ==
    /\ relay.pc \in {"posting", "awaiting"} <=> relay.batch # {}
    /\ \A b \in relay.batch : LastSeen < b

(* What the relay has passed and no longer holds was published, was given   *)
(* up, or has no text that the relay could have seen; what a handler is     *)
(* about to confirm, or to publish once more, was published.                *)
Handled(r) == chat[r] = "text" /\ backlog < r => Copies(r) # {} \/ r \in givenUp

PassedAreHandled ==
    /\ \A r \in 1..Len(chat) : Passed(r) /\ r \notin relay.batch => Handled(r)
    /\ \A h \in posts : h.pc = "answer" \/ h.event # 0 => Copies(h.row) # {}

(* The row may be posted without a further fault.                           *)
Due(r) ==
    IF r \in relay.batch THEN ~(relay.pc = "awaiting" /\ r = Row) ELSE ~Passed(r)
Publishing(r) == {h \in posts : h.row = r /\ h.pc = "publish"}

(* Every copy, on the bus, under way or still due, beyond the first has     *)
(* cost a fault.                                                            *)
CopiesArePaid ==
    /\ IsFiniteSet(posts)
    /\ \A r \in 1..Len(chat) :
          Cardinality(Copies(r)) + Cardinality(Publishing(r)) + (IF Due(r) THEN 1 ELSE 0)
              <= 1 + faults

RelayInv == RelayTypes /\ RelayIsPlaced /\ PassedAreHandled /\ CopiesArePaid

(* The brain drafts for no event that is marked, and an event with a draft  *)
(* is marked, is about to be, or was let go.                                *)
DraftsAreMarked ==
    /\ brain.pc \notin {"down", "waiting"} => brain.event # 0
    /\ brain.pc \in {"thinking", "creating"} => brain.event \notin processed
    /\ \A e \in 1..Len(drafts) :
          drafts[e] > 0 =>
              \/ e \in processed \cup unmarked
              \/ brain.pc \in {"marking", "failing"} /\ brain.event = e

BrainInv == BrainTypes /\ DraftsAreMarked /\ OneDraftPerEvent /\ EventsAreAccountedFor

InboundInv == RelayInv /\ BrainInv

----------------------------------------------------------------------------
(* The relay                                                                *)

(* What the brain does is nothing to the relay but, maybe, a fault.         *)
BrainMoves ==
    /\ UNCHANGED <<chat, cursor, relay, posts, events, backlog, givenUp>>
    /\ UNCHANGED faults \/ (faults < MaxFaults /\ faults' = faults + 1)

RelaySteps ==
    \/ \E kind \in Kinds \ {"late"} : MessageArrives(kind)
    \/ \E r \in 1..Len(chat) : TextArrives(r)
    \/ RelayStart \/ RelayStartUnreadable \/ Poll
    \/ PostInbound \/ PostMalformed \/ PostRefused
    \/ (\E h \in posts : Handler(h) \/ HandlerFaults(h))
    \/ ConnectionLost \/ ProtocolError \/ RelayCrash \/ BridgeCrash

LEMMA RelayStepOrNot ==
  ASSUME [Next]_vars
  PROVE  RelaySteps \/ BrainMoves
  <1>. USE DEF BrainMoves, relayVars
  <1>1. CASE BrainConnect \/ Subscribe \/ SubscribeFails \/ NoticeHangup
    BY <1>1 DEF BrainConnect, Subscribe, SubscribeFails, NoticeHangup
  <1>2. CASE ReceiveEvent \/ CreateFails \/ MarkProcessed \/ Think
    BY <1>2 DEF ReceiveEvent, Think, Decide, CreateFails, MarkProcessed
  <1>6. CASE CreateDraft(TRUE)
    BY <1>6 DEF CreateDraft
  <1>3. CASE SocketLost \/ RedisCrash \/ BrainCrash \/ CreateDraft(FALSE)
    BY <1>3 DEF SocketLost, RedisCrash, BrainCrash, CreateDraft, Fault
  <1>7. CASE LookupFails \/ MarkFails
    BY <1>7 DEF LookupFails, MarkFails, Fault
  <1>4. CASE BridgeStart \/ RedisStart \/ BrainStart
    BY <1>4 DEF BridgeStart, RedisStart, BrainStart
  <1>5. CASE UNCHANGED vars
    BY <1>5 DEF vars
  <1>. QED
    BY <1>1, <1>2, <1>3, <1>4, <1>5, <1>6, <1>7, [Next]_vars
    DEF Next, Relay, Stream, Brain, Failure, Restart, RelaySteps

(* The rows and the events up to a number are finitely many.                *)
LEMMA UpToIsFinite ==
  ASSUME NEW n \in Nat
  PROVE  IsFiniteSet(1..n)
  <1>1. 1 \in Int /\ n \in Int
    OBVIOUS
  <1>. QED BY <1>1, FS_Interval

(* The row in hand is the lowest of the batch.                              *)
LEMMA RowInHand ==
  ASSUME RelayTypes, relay.batch # {}
  PROVE  /\ Row \in relay.batch /\ Row \in 1..Len(chat)
         /\ \A b \in relay.batch : Row <= b
  <1>1. relay.batch \subseteq 1..Len(chat) /\ Len(chat) \in Nat
    BY DEF RelayTypes
  <1>2. IsFiniteSet(relay.batch) /\ relay.batch \in SUBSET Nat
    <2>1. IsFiniteSet(1..Len(chat))
      BY <1>1, UpToIsFinite
    <2>2. IsFiniteSet(relay.batch)
      BY <1>1, <2>1, FS_Subset
    <2>. QED BY <1>1, <2>2
  <1>. QED BY <1>1, <1>2, LowestRow DEF Row

(* The relay goes on to the next row, or writes its cursor.                 *)
LEMMA AdvanceKeeps ==
  ASSUME RelayTypes, RelayIsPlaced, relay.batch # {}, Advance, UNCHANGED chat
  PROVE  /\ cursor' \in 0..Len(chat) \cup {NoFile}
         /\ relay' \in [pc : {"down", "idle", "posting", "awaiting"},
                  batch : SUBSET (1..Len(chat)), attempt : 0..MaxAttempts,
                  since : 0..MaxFaults]
         /\ RelayIsPlaced'
         /\ \A r \in 1..Len(chat) :
               Passed(r)' /\ r \notin relay'.batch => r = Row \/ (Passed(r) /\ r \notin relay.batch)
         /\ \A r \in 1..Len(chat) : Due(r)' => Due(r) /\ r # Row
  <1>1. /\ Row \in relay.batch /\ Row \in 1..Len(chat) /\ \A b \in relay.batch : Row <= b
        /\ relay.batch \subseteq 1..Len(chat) /\ Len(chat) \in Nat
    BY RowInHand DEF RelayTypes
  <1>2. LastSeen \in Nat /\ LastSeen < Row /\ cursor \in 0..Len(chat) \cup {NoFile}
    BY <1>1 DEF RelayTypes, RelayIsPlaced, LastSeen
  <1>3. 1 \in 0..MaxAttempts /\ 0 \in 0..MaxAttempts /\ 0 \in 0..MaxFaults /\ NoFile \notin Nat
    BY InboundAssumption
  <1>4. CASE Rest = {}
    <2>1. relay' = Idle /\ cursor' = Row
      BY <1>4 DEF Advance
    <2>2. LastSeen' = Row /\ relay'.batch = {} /\ relay'.pc = "idle"
      BY <2>1, <1>1, <1>3 DEF LastSeen, Idle
    <2>3. relay.batch = {Row}
      BY <1>4, <1>1 DEF Rest
    <2>4. \A r \in 1..Len(chat) : Passed(r)' <=> r <= Row
      BY <2>2 DEF Passed
    <2>5. \A r \in 1..Len(chat) : Passed(r) <=> r <= Row
      BY <2>3, <1>1, <1>2 DEF Passed
    <2>6. \A r \in 1..Len(chat) : Due(r)' <=> ~Passed(r)'
      BY <2>2 DEF Due
    <2>7. \A r \in 1..Len(chat) : ~Passed(r) => Due(r) /\ r # Row
      BY <2>5, <2>3, <1>1 DEF Due
    <2>. QED BY <1>1, <1>3, <2>1, <2>2, <2>3, <2>4, <2>5, <2>6, <2>7 DEF RelayIsPlaced, Idle
  <1>5. CASE Rest # {}
    <2>1. relay' = Posting(Rest) /\ UNCHANGED cursor
      BY <1>5 DEF Advance
    <2>2. LastSeen' = LastSeen /\ relay'.batch = Rest /\ relay'.pc = "posting"
      BY <2>1 DEF LastSeen, Posting
    <2>3. PICK next \in Rest : next \in relay.batch /\ Row <= next
      BY <1>5, <1>1 DEF Rest
    <2>4. \A b \in relay.batch : b = Row \/ b \in Rest
      BY DEF Rest
    <2>5. Rest \subseteq relay.batch /\ Row \notin Rest
      BY DEF Rest
    <2>6. ASSUME NEW r \in 1..Len(chat) PROVE Passed(r)' <=> Passed(r)
      <3>1. ASSUME NEW b \in relay.batch, r <= b PROVE \E c \in Rest : r <= c
        BY <3>1, <2>3, <2>4, <1>1
      <3>. QED BY <2>2, <2>5, <3>1 DEF Passed
    <2>7. Passed(Row)
      BY <1>1 DEF Passed
    <2>8. \A r \in 1..Len(chat) : Due(r)' <=> (IF r \in Rest THEN TRUE ELSE ~Passed(r))
      BY <2>2, <2>6 DEF Due
    <2>9. \A r \in 1..Len(chat) : Due(r)' => Due(r) /\ r # Row
      BY <2>8, <2>4, <2>5, <2>7 DEF Due
    <2>10. RelayIsPlaced'
      BY <2>2, <2>5, <1>5 DEF RelayIsPlaced
    <2>11. \A r \in 1..Len(chat) :
              Passed(r)' /\ r \notin relay'.batch => r = Row \/ (Passed(r) /\ r \notin relay.batch)
      BY <2>2, <2>4, <2>6
    <2>. QED BY <1>1, <1>2, <1>3, <2>1, <2>5, <2>9, <2>10, <2>11 DEF Posting
  <1>. QED BY <1>4, <1>5

(* A failed attempt: the row is due again, or is given up.                  *)
LEMMA NextAttemptKeeps ==
  ASSUME RelayTypes, RelayIsPlaced, relay.batch # {}, NextAttempt, UNCHANGED chat
  PROVE  /\ cursor' \in 0..Len(chat) \cup {NoFile}
         /\ relay' \in [pc : {"down", "idle", "posting", "awaiting"},
                  batch : SUBSET (1..Len(chat)), attempt : 0..MaxAttempts,
                  since : 0..MaxFaults]
         /\ RelayIsPlaced'
         /\ givenUp' \subseteq 1..Len(chat) /\ givenUp \subseteq givenUp'
         /\ \A r \in 1..Len(chat) :
               Passed(r)' /\ r \notin relay'.batch =>
                   r \in givenUp' \/ (Passed(r) /\ r \notin relay.batch)
         /\ \A r \in 1..Len(chat) : Due(r)' => Due(r) \/ r = Row
  <1>1. Row \in 1..Len(chat) /\ givenUp \subseteq 1..Len(chat)
    BY RowInHand DEF RelayTypes
  <1>2. CASE relay.attempt < MaxAttempts
    <2>1. /\ relay' = [Posting(relay.batch) EXCEPT !.attempt = relay.attempt + 1]
          /\ UNCHANGED <<cursor, givenUp>>
      BY <1>2 DEF NextAttempt
    <2>2. LastSeen' = LastSeen /\ relay'.batch = relay.batch /\ relay'.pc = "posting"
      BY <2>1 DEF LastSeen, Posting
    <2>3. \A r \in 1..Len(chat) : Passed(r)' <=> Passed(r)
      BY <2>2 DEF Passed
    <2>4. \A r \in 1..Len(chat) : Due(r)' => Due(r) \/ r = Row
      BY <2>2, <2>3 DEF Due
    <2>5. /\ relay.attempt + 1 \in 0..MaxAttempts /\ 0 \in 0..MaxFaults
          /\ relay.batch \in SUBSET (1..Len(chat)) /\ cursor \in 0..Len(chat) \cup {NoFile}
      BY <1>2, InboundAssumption DEF RelayTypes
    <2>6. RelayIsPlaced'
      BY <2>2 DEF RelayIsPlaced
    <2>. QED BY <1>1, <2>1, <2>2, <2>3, <2>4, <2>5, <2>6 DEF Posting
  <1>3. CASE ~(relay.attempt < MaxAttempts)
    <2>1. Advance /\ givenUp' = givenUp \cup {Row}
      BY <1>3 DEF NextAttempt
    <2>. QED BY <2>1, <1>1, AdvanceKeeps
  <1>. QED BY <1>2, <1>3

(* What is counted is finite.                                               *)
LEMMA CountsAreNumbers ==
  ASSUME RelayTypes, IsFiniteSet(posts), NEW r
  PROVE  /\ Cardinality(Copies(r)) \in Nat /\ IsFiniteSet(Copies(r))
         /\ Cardinality(Publishing(r)) \in Nat /\ IsFiniteSet(Publishing(r))
  <1>1. Len(events) \in Nat /\ Copies(r) \subseteq 1..Len(events)
    BY DEF RelayTypes, Copies
  <1>2. IsFiniteSet(1..Len(events))
    BY <1>1, UpToIsFinite
  <1>3. Publishing(r) \subseteq posts
    BY DEF Publishing
  <1>4. IsFiniteSet(Copies(r)) /\ IsFiniteSet(Publishing(r))
    BY <1>1, <1>2, <1>3, FS_Subset
  <1>. QED BY <1>4, FS_CardinalityType

(* A step that publishes nothing keeps the invariant if it hands over only  *)
(* what was given up, is due or published, and pays for what it makes due.  *)
LEMMA NothingPublished ==
  ASSUME RelayInv, UNCHANGED <<chat, events>>, RelayTypes', RelayIsPlaced', backlog <= backlog',
         givenUp \subseteq givenUp', posts' \subseteq posts, faults' \in {faults, faults + 1},
         \A r \in 1..Len(chat) :
            Passed(r)' /\ r \notin relay'.batch =>
               \/ Copies(r) # {} \/ r \in givenUp' \/ chat[r] # "text" \/ r <= backlog'
               \/ (Passed(r) /\ r \notin relay.batch),
         \A r \in 1..Len(chat) :
            Due(r)' => Due(r) \/ faults' = faults + 1
                  \/ \E h \in posts \ posts' : h.row = r /\ h.pc = "publish"
  PROVE  RelayInv'
  <1>1. IsFiniteSet(posts) /\ IsFiniteSet(posts')
    BY FS_Subset DEF RelayInv, CopiesArePaid
  <1>2. \A r : Copies(r)' = Copies(r)
    BY DEF Copies
  <1>3. PassedAreHandled'
    <2>1. \A h \in posts' : h.pc = "answer" \/ h.event # 0 => (Copies(h.row) # {})'
      BY <1>2 DEF RelayInv, PassedAreHandled
    <2>2. backlog \in Nat /\ backlog' \in Nat /\ Len(chat) \in Nat
      BY DEF RelayInv, RelayTypes
    <2>3. ASSUME NEW r \in 1..Len(chat), Passed(r)' /\ r \notin relay'.batch PROVE Handled(r)'
      <3>1. CASE r <= backlog'
        BY <3>1, <2>2 DEF Handled
      <3>2. CASE Passed(r) /\ r \notin relay.batch
        BY <3>2, <1>2, <2>2 DEF RelayInv, PassedAreHandled, Handled
      <3>. QED BY <2>3, <3>1, <3>2, <1>2 DEF Handled
    <2>. QED BY <2>1, <2>3 DEF PassedAreHandled
  <1>4. ASSUME NEW r \in 1..Len(chat)
        PROVE  Cardinality(Copies(r)') + Cardinality(Publishing(r)') + (IF Due(r)' THEN 1 ELSE 0)
                  <= 1 + faults'
    <2>1. /\ Cardinality(Copies(r)) \in Nat
          /\ Cardinality(Publishing(r)) \in Nat /\ IsFiniteSet(Publishing(r))
      BY <1>1, CountsAreNumbers DEF RelayInv
    <2>2. Publishing(r)' \subseteq Publishing(r)
      BY DEF Publishing
    <2>3. /\ Cardinality(Publishing(r)') \in Nat
          /\ Cardinality(Publishing(r)') <= Cardinality(Publishing(r))
          /\ Cardinality(Publishing(r)) = Cardinality(Publishing(r)') => Publishing(r) = Publishing(r)'
      BY <2>1, <2>2, FS_Subset, FS_CardinalityType
    <2>4. \A h \in posts \ posts' : h.row = r /\ h.pc = "publish" => Publishing(r) # Publishing(r)'
      BY DEF Publishing
    <2>5. faults \in Int
      BY InboundAssumption DEF RelayInv, RelayTypes
    <2>6. Cardinality(Copies(r)) + Cardinality(Publishing(r)) + (IF Due(r) THEN 1 ELSE 0) <= 1 + faults
      BY DEF RelayInv, CopiesArePaid
    <2>7. Cardinality(Copies(r)') = Cardinality(Copies(r))
      BY <1>2
    <2>8. /\ Due(r)' => \/ Due(r) \/ faults' = faults + 1
                       \/ Cardinality(Publishing(r)') # Cardinality(Publishing(r))
          /\ faults' = faults \/ faults' = faults + 1
      BY <2>3, <2>4
    <2>. HIDE DEF Due, Publishing, Copies
    <2>. QED BY <2>1, <2>3, <2>5, <2>6, <2>7, <2>8
  <1>. QED BY <1>1, <1>3, <1>4 DEF RelayInv, CopiesArePaid

(* A step that drops the batch and leaves the cursor: the rows are due again. *)
LEMMA DroppedKeeps ==
  ASSUME RelayTypes, RelayIsPlaced, UNCHANGED <<chat, cursor>>,
         relay' = Idle \/ relay' = [Idle EXCEPT !.pc = "down"]
  PROVE  /\ relay' \in [pc : {"down", "idle", "posting", "awaiting"},
                  batch : SUBSET (1..Len(chat)), attempt : 0..MaxAttempts,
                  since : 0..MaxFaults]
         /\ RelayIsPlaced'
         /\ \A r \in 1..Len(chat) : Passed(r)' => Passed(r) /\ r \notin relay.batch
  <1>1. relay'.batch = {} /\ relay'.pc \in {"idle", "down"} /\ LastSeen' = LastSeen
    BY DEF Idle, LastSeen
  <1>2. 0 \in 0..MaxAttempts /\ 0 \in 0..MaxFaults
    BY InboundAssumption
  <1>3. /\ LastSeen \in Nat /\ Len(chat) \in Nat
        /\ \A b \in relay.batch : b \in Nat /\ LastSeen < b
    BY DEF RelayTypes, RelayIsPlaced, LastSeen
  <1>4. RelayIsPlaced'
    BY <1>1 DEF RelayIsPlaced
  <1>5. ASSUME NEW r \in 1..Len(chat), Passed(r)'
        PROVE  Passed(r) /\ r \notin relay.batch
    <2>1. r <= LastSeen
      BY <1>1, <1>5 DEF Passed
    <2>. QED BY <2>1, <1>3 DEF Passed
  <1>. QED BY <1>2, <1>4, <1>5 DEF Idle

LEMMA RelayInit == Init => RelayInv
  <1>. SUFFICES ASSUME Init PROVE RelayInv
    OBVIOUS
  <1>. USE DEF Init
  <1>1. RelayTypes
    BY InboundAssumption DEF RelayTypes, Idle
  <1>2. Len(chat) = 0 /\ relay.batch = {} /\ relay.pc = "down" /\ posts = {}
    BY DEF Idle
  <1>3. RelayIsPlaced
    BY <1>2 DEF RelayIsPlaced
  <1>4. PassedAreHandled /\ CopiesArePaid
    BY <1>2, FS_EmptySet DEF PassedAreHandled, CopiesArePaid
  <1>. QED BY <1>1, <1>3, <1>4 DEF RelayInv

(* The steps that publish nothing, or only hand over.                       *)
(* A handler the relay does not wait for ends, or all of them do.           *)
LEMMA HandlerGone ==
  ASSUME RelayInv, UNCHANGED <<chat, cursor, relay, events, backlog, givenUp>>,
         posts' \subseteq posts, faults' \in {faults, faults + 1}, faults' \in 0..MaxFaults
  PROVE  RelayInv'
  <1>1. LastSeen' = LastSeen /\ Row' = Row
    BY DEF LastSeen, Row
  <1>2. \A r : (Passed(r)' <=> Passed(r)) /\ (Due(r)' <=> Due(r))
    BY <1>1 DEF Passed, Due
  <1>3. RelayTypes' /\ backlog <= backlog'
    BY DEF RelayInv, RelayTypes
  <1>4. RelayIsPlaced'
    BY <1>1 DEF RelayInv, RelayIsPlaced
  <1>. QED BY <1>2, <1>3, <1>4, NothingPublished

LEMMA BrainMovesKeep ==
  ASSUME RelayInv, BrainMoves
  PROVE  RelayInv'
  <1>1. faults' \in {faults, faults + 1} /\ faults' \in 0..MaxFaults
    BY InboundAssumption DEF RelayInv, RelayTypes, BrainMoves
  <1>. QED BY <1>1, HandlerGone DEF BrainMoves

LEMMA StartKeeps ==
  ASSUME RelayInv, RelayStart \/ RelayStartUnreadable
  PROVE  RelayInv'
  <1>1. /\ UNCHANGED <<chat, posts, events, givenUp>> /\ relay.pc = "down" /\ relay' = Idle
        /\ \/ cursor' = cursor /\ backlog' = backlog
           \/ cursor = NoFile /\ cursor' = Len(chat) /\ backlog' = Len(chat)
        /\ \/ faults' = faults
           \/ faults < MaxFaults /\ faults' = faults + 1
    BY DEF RelayStart, RelayStartUnreadable, Fault
  <1>. USE <1>1
  <1>2. relay.batch = {} /\ relay'.batch = {} /\ relay'.pc = "idle"
    BY DEF RelayInv, RelayIsPlaced, Idle
  <1>3. RelayIsPlaced'
    BY <1>2 DEF RelayIsPlaced
  <1>4. RelayTypes' /\ backlog <= backlog'
    <2>1. Len(chat) \in Nat /\ backlog \in 0..Len(chat) /\ cursor \in 0..Len(chat) \cup {NoFile}
      BY DEF RelayInv, RelayTypes
    <2>2. /\ backlog' \in 0..Len(chat) /\ backlog <= backlog'
          /\ cursor' \in 0..Len(chat) \cup {NoFile}
      BY <2>1
    <2>3. relay' \in [pc : {"down", "idle", "posting", "awaiting"},
                  batch : SUBSET (1..Len(chat)), attempt : 0..MaxAttempts, since : 0..MaxFaults]
      BY InboundAssumption DEF Idle
    <2>4. faults' \in 0..MaxFaults
      BY InboundAssumption DEF RelayInv, RelayTypes
    <2>. QED BY <2>2, <2>3, <2>4 DEF RelayInv, RelayTypes
  <1>5. /\ Len(chat) \in Nat /\ LastSeen \in Nat
        /\ \/ LastSeen' = LastSeen
           \/ LastSeen = 0 /\ LastSeen' = Len(chat) /\ backlog' = Len(chat)
    <2>1. Len(chat) \in Nat /\ cursor \in 0..Len(chat) \cup {NoFile} /\ NoFile \notin Nat
      BY InboundAssumption DEF RelayInv, RelayTypes
    <2>2. LastSeen \in Nat
      BY <2>1 DEF LastSeen
    <2>3. CASE cursor' = cursor /\ backlog' = backlog
      BY <2>1, <2>2, <2>3 DEF LastSeen
    <2>4. CASE cursor = NoFile /\ cursor' = Len(chat) /\ backlog' = Len(chat)
      BY <2>1, <2>4 DEF LastSeen
    <2>. QED BY <2>3, <2>4
  <1>6. \A r \in 1..Len(chat) : Passed(r)' => Passed(r) \/ r <= backlog'
    BY <1>2, <1>5 DEF Passed
  <1>7. \A r \in 1..Len(chat) : Due(r)' => Due(r)
    BY <1>2, <1>5 DEF Due, Passed
  <1>. QED BY <1>2, <1>3, <1>4, <1>6, <1>7, NothingPublished

LEMMA PollKeeps ==
  ASSUME RelayInv, Poll
  PROVE  RelayInv'
  <1>. USE DEF Poll
  <1>1. relay.batch = {} /\ relay'.batch = NewRows /\ relay'.pc = "posting" /\ LastSeen' = LastSeen
    BY DEF RelayInv, RelayIsPlaced, Posting, LastSeen
  <1>2. LastSeen \in Nat /\ Len(chat) \in Nat /\ faults \in Int /\ backlog \in Nat
    BY InboundAssumption DEF RelayInv, RelayTypes, LastSeen
  <1>3. RelayTypes'
    <2>1. NewRows \in SUBSET (1..Len(chat)) /\ 1 \in 0..MaxAttempts /\ 0 \in 0..MaxFaults
      BY InboundAssumption DEF NewRows
    <2>2. relay' \in [pc : {"down", "idle", "posting", "awaiting"},
                  batch : SUBSET (1..Len(chat)), attempt : 0..MaxAttempts, since : 0..MaxFaults]
      BY <2>1 DEF Posting
    <2>. QED BY <2>2 DEF RelayInv, RelayTypes
  <1>4. RelayIsPlaced'
    BY <1>1, <1>2 DEF RelayIsPlaced, NewRows
  <1>5. ASSUME NEW r \in 1..Len(chat), Passed(r)', r \notin relay'.batch
        PROVE  chat[r] # "text" \/ Passed(r)
    BY <1>1, <1>2, <1>5 DEF Passed, NewRows, Unread
  <1>6. \A r \in 1..Len(chat) : Due(r)' => Due(r)
    BY <1>1, <1>2 DEF Due, Passed, NewRows
  <1>7. posts' = posts /\ UNCHANGED <<chat, events, givenUp, backlog, faults>> /\ backlog <= backlog'
    BY <1>2
  <1>. HIDE DEF Poll
  <1>. QED BY <1>1, <1>3, <1>4, <1>5, <1>6, <1>7, NothingPublished

(* The row in hand got its last answer, or its attempt failed.              *)
LEMMA AnsweredKeeps ==
  ASSUME RelayInv, relay.batch # {}, Advance, UNCHANGED <<chat, events, backlog, faults>>,
         posts' \subseteq posts,
         \/ givenUp' = givenUp /\ Copies(Row) # {}
         \/ givenUp' = givenUp \cup {Row}
  PROVE  RelayInv'
  <1>. USE DEF RelayInv
  <1>1. /\ cursor' \in 0..Len(chat) \cup {NoFile}
        /\ relay' \in [pc : {"down", "idle", "posting", "awaiting"},
                  batch : SUBSET (1..Len(chat)), attempt : 0..MaxAttempts,
                  since : 0..MaxFaults]
        /\ RelayIsPlaced'
        /\ \A r \in 1..Len(chat) :
               Passed(r)' /\ r \notin relay'.batch => r = Row \/ (Passed(r) /\ r \notin relay.batch)
        /\ \A r \in 1..Len(chat) : Due(r)' => Due(r) /\ r # Row
    BY AdvanceKeeps
  <1>2. Row \in 1..Len(chat)
    BY RowInHand
  <1>3. RelayTypes' /\ backlog <= backlog'
    <2>1. givenUp' \subseteq 1..Len(chat)
      BY <1>2 DEF RelayTypes
    <2>. QED BY <1>1, <2>1 DEF RelayTypes
  <1>4. givenUp \subseteq givenUp' /\ (Copies(Row) # {} \/ Row \in givenUp')
    OBVIOUS
  <1>. HIDE DEF RelayInv
  <1>. QED BY <1>1, <1>3, <1>4, NothingPublished

LEMMA FailedKeeps ==
  ASSUME RelayInv, relay.batch # {}, NextAttempt, UNCHANGED <<chat, events, backlog>>,
         posts' \subseteq posts, faults' \in 0..MaxFaults,
         \/ faults' = faults /\ Due(Row)
         \/ faults' = faults /\ \E h \in posts \ posts' : h.row = Row /\ h.pc = "publish"
         \/ faults' = faults + 1
  PROVE  RelayInv'
  <1>. USE DEF RelayInv
  <1>1. /\ cursor' \in 0..Len(chat) \cup {NoFile}
        /\ relay' \in [pc : {"down", "idle", "posting", "awaiting"},
                  batch : SUBSET (1..Len(chat)), attempt : 0..MaxAttempts,
                  since : 0..MaxFaults]
        /\ RelayIsPlaced'
        /\ givenUp' \subseteq 1..Len(chat) /\ givenUp \subseteq givenUp'
        /\ \A r \in 1..Len(chat) :
               Passed(r)' /\ r \notin relay'.batch =>
                   r \in givenUp' \/ (Passed(r) /\ r \notin relay.batch)
        /\ \A r \in 1..Len(chat) : Due(r)' => Due(r) \/ r = Row
    BY NextAttemptKeeps
  <1>2. RelayTypes' /\ backlog <= backlog'
    BY <1>1 DEF RelayTypes
  <1>. HIDE DEF RelayInv
  <1>3. \A r \in 1..Len(chat) :
           Due(r)' => Due(r) \/ faults' = faults + 1
                  \/ \E h \in posts \ posts' : h.row = r /\ h.pc = "publish"
    BY <1>1
  <1>4. faults' \in {faults, faults + 1}
    OBVIOUS
  <1>. QED BY <1>1, <1>2, <1>3, <1>4, NothingPublished

LEMMA DropKeeps ==
  ASSUME RelayInv, UNCHANGED <<chat, cursor, events, backlog, givenUp>>,
         relay' = Idle \/ relay' = [Idle EXCEPT !.pc = "down"],
         posts' \subseteq posts, faults < MaxFaults, faults' = faults + 1
  PROVE  RelayInv'
  <1>. USE DEF RelayInv
  <1>1. /\ relay' \in [pc : {"down", "idle", "posting", "awaiting"},
                  batch : SUBSET (1..Len(chat)), attempt : 0..MaxAttempts,
                  since : 0..MaxFaults]
        /\ RelayIsPlaced'
        /\ \A r \in 1..Len(chat) : Passed(r)' => Passed(r) /\ r \notin relay.batch
    BY DroppedKeeps
  <1>2. RelayTypes' /\ backlog <= backlog'
    <2>1. faults' \in 0..MaxFaults
      BY InboundAssumption DEF RelayTypes
    <2>2. UNCHANGED <<chat, cursor, events, backlog, givenUp>> /\ posts' \subseteq posts /\ RelayTypes
      OBVIOUS
    <2>. QED BY ONLY <1>1, <2>1, <2>2 DEF RelayTypes
  <1>. HIDE DEF RelayInv
  <1>. QED BY <1>1, <1>2, NothingPublished

LEMMA OneMore ==
  ASSUME NEW S, IsFiniteSet(S), NEW x
  PROVE  Cardinality(S \cup {x}) \in Nat /\ Cardinality(S \cup {x}) <= Cardinality(S) + 1
  <1>1. IsFiniteSet(S \cup {x})
    BY FS_AddElement
  <1>2. Cardinality(S \cup {x}) = Cardinality(S) \/ Cardinality(S \cup {x}) = Cardinality(S) + 1
    BY FS_AddElement
  <1>. QED BY <1>1, <1>2, FS_CardinalityType

(* A handler starts: the row is no longer due while it is under way.        *)
LEMMA PostKeeps ==
  ASSUME RelayInv, PostInbound
  PROVE  RelayInv'
  <1>. DEFINE h == [row |-> Row, since |-> faults, pc |-> "publish", event |-> 0]
  <1>1. /\ relay.pc = "posting" /\ relay' = [relay EXCEPT !.pc = "awaiting", !.since = faults]
        /\ posts' = posts \cup {h}
        /\ UNCHANGED <<chat, cursor, events, backlog, givenUp, faults>>
    BY DEF PostInbound
  <1>. USE DEF RelayInv
  <1>2. relay.batch # {}
    BY <1>1 DEF RelayIsPlaced
  <1>3. Row \in relay.batch /\ Row \in 1..Len(chat)
    BY <1>2, RowInHand
  <1>4. relay'.batch = relay.batch /\ relay'.pc = "awaiting" /\ LastSeen' = LastSeen /\ Row' = Row
    <2>1. relay \in [pc : {"down", "idle", "posting", "awaiting"}, batch : SUBSET (1..Len(chat)),
                  attempt : 0..MaxAttempts, since : 0..MaxFaults]
      BY DEF RelayTypes
    <2>2. relay'.batch = relay.batch /\ relay'.pc = "awaiting"
      BY <1>1, <2>1
    <2>. QED BY <1>1, <2>2 DEF LastSeen, Row
  <1>5. RelayTypes'
    <2>1. h \in [row : 1..Len(chat), since : 0..MaxFaults, pc : {"publish", "answer"},
                 event : 0..Len(events)]
      BY <1>3 DEF RelayTypes
    <2>. HIDE DEF h
    <2>. QED BY <1>1, <2>1 DEF RelayTypes
  <1>6. RelayIsPlaced'
    BY <1>2, <1>4 DEF RelayIsPlaced
  <1>7. PassedAreHandled'
    BY <1>1, <1>4 DEF PassedAreHandled, Passed, Handled, Copies
  <1>8. IsFiniteSet(posts')
    BY <1>1, FS_AddElement DEF CopiesArePaid
  <1>9. ASSUME NEW r \in 1..Len(chat)
        PROVE  Cardinality(Copies(r)') + Cardinality(Publishing(r)') + (IF Due(r)' THEN 1 ELSE 0)
                  <= 1 + faults'
    <2>1. /\ Cardinality(Copies(r)) \in Nat
          /\ Cardinality(Publishing(r)) \in Nat /\ IsFiniteSet(Publishing(r))
      BY CountsAreNumbers DEF CopiesArePaid
    <2>2. Copies(r)' = Copies(r) /\ faults' = faults /\ faults \in Nat
      BY <1>1, InboundAssumption DEF Copies, RelayTypes
    <2>3. Cardinality(Copies(r)) + Cardinality(Publishing(r)) + (IF Due(r) THEN 1 ELSE 0) <= 1 + faults
      BY DEF CopiesArePaid
    <2>4. CASE r = Row
      <3>1. Due(r) /\ ~Due(r)'
        BY <1>1, <1>3, <1>4, <2>4 DEF Due
      <3>2. Publishing(r)' = Publishing(r) \cup {h}
        BY <1>1, <2>4 DEF Publishing
      <3>3. /\ Cardinality(Publishing(r)') \in Nat
            /\ Cardinality(Publishing(r)') <= Cardinality(Publishing(r)) + 1
        BY <2>1, <3>2, OneMore
      <3>. HIDE DEF Due, Publishing, Copies, RelayInv
      <3>. QED BY <2>1, <2>2, <2>3, <3>1, <3>3
    <2>5. CASE r # Row
      <3>1. Publishing(r)' = Publishing(r)
        BY <1>1, <2>5 DEF Publishing
      <3>2. Due(r)' <=> Due(r)
        BY <1>1, <1>4, <2>5 DEF Due, Passed
      <3>. HIDE DEF Due, Publishing, Copies, RelayInv
      <3>. QED BY <2>1, <2>2, <2>3, <3>1, <3>2
    <2>. QED BY <2>4, <2>5
  <1>. QED BY <1>1, <1>5, <1>6, <1>7, <1>8, <1>9 DEF CopiesArePaid

(* A new row is due, and nothing of it is under way.                        *)
LEMMA ArrivesKeeps ==
  ASSUME RelayInv, NEW kind \in Kinds, MessageArrives(kind)
  PROVE  RelayInv'
  <1>1. /\ Len(chat) < MaxRows /\ chat' = Append(chat, kind)
        /\ UNCHANGED <<cursor, relay, posts, events, backlog, givenUp, faults>>
    BY DEF MessageArrives, relayVars
  <1>. USE DEF RelayInv
  <1>2. /\ chat \in Seq(Kinds) /\ Len(chat) \in Nat /\ Len(chat') = Len(chat) + 1
        /\ \A r \in 1..Len(chat) : chat'[r] = chat[r]
    BY <1>1 DEF RelayTypes
  <1>3. 1..Len(chat) \subseteq 1..Len(chat') /\ 0..Len(chat) \subseteq 0..Len(chat')
    BY <1>2
  <1>4. LastSeen' = LastSeen /\ Row' = Row /\ LastSeen \in 0..Len(chat)
    BY <1>1, <1>2 DEF LastSeen, Row, RelayTypes
  <1>5. \A r : (Passed(r)' <=> Passed(r)) /\ (Due(r)' <=> Due(r))
    BY <1>1, <1>4 DEF Passed, Due
  <1>6. \A r : Copies(r)' = Copies(r) /\ Publishing(r)' = Publishing(r)
    BY <1>1 DEF Copies, Publishing
  <1>7. RelayTypes'
    <2>1. chat' \in Seq(Kinds) /\ Len(chat') <= MaxRows
      BY <1>1, <1>2, InboundAssumption
    <2>2. events' \in Seq(1..Len(chat'))
      BY <1>1, <1>3 DEF RelayTypes
    <2>3. /\ cursor' \in 0..Len(chat') \cup {NoFile} /\ backlog' \in 0..Len(chat')
          /\ givenUp' \subseteq 1..Len(chat')
      BY <1>1, <1>3 DEF RelayTypes
    <2>4. relay' \in [pc : {"down", "idle", "posting", "awaiting"}, batch : SUBSET (1..Len(chat')),
                  attempt : 0..MaxAttempts, since : 0..MaxFaults]
      BY <1>1, <1>3 DEF RelayTypes
    <2>5. posts' \subseteq [row : 1..Len(chat'), since : 0..MaxFaults,
                            pc : {"publish", "answer"}, event : 0..Len(events')]
      BY <1>1, <1>3 DEF RelayTypes
    <2>. QED BY <1>1, <2>1, <2>2, <2>3, <2>4, <2>5 DEF RelayTypes
  <1>8. RelayIsPlaced'
    BY <1>1, <1>4 DEF RelayIsPlaced
  <1>9. ASSUME NEW r \in 1..Len(chat'), r \notin 1..Len(chat)
        PROVE  ~Passed(r) /\ Copies(r) = {} /\ Publishing(r) = {}
    <2>1. r = Len(chat) + 1
      BY <1>2, <1>9
    <2>2. ~Passed(r)
      BY <1>2, <1>4, <2>1 DEF Passed, RelayTypes
    <2>3. Copies(r) = {} /\ Publishing(r) = {}
      BY <1>9 DEF Copies, Publishing, RelayTypes
    <2>. QED BY <2>2, <2>3
  <1>10. PassedAreHandled'
    <2>1. ASSUME NEW r \in 1..Len(chat'), Passed(r), r \notin relay.batch PROVE Handled(r)'
      <3>1. r \in 1..Len(chat)
        BY <1>9, <2>1
      <3>. QED BY <2>1, <3>1, <1>1, <1>2, <1>6 DEF PassedAreHandled, Handled
    <2>. QED BY <2>1, <1>1, <1>5, <1>6 DEF PassedAreHandled
  <1>11. ASSUME NEW r \in 1..Len(chat')
         PROVE  Cardinality(Copies(r)') + Cardinality(Publishing(r)') + (IF Due(r)' THEN 1 ELSE 0)
                  <= 1 + faults'
    <2>1. CASE r \in 1..Len(chat)
      <3>1. Cardinality(Copies(r)) + Cardinality(Publishing(r)) + (IF Due(r) THEN 1 ELSE 0) <= 1 + faults
        BY <2>1 DEF CopiesArePaid
      <3>. HIDE DEF Due, Publishing, Copies, RelayInv
      <3>. QED BY <1>1, <1>5, <1>6, <3>1
    <2>2. CASE r \notin 1..Len(chat)
      <3>. DEFINE copies == Cardinality(Copies(r)')
                  posted == Cardinality(Publishing(r)')
                  due == IF Due(r)' THEN 1 ELSE 0
      <3>1. copies = 0 /\ posted = 0
        BY <1>6, <1>9, <2>2, FS_EmptySet
      <3>2. faults' \in Nat
        BY <1>1, InboundAssumption DEF RelayTypes
      <3>3. due = 0 \/ due = 1
        OBVIOUS
      <3>. HIDE DEF copies, posted, due, RelayInv
      <3>4. copies + posted + due = due
        BY <3>1, <3>3
      <3>5. due <= 1 + faults'
        BY <3>2, <3>3
      <3>. QED BY <3>4, <3>5 DEF copies, posted, due
    <2>. QED BY <2>1, <2>2
  <1>. QED BY <1>1, <1>7, <1>8, <1>10, <1>11 DEF CopiesArePaid

(* A text that comes in time is one the relay has not passed.               *)
LEMMA TextKeeps ==
  ASSUME RelayInv, NEW r \in 1..Len(chat), TextArrives(r)
  PROVE  RelayInv'
  <1>1. /\ chat' = [chat EXCEPT ![r] = IF Passed(r) THEN "late" ELSE "text"]
        /\ UNCHANGED <<cursor, relay, posts, events, backlog, givenUp, faults>>
    BY DEF TextArrives, relayVars
  <1>. USE DEF RelayInv
  <1>2. chat' \in Seq(Kinds) /\ Len(chat') = Len(chat)
    BY <1>1 DEF RelayTypes, Kinds
  <1>3. chat'[r] = (IF Passed(r) THEN "late" ELSE "text") /\ \A s \in 1..Len(chat) \ {r} : chat'[s] = chat[s]
    BY <1>1 DEF RelayTypes
  <1>4. LastSeen' = LastSeen /\ Row' = Row
    BY <1>1 DEF LastSeen, Row
  <1>5. \A s : (Passed(s)' <=> Passed(s)) /\ (Due(s)' <=> Due(s))
    BY <1>1, <1>4 DEF Passed, Due
  <1>6. \A s : Copies(s)' = Copies(s) /\ Publishing(s)' = Publishing(s)
    BY <1>1 DEF Copies, Publishing
  <1>7. RelayTypes'
    BY <1>1, <1>2 DEF RelayTypes
  <1>8. RelayIsPlaced'
    BY <1>1, <1>4 DEF RelayIsPlaced
  <1>9. PassedAreHandled'
    <2>1. ASSUME NEW s \in 1..Len(chat), Passed(s), s \notin relay.batch PROVE Handled(s)'
      BY <2>1, <1>1, <1>3, <1>6 DEF PassedAreHandled, Handled
    <2>. QED BY <2>1, <1>1, <1>2, <1>5, <1>6 DEF PassedAreHandled
  <1>10. CopiesArePaid'
    <2>. HIDE DEF Due, Publishing, Copies
    <2>. QED BY <1>1, <1>2, <1>5, <1>6 DEF CopiesArePaid
  <1>. QED BY <1>7, <1>8, <1>9, <1>10

LEMMA OneLess ==
  ASSUME NEW S, IsFiniteSet(S), NEW x \in S
  PROVE  Cardinality(S \ {x}) \in Nat /\ Cardinality(S) = Cardinality(S \ {x}) + 1
  <1>1. IsFiniteSet(S \ {x}) /\ Cardinality(S \ {x}) = Cardinality(S) - 1
    BY FS_RemoveElement
  <1>. QED BY <1>1, FS_CardinalityType

(* What was under way is a copy now, and an unanswered PUBLISH that will be *)
(* sent once more costs a fault.                                            *)
LEMMA PublishKeeps ==
  ASSUME RelayInv, NEW h \in posts, NEW g, h.pc = "publish", Publish(h),
         posts' = (posts \ {h}) \cup {g},
         \/ g = [h EXCEPT !.pc = "answer"] /\ faults' = faults
         \/ /\ g = [h EXCEPT !.event = IF h.event = 0 THEN Len(events') ELSE h.event]
            /\ faults < MaxFaults /\ faults' = faults + 1,
         UNCHANGED <<chat, cursor, relay, backlog, givenUp>>
  PROVE  RelayInv'
  <1>1. /\ h \in [row : 1..Len(chat), since : 0..MaxFaults, pc : {"publish", "answer"},
                  event : 0..Len(events)]
        /\ events \in Seq(1..Len(chat)) /\ Len(events) \in Nat
        /\ faults \in 0..MaxFaults /\ MaxFaults \in Nat
    BY InboundAssumption DEF RelayInv, RelayTypes
  <1>2. /\ events' \in Seq(1..Len(chat)) /\ Len(events') \in Nat /\ Len(events) <= Len(events')
        /\ \/ h.event = 0 /\ Len(events') = Len(events) + 1 /\ events'[Len(events) + 1] = h.row
           \/ h.event # 0 /\ Len(events') = Len(events)
        /\ \A e \in 1..Len(events) : events'[e] = events[e]
    <2>1. \/ h.event = 0 /\ events' = Append(events, h.row)
          \/ h.event # 0 /\ events' = events
      BY DEF Publish, Mint, Repeat
    <2>2. h.row \in 1..Len(chat) /\ events \in Seq(1..Len(chat)) /\ Len(events) \in Nat
      BY <1>1
    <2>3. CASE h.event = 0 /\ events' = Append(events, h.row)
      BY <2>2, <2>3
    <2>4. CASE h.event # 0 /\ events' = events
      BY <2>2, <2>4
    <2>. QED BY <2>1, <2>3, <2>4
  <1>3. /\ g.row = h.row /\ (g.pc = "answer" \/ faults' = faults + 1)
        /\ g \in [row : 1..Len(chat), since : 0..MaxFaults, pc : {"publish", "answer"},
                  event : 0..Len(events')]
    <2>1. CASE g = [h EXCEPT !.pc = "answer"]
      <3>1. 0..Len(events) \subseteq 0..Len(events')
        BY <1>1, <1>2
      <3>. QED BY <2>1, <3>1, <1>1
    <2>2. CASE /\ g = [h EXCEPT !.event = IF h.event = 0 THEN Len(events') ELSE h.event]
               /\ faults' = faults + 1
      <3>. DEFINE e == IF h.event = 0 THEN Len(events') ELSE h.event
      <3>1. e \in 0..Len(events')
        BY <1>1, <1>2
      <3>2. g = [h EXCEPT !.event = e] /\ faults' = faults + 1
        BY <2>2
      <3>. HIDE DEF e
      <3>. QED BY <3>1, <3>2, <1>1
    <2>. QED BY <2>1, <2>2
  <1>14. faults' \in 0..MaxFaults /\ faults' \in {faults, faults + 1}
    BY <1>1
  <1>4. LastSeen' = LastSeen /\ Row' = Row
    BY DEF LastSeen, Row
  <1>5. \A r : (Passed(r)' <=> Passed(r)) /\ (Due(r)' <=> Due(r))
    BY <1>4 DEF Passed, Due
  <1>6. /\ \A r : Copies(r) \subseteq Copies(r)'
        /\ \A r : r # h.row => Copies(r)' = Copies(r)
        /\ Copies(h.row)' = IF h.event = 0 THEN Copies(h.row) \cup {Len(events) + 1}
                            ELSE Copies(h.row)
    <2>1. \A e : e \in 1..Len(events') <=>
                     e \in 1..Len(events) \/ (h.event = 0 /\ e = Len(events) + 1)
      BY <1>1, <1>2
    <2>2. ASSUME NEW r, NEW e
          PROVE  e \in Copies(r)' <=>
                    e \in Copies(r) \/ (h.event = 0 /\ e = Len(events) + 1 /\ r = h.row)
      <3>1. Len(events) + 1 \notin 1..Len(events)
        BY <1>1
      <3>2. CASE e \in 1..Len(events)
        BY <3>1, <3>2, <2>1, <1>2 DEF Copies
      <3>3. CASE h.event = 0 /\ e = Len(events) + 1
        BY <3>1, <3>3, <2>1, <1>2 DEF Copies
      <3>4. CASE e \notin 1..Len(events) /\ ~(h.event = 0 /\ e = Len(events) + 1)
        BY <3>4, <2>1 DEF Copies
      <3>. QED BY <3>2, <3>3, <3>4
    <2>. DEFINE was(r) == Copies(r)
                is(r) == Copies(r)'
    <2>3. \A r : \A e : e \in is(r) <=>
                    e \in was(r) \/ (h.event = 0 /\ e = Len(events) + 1 /\ r = h.row)
      BY <2>2
    <2>4. \A r : was(r) \subseteq is(r)
      <3>. HIDE DEF was, is
      <3>. QED BY <2>3
    <2>5. ASSUME NEW r, r # h.row PROVE was(r) = is(r)
      <3>1. \A e : e \in is(r) <=> e \in was(r)
        BY <2>3, <2>5
      <3>. QED BY <3>1 DEF Copies
    <2>6. is(h.row) = IF h.event = 0 THEN was(h.row) \cup {Len(events) + 1} ELSE was(h.row)
      <3>1. \A e : e \in is(h.row) <=> e \in was(h.row) \/ (h.event = 0 /\ e = Len(events) + 1)
        BY <2>3
      <3>. QED BY <3>1 DEF Copies
    <2>. QED BY <2>4, <2>5, <2>6
  <1>7. RelayTypes'
    <2>1. 0..Len(events) \subseteq 0..Len(events')
      BY <1>1, <1>2
    <2>2. posts' \subseteq [row : 1..Len(chat), since : 0..MaxFaults, pc : {"publish", "answer"},
                            event : 0..Len(events')]
      BY <1>3, <2>1 DEF RelayInv, RelayTypes
    <2>3. RelayTypes /\ UNCHANGED <<chat, cursor, relay, backlog, givenUp>>
      BY DEF RelayInv
    <2>. QED BY ONLY <1>2, <1>14, <2>2, <2>3 DEF RelayTypes
  <1>8. RelayIsPlaced'
    BY <1>4 DEF RelayInv, RelayIsPlaced
  <1>9. Copies(h.row)' # {}
    <2>1. h.event # 0 => Copies(h.row) # {}
      BY DEF RelayInv, PassedAreHandled
    <2>. QED BY <2>1, <1>6
  <1>10. PassedAreHandled'
    <2>1. ASSUME NEW r \in 1..Len(chat), Passed(r), r \notin relay.batch PROVE Handled(r)'
      BY <2>1, <1>6 DEF RelayInv, PassedAreHandled, Handled
    <2>2. ASSUME NEW a \in posts', a.pc = "answer" \/ a.event # 0 PROVE Copies(a.row)' # {}
      <3>1. CASE a \in posts
        BY <2>2, <3>1, <1>6 DEF RelayInv, PassedAreHandled
      <3>2. CASE a = g
        BY <3>2, <1>3, <1>9
      <3>. QED BY <3>1, <3>2
    <2>. QED BY <2>1, <2>2, <1>5 DEF PassedAreHandled
  <1>11. IsFiniteSet(posts) /\ IsFiniteSet(posts')
    <2>1. IsFiniteSet(posts)
      BY DEF RelayInv, CopiesArePaid
    <2>. QED BY <2>1, FS_AddElement, FS_RemoveElement
  <1>12. ASSUME NEW r \in 1..Len(chat)
         PROVE  Cardinality(Copies(r)') + Cardinality(Publishing(r)') + (IF Due(r)' THEN 1 ELSE 0)
                  <= 1 + faults'
    <2>1. /\ Cardinality(Copies(r)) \in Nat /\ IsFiniteSet(Copies(r))
          /\ Cardinality(Publishing(r)) \in Nat /\ IsFiniteSet(Publishing(r))
      BY <1>11, CountsAreNumbers DEF RelayInv
    <2>2. Cardinality(Copies(r)) + Cardinality(Publishing(r)) + (IF Due(r) THEN 1 ELSE 0) <= 1 + faults
      BY DEF RelayInv, CopiesArePaid
    <2>3. faults \in Int /\ faults' \in {faults, faults + 1} /\ (Due(r)' <=> Due(r))
      BY <1>1, <1>14, <1>5
    <2>4. CASE r = h.row
      <3>1. h \in Publishing(r)
        BY <2>4 DEF Publishing
      <3>2. /\ Cardinality(Publishing(r) \ {h}) \in Nat /\ IsFiniteSet(Publishing(r) \ {h})
            /\ Cardinality(Publishing(r)) = Cardinality(Publishing(r) \ {h}) + 1
        BY <2>1, <3>1, OneLess, FS_Subset
      <3>3. /\ Cardinality(Copies(r)') \in Nat
            /\ Cardinality(Copies(r)') <= Cardinality(Copies(r)) + 1
        <4>1. CASE h.event = 0
          BY <4>1, <2>1, <2>4, <1>6, OneMore
        <4>2. CASE h.event # 0
          <5>1. Copies(r)' = Copies(r)
            BY <4>2, <2>4, <1>6
          <5>. HIDE DEF Copies
          <5>. QED BY <5>1, <2>1
        <4>. QED BY <4>1, <4>2
      <3>4. CASE g.pc = "answer"
        <4>1. Publishing(r)' = Publishing(r) \ {h}
          BY <3>4, <1>3, <2>4 DEF Publishing
        <4>. HIDE DEF Due, Publishing, Copies
        <4>. QED BY <4>1, <2>1, <2>2, <2>3, <3>2, <3>3
      <3>5. CASE g.pc = "publish" /\ faults' = faults + 1
        <4>1. Publishing(r)' = (Publishing(r) \ {h}) \cup {g}
          BY <3>5, <1>3, <2>4 DEF Publishing
        <4>2. /\ Cardinality(Publishing(r)') \in Nat
              /\ Cardinality(Publishing(r)') <= Cardinality(Publishing(r) \ {h}) + 1
          BY <4>1, <3>2, OneMore
        <4>. HIDE DEF Due, Publishing, Copies
        <4>. QED BY <4>2, <2>1, <2>2, <2>3, <3>2, <3>3, <3>5
      <3>. QED BY <3>4, <3>5, <1>3
    <2>5. CASE r # h.row
      <3>1. Publishing(r)' = Publishing(r) /\ Copies(r)' = Copies(r)
        BY <1>3, <1>6, <2>5 DEF Publishing
      <3>. HIDE DEF Due, Publishing, Copies
      <3>. QED BY <2>1, <2>2, <2>3, <3>1
    <2>. QED BY <2>4, <2>5
  <1>. QED BY <1>7, <1>8, <1>10, <1>11, <1>12 DEF RelayInv, CopiesArePaid

(* Every step keeps the relay's half of the invariant.                      *)
LEMMA RelayStep ==
  ASSUME RelayInv, [Next]_vars
  PROVE  RelayInv'
  <1>. USE DEF relayVars
  <1>1. relay.pc \in {"posting", "awaiting"} => relay.batch # {}
    BY DEF RelayInv, RelayIsPlaced
  <1>2. /\ relay.pc = "posting" /\ relay.batch # {} => Due(Row)
        /\ \A h \in posts : h.pc = "answer" => Copies(h.row) # {}
    BY RowInHand DEF RelayInv, PassedAreHandled, Due
  <1>3. faults \in 0..MaxFaults /\ MaxFaults \in Nat
    BY InboundAssumption DEF RelayInv, RelayTypes
  <1>4. ASSUME NEW kind \in FaultKinds, Fault(kind)
        PROVE  faults < MaxFaults /\ faults' = faults + 1 /\ faults' \in 0..MaxFaults
    BY <1>3, <1>4 DEF Fault
  <1>5. CASE \E kind \in Kinds \ {"late"} : MessageArrives(kind)
    BY <1>5, ArrivesKeeps
  <1>6. CASE \E r \in 1..Len(chat) : TextArrives(r)
    BY <1>6, TextKeeps
  <1>7. CASE RelayStart \/ RelayStartUnreadable
    BY <1>7, StartKeeps
  <1>8. CASE Poll
    BY <1>8, PollKeeps
  <1>9. CASE PostInbound
    BY <1>9, PostKeeps
  <1>10. CASE PostMalformed
    BY <1>1, <1>10, AnsweredKeeps DEF PostMalformed
  <1>11. CASE PostRefused
    <2>1. /\ relay.pc = "posting" /\ NextAttempt
          /\ UNCHANGED <<chat, events, backlog, faults>> /\ posts' = posts
      BY <1>11 DEF PostRefused
    <2>. QED BY <1>1, <1>2, <1>3, <2>1, FailedKeeps
  <1>12. ASSUME NEW h \in posts, PublishInbound(h) PROVE RelayInv'
    <2>. DEFINE g == [h EXCEPT !.pc = "answer"]
    <2>1. /\ h.pc = "publish" /\ Publish(h) /\ posts' = (posts \ {h}) \cup {g}
          /\ faults' = faults /\ UNCHANGED <<chat, cursor, relay, backlog, givenUp>>
      BY <1>12 DEF PublishInbound
    <2>2. g = [h EXCEPT !.pc = "answer"]
      OBVIOUS
    <2>. HIDE DEF g
    <2>. QED BY <2>1, <2>2, PublishKeeps
  <1>21. ASSUME NEW h \in posts, PublishUnanswered(h) PROVE RelayInv'
    <2>. DEFINE g == [h EXCEPT !.event = IF h.event = 0 THEN Len(events') ELSE h.event]
    <2>1. /\ h.pc = "publish" /\ Publish(h) /\ posts' = (posts \ {h}) \cup {g}
          /\ faults < MaxFaults /\ faults' = faults + 1
          /\ UNCHANGED <<chat, cursor, relay, backlog, givenUp>>
      BY <1>21 DEF PublishUnanswered, Fault
    <2>2. g = [h EXCEPT !.event = IF h.event = 0 THEN Len(events') ELSE h.event]
      OBVIOUS
    <2>. HIDE DEF g
    <2>. QED BY <2>1, <2>2, PublishKeeps
  <1>13. ASSUME NEW h \in posts, PublishFails(h) PROVE RelayInv'
    <2>1. /\ h.pc = "publish" /\ posts' = posts \ {h} /\ UNCHANGED <<chat, events, backlog>>
          /\ IF IsAwaited(h) THEN NextAttempt ELSE UNCHANGED <<cursor, relay, givenUp>>
          /\ faults' = faults \/ faults' = faults + 1
          /\ faults' \in 0..MaxFaults
      BY <1>3, <1>13 DEF PublishFails, Fault
    <2>2. CASE IsAwaited(h)
      <3>1. relay.pc = "awaiting" /\ h.row = Row
        BY <2>2 DEF IsAwaited
      <3>2. h \in posts \ posts'
        BY <2>1
      <3>. QED BY <1>1, <1>3, <2>1, <2>2, <3>1, <3>2, FailedKeeps
    <2>3. CASE ~IsAwaited(h)
      BY <1>3, <2>1, <2>3, HandlerGone
    <2>. QED BY <2>2, <2>3
  <1>14. ASSUME NEW h \in posts, AnswerInbound(h) PROVE RelayInv'
    <2>1. /\ h.pc = "answer" /\ posts' = posts \ {h}
          /\ UNCHANGED <<chat, events, backlog, givenUp, faults>>
          /\ IF IsAwaited(h) THEN Advance ELSE UNCHANGED <<cursor, relay>>
      BY <1>14 DEF AnswerInbound
    <2>2. CASE IsAwaited(h)
      <3>1. relay.pc = "awaiting" /\ h.row = Row
        BY <2>2 DEF IsAwaited
      <3>. QED BY <1>1, <1>2, <2>1, <2>2, <3>1, AnsweredKeeps
    <2>3. CASE ~IsAwaited(h)
      BY <1>3, <2>1, <2>3, HandlerGone
    <2>. QED BY <2>2, <2>3
  <1>15. ASSUME NEW h \in posts, WriteFails(h) PROVE RelayInv'
    BY <1>4, <1>15, DropKeeps DEF WriteFails, Fault, AfterException
  <1>16. CASE ConnectionLost
    BY <1>1, <1>4, <1>16, FailedKeeps DEF ConnectionLost, Fault
  <1>17. CASE ProtocolError
    BY <1>4, <1>17, DropKeeps DEF ProtocolError, Fault, AfterException
  <1>18. CASE RelayCrash
    BY <1>4, <1>18, DropKeeps DEF RelayCrash, Fault
  <1>19. CASE BridgeCrash
    <2>1. /\ posts' = {} /\ UNCHANGED <<chat, events, backlog>>
          /\ faults < MaxFaults /\ faults' = faults + 1 /\ faults' \in 0..MaxFaults
          /\ IF relay.pc = "awaiting"
             THEN \/ NextAttempt
                  \/ relay' = Idle /\ UNCHANGED <<cursor, givenUp>>
             ELSE UNCHANGED <<cursor, relay, givenUp>>
      BY <1>4, <1>19 DEF BridgeCrash, Fault, AfterException
    <2>2. CASE relay.pc = "awaiting" /\ NextAttempt
      BY <1>1, <2>1, <2>2, FailedKeeps
    <2>3. CASE relay' = Idle /\ UNCHANGED <<cursor, givenUp>>
      BY <2>1, <2>3, DropKeeps
    <2>4. CASE UNCHANGED <<cursor, relay, givenUp>>
      BY <2>1, <2>4, HandlerGone
    <2>. QED BY <2>1, <2>2, <2>3, <2>4
  <1>20. CASE BrainMoves
    BY <1>20, BrainMovesKeep
  <1>. QED BY <1>5, <1>6, <1>7, <1>8, <1>9, <1>10, <1>11, <1>12, <1>13, <1>14, <1>15, <1>16,
              <1>17, <1>18, <1>19, <1>20, <1>21, RelayStepOrNot
           DEF RelaySteps, Handler, HandlerFaults

----------------------------------------------------------------------------
(* The brain                                                                *)

LEMMA BrainInit == Init => BrainInv
  <1>. SUFFICES ASSUME Init PROVE BrainInv
    OBVIOUS
  <1>1. /\ wire = <<>> /\ events = <<>> /\ drafts = <<>> /\ processed = {} /\ missed = {}
        /\ unmarked = {} /\ brain = [pc |-> "waiting", event |-> 0]
    BY DEF Init, Waiting
  <1>2. BrainTypes
    BY <1>1 DEF BrainTypes
  <1>3. DraftsAreMarked
    BY <1>1 DEF DraftsAreMarked
  <1>4. OneDraftPerEvent /\ EventsAreAccountedFor
    BY <1>1 DEF OneDraftPerEvent, EventsAreAccountedFor
  <1>. QED BY <1>2, <1>3, <1>4 DEF BrainInv

(* Where an event may be that the brain does not hold.                      *)
Settled == processed \cup unmarked
Elsewhere == ToSet(wire) \cup missed \cup Settled

(* A step of the stream: no event may get lost on the way.                  *)
LEMMA StreamKeeps ==
  ASSUME BrainInv, UNCHANGED <<events, brain, processed, unmarked, drafts>>,
         wire' \in Seq(1..Len(events)), missed' \subseteq 1..Len(events),
         Elsewhere \subseteq Elsewhere'
  PROVE  BrainInv'
  <1>1. BrainTypes'
    BY DEF BrainInv, BrainTypes
  <1>2. DraftsAreMarked'
    BY DEF BrainInv, DraftsAreMarked
  <1>3. OneDraftPerEvent'
    BY DEF BrainInv, OneDraftPerEvent
  <1>4. EventsAreAccountedFor'
    BY DEF BrainInv, EventsAreAccountedFor, Elsewhere, Settled
  <1>. QED BY <1>1, <1>2, <1>3, <1>4 DEF BrainInv

LEMMA StreamStill ==
  ASSUME BrainInv, UNCHANGED <<events, wire, missed, brain, processed, unmarked, drafts>>
  PROVE  BrainInv'
  <1>1. wire' \in Seq(1..Len(events)) /\ missed' \subseteq 1..Len(events)
    BY DEF BrainInv, BrainTypes
  <1>2. Elsewhere \subseteq Elsewhere'
    BY DEF Elsewhere, Settled
  <1>. QED BY <1>1, <1>2, StreamKeeps

(* The brain lets go of the event in hand, if any: it is marked, or known   *)
(* to be unmarked.                                                          *)
LEMMA LetGoKeeps ==
  ASSUME BrainInv, UNCHANGED <<events, drafts>>,
         brain' \in [pc : {"down", "waiting"}, event : {0}],
         wire' \in Seq(1..Len(events)), missed' \subseteq 1..Len(events),
         Settled' \subseteq 1..Len(events), unmarked \subseteq unmarked',
         Settled \subseteq Settled', Elsewhere \subseteq Elsewhere',
         brain.pc \notin {"down", "waiting"} => brain.event \in Settled'
  PROVE  BrainInv'
  <1>1. BrainTypes'
    BY DEF BrainInv, BrainTypes, Settled
  <1>2. DraftsAreMarked'
    BY DEF BrainInv, DraftsAreMarked, Settled
  <1>3. OneDraftPerEvent'
    BY DEF BrainInv, OneDraftPerEvent
  <1>4. EventsAreAccountedFor'
    BY DEF BrainInv, EventsAreAccountedFor, Elsewhere, Settled
  <1>. QED BY <1>1, <1>2, <1>3, <1>4 DEF BrainInv

(* The brain goes on with the event in hand, without a draft more.          *)
LEMMA WorkKeeps ==
  ASSUME BrainInv, NEW pc, brain' = Work(pc),
         \/ brain.pc \in {"thinking", "creating"} /\ pc \in {"creating", "marking", "failing"}
         \/ brain.pc = "marking" /\ pc = "failing",
         UNCHANGED <<events, wire, missed, processed, unmarked, drafts>>
  PROVE  BrainInv'
  <1>1. /\ brain' \in [pc : {"down", "waiting", "thinking", "creating", "marking", "failing"},
                        event : 0..Len(events)]
        /\ brain'.pc = pc /\ brain'.event = brain.event
    BY DEF BrainInv, BrainTypes, Work
  <1>2. BrainTypes'
    BY <1>1 DEF BrainInv, BrainTypes
  <1>3. DraftsAreMarked'
    BY <1>1 DEF BrainInv, DraftsAreMarked
  <1>4. OneDraftPerEvent' /\ EventsAreAccountedFor'
    BY <1>1 DEF BrainInv, OneDraftPerEvent, EventsAreAccountedFor
  <1>. QED BY <1>2, <1>3, <1>4 DEF BrainInv

(* The brain takes an event off the wire.                                   *)
LEMMA TakenOff ==
  ASSUME BrainTypes, Len(events) \in Nat, wire # <<>>, wire' = Tail(wire)
  PROVE  /\ wire' \in Seq(1..Len(events)) /\ Head(wire) \in 1..Len(events)
         /\ ToSet(wire) \subseteq ToSet(wire') \cup {Head(wire)}
  <1>1. wire \in Seq(1..Len(events))
    BY DEF BrainTypes
  <1>2. /\ Len(wire) \in Nat /\ Len(wire') = Len(wire) - 1 /\ wire' \in Seq(1..Len(events))
        /\ \A i \in 1..Len(wire') : wire'[i] = wire[i + 1]
        /\ Head(wire) = wire[1] /\ Head(wire) \in 1..Len(events)
    BY <1>1
  <1>3. ASSUME NEW i \in 1..Len(wire), i # 1 PROVE i - 1 \in 1..Len(wire') /\ wire[i] = wire'[i - 1]
    BY <1>2, <1>3
  <1>4. DOMAIN wire = 1..Len(wire) /\ DOMAIN wire' = 1..Len(wire')
    BY <1>1, <1>2
  <1>5. ASSUME NEW i \in 1..Len(wire) PROVE wire[i] \in ToSet(wire') \cup {Head(wire)}
    <2>1. CASE i = 1
      BY <2>1, <1>2
    <2>2. CASE i # 1
      BY <2>2, <1>3, <1>4 DEF ToSet
    <2>. QED BY <2>1, <2>2
  <1>6. ToSet(wire) \subseteq ToSet(wire') \cup {Head(wire)}
    BY <1>4, <1>5 DEF ToSet
  <1>. QED BY <1>2, <1>6

LEMMA ReceiveKeeps ==
  ASSUME BrainInv, Len(events) \in Nat, ReceiveEvent
  PROVE  BrainInv'
  <1>1. /\ brain.pc = "waiting" /\ wire # <<>> /\ wire' = Tail(wire)
        /\ brain' = IF Head(wire) \in processed
                    THEN brain ELSE [pc |-> "thinking", event |-> Head(wire)]
        /\ UNCHANGED <<events, missed, processed, unmarked, drafts>>
    BY DEF ReceiveEvent, Seen
  <1>2. /\ wire' \in Seq(1..Len(events)) /\ Head(wire) \in 1..Len(events)
        /\ ToSet(wire) \subseteq ToSet(wire') \cup {Head(wire)}
    BY <1>1, TakenOff DEF BrainInv
  <1>3. CASE Head(wire) \in processed
    <2>1. brain' = brain /\ missed' \subseteq 1..Len(events)
      BY <1>1, <1>3 DEF BrainInv, BrainTypes
    <2>2. Elsewhere \subseteq Elsewhere'
      BY <1>1, <1>2, <1>3 DEF Elsewhere, Settled
    <2>. QED BY <1>1, <1>2, <2>1, <2>2, StreamKeeps
  <1>4. CASE Head(wire) \notin processed
    <2>1. brain' = [pc |-> "thinking", event |-> Head(wire)]
      BY <1>1, <1>4
    <2>2. BrainTypes'
      BY <1>1, <1>2, <2>1 DEF BrainInv, BrainTypes
    <2>3. DraftsAreMarked'
      BY <1>1, <1>2, <1>4, <2>1 DEF BrainInv, DraftsAreMarked
    <2>4. OneDraftPerEvent'
      BY <1>1 DEF BrainInv, OneDraftPerEvent
    <2>5. EventsAreAccountedFor'
      BY <1>1, <1>2, <2>1 DEF BrainInv, EventsAreAccountedFor
    <2>. QED BY <2>2, <2>3, <2>4, <2>5 DEF BrainInv
  <1>. QED BY <1>3, <1>4

LEMMA LookupFailsKeeps ==
  ASSUME BrainInv, Len(events) \in Nat, LookupFails
  PROVE  BrainInv'
  <1>1. /\ brain.pc = "waiting" /\ wire # <<>> /\ wire' = Tail(wire)
        /\ unmarked' = unmarked \cup ({Head(wire)} \ processed)
        /\ UNCHANGED <<events, missed, brain, processed, drafts>>
    BY DEF LookupFails
  <1>2. /\ wire' \in Seq(1..Len(events)) /\ Head(wire) \in 1..Len(events)
        /\ ToSet(wire) \subseteq ToSet(wire') \cup {Head(wire)}
    BY <1>1, TakenOff DEF BrainInv
  <1>3. BrainTypes'
    BY <1>1, <1>2 DEF BrainInv, BrainTypes
  <1>4. DraftsAreMarked'
    BY <1>1 DEF BrainInv, DraftsAreMarked
  <1>5. OneDraftPerEvent'
    BY <1>1 DEF BrainInv, OneDraftPerEvent
  <1>6. EventsAreAccountedFor'
    BY <1>1, <1>2 DEF BrainInv, EventsAreAccountedFor
  <1>. QED BY <1>3, <1>4, <1>5, <1>6 DEF BrainInv

LEMMA CreateKeeps ==
  ASSUME BrainInv, NEW answered \in BOOLEAN, CreateDraft(answered)
  PROVE  BrainInv'
  <1>1. /\ brain.pc = "creating" /\ drafts' = [drafts EXCEPT ![brain.event] = @ + 1]
        /\ brain' = Work("marking") \/ brain' = Work("failing")
        /\ UNCHANGED <<events, wire, missed, processed, unmarked>>
    BY DEF CreateDraft, AfterCreate, streamVars
  <1>2. /\ drafts \in Seq(Nat) /\ Len(drafts) = Len(events)
        /\ brain \in [pc : {"down", "waiting", "thinking", "creating", "marking", "failing"},
                      event : 0..Len(events)]
    BY DEF BrainInv, BrainTypes
  <1>3. /\ brain.event \in 1..Len(drafts) /\ brain.event # 0
        /\ drafts[brain.event] > 0 => brain.event \in unmarked
    BY <1>1, <1>2 DEF BrainInv, DraftsAreMarked
  <1>4. /\ drafts' \in Seq(Nat) /\ Len(drafts') = Len(drafts)
        /\ drafts'[brain.event] = drafts[brain.event] + 1 /\ drafts[brain.event] \in Nat
        /\ \A e \in 1..Len(drafts) \ {brain.event} : drafts'[e] = drafts[e]
    BY <1>1, <1>2, <1>3
  <1>5. /\ brain'.pc \in {"marking", "failing"} /\ brain'.event = brain.event
        /\ brain' \in [pc : {"down", "waiting", "thinking", "creating", "marking", "failing"},
                      event : 0..Len(events)]
    BY <1>1, <1>2 DEF Work
  <1>6. BrainTypes'
    BY <1>1, <1>2, <1>4, <1>5 DEF BrainInv, BrainTypes
  <1>7. DraftsAreMarked'
    <2>1. ASSUME NEW e \in 1..Len(drafts'), drafts'[e] > 0
          PROVE  \/ e \in processed' \cup unmarked'
                 \/ brain'.pc \in {"marking", "failing"} /\ brain'.event = e
      <3>1. CASE e = brain.event
        BY <3>1, <1>5
      <3>2. CASE e # brain.event
        <4>1. e \in 1..Len(drafts) /\ drafts[e] > 0
          BY <2>1, <3>2, <1>4
        <4>. QED BY <4>1, <3>2, <1>1 DEF BrainInv, DraftsAreMarked
      <3>. QED BY <3>1, <3>2
    <2>. QED BY <2>1, <1>3, <1>5 DEF DraftsAreMarked
  <1>8. OneDraftPerEvent'
    <2>1. ASSUME NEW e \in 1..Len(drafts') PROVE drafts'[e] <= 1 \/ e \in unmarked'
      <3>1. CASE e = brain.event
        BY <3>1, <1>1, <1>3, <1>4
      <3>2. CASE e # brain.event
        BY <3>2, <1>1, <1>4 DEF BrainInv, OneDraftPerEvent
      <3>. QED BY <3>1, <3>2
    <2>. QED BY <2>1 DEF OneDraftPerEvent
  <1>9. EventsAreAccountedFor'
    BY <1>1, <1>5 DEF BrainInv, EventsAreAccountedFor
  <1>. QED BY <1>6, <1>7, <1>8, <1>9 DEF BrainInv

(* Marked, unmarked or crashed: the brain is done with the event in hand.   *)
LEMMA DoneKeeps ==
  ASSUME BrainInv, Len(events) \in Nat, UNCHANGED <<events, drafts>>,
         brain.pc # "down", brain' \in {Waiting, [Waiting EXCEPT !.pc = "down"]},
         \/ /\ brain.pc # "waiting"
            /\ \/ processed' = processed \cup {brain.event} /\ unmarked' = unmarked
               \/ unmarked' = unmarked \cup {brain.event} /\ processed' = processed
         \/ brain.pc = "waiting" /\ UNCHANGED <<processed, unmarked>>,
         \/ UNCHANGED <<wire, missed>>
         \/ wire' = <<>> /\ missed' = missed \cup ToSet(wire)
  PROVE  BrainInv'
  <1>1. /\ wire \in Seq(1..Len(events)) /\ brain.event \in 0..Len(events)
        /\ Settled \subseteq 1..Len(events) /\ missed \subseteq 1..Len(events)
    BY DEF BrainInv, BrainTypes, Settled
  <1>2. brain.pc # "waiting" => brain.event \in 1..Len(events)
    BY <1>1 DEF BrainInv, DraftsAreMarked
  <1>3. /\ Settled \subseteq Settled' /\ unmarked \subseteq unmarked'
        /\ Settled' \subseteq 1..Len(events)
        /\ brain.pc # "waiting" => brain.event \in Settled'
    BY <1>1, <1>2 DEF Settled
  <1>4. ToSet(wire) \subseteq 1..Len(events)
    BY <1>1 DEF ToSet
  <1>5. wire' \in Seq(1..Len(events)) /\ missed' \subseteq 1..Len(events)
    <2>1. CASE UNCHANGED <<wire, missed>>
      BY <1>1, <2>1
    <2>2. CASE wire' = <<>> /\ missed' = missed \cup ToSet(wire)
      BY <1>1, <1>4, <2>2
    <2>. QED BY <2>1, <2>2
  <1>6. ToSet(wire) \cup missed \subseteq ToSet(wire') \cup missed'
    OBVIOUS
  <1>7. Elsewhere \subseteq Elsewhere'
    BY <1>3, <1>6 DEF Elsewhere
  <1>8. brain' \in [pc : {"down", "waiting"}, event : {0}]
    BY DEF Waiting
  <1>. QED BY <1>3, <1>5, <1>7, <1>8, LetGoKeeps

LEMMA BrainStartKeeps ==
  ASSUME BrainInv, BrainStart
  PROVE  BrainInv'
  <1>1. /\ brain.pc = "down" /\ brain' = [pc |-> "waiting", event |-> 0]
        /\ UNCHANGED <<events, wire, missed, processed, unmarked, drafts>>
    BY DEF BrainStart, Waiting, streamVars
  <1>2. BrainTypes' /\ DraftsAreMarked'
    BY <1>1 DEF BrainInv, BrainTypes, DraftsAreMarked
  <1>3. OneDraftPerEvent' /\ EventsAreAccountedFor'
    BY <1>1 DEF BrainInv, OneDraftPerEvent, EventsAreAccountedFor
  <1>. QED BY <1>2, <1>3 DEF BrainInv

(* The frames that had not arrived when the socket broke are missed.        *)
LEMMA HangupKeeps ==
  ASSUME BrainInv, Len(events) \in Nat, Hangup,
         UNCHANGED <<events, brain, processed, unmarked, drafts>>
  PROVE  BrainInv'
  <1>1. CASE UNCHANGED streamVars
    BY <1>1, StreamStill DEF streamVars
  <1>2. CASE \E n \in 0..Len(wire) :
                /\ wire' = SubSeq(wire, 1, n)
                /\ missed' = missed \cup {wire[i] : i \in (n + 1)..Len(wire)}
    <2>1. PICK n \in 0..Len(wire) :
                /\ wire' = SubSeq(wire, 1, n)
                /\ missed' = missed \cup {wire[i] : i \in (n + 1)..Len(wire)}
      BY <1>2
    <2>2. wire \in Seq(1..Len(events)) /\ missed \subseteq 1..Len(events) /\ Len(wire) \in Nat
      BY DEF BrainInv, BrainTypes
    <2>3. \A i \in (n + 1)..Len(wire) : wire[i] \in 1..Len(events)
      BY <2>2
    <2>4. missed' \subseteq 1..Len(events)
      BY <2>1, <2>2, <2>3
    <2>5. /\ wire' \in Seq(1..Len(events)) /\ Len(wire') = n
          /\ \A i \in 1..n : wire'[i] = wire[i]
      BY <2>1, <2>2
    <2>6. ASSUME NEW i \in 1..Len(wire) PROVE wire[i] \in ToSet(wire') \cup missed'
      <3>1. CASE i \in 1..n
        BY <3>1, <2>5 DEF ToSet
      <3>2. CASE i \in (n + 1)..Len(wire)
        BY <3>2, <2>1
      <3>. QED BY <2>2, <3>1, <3>2
    <2>7. ToSet(wire) \subseteq ToSet(wire') \cup missed'
      BY <2>2, <2>6 DEF ToSet
    <2>8. Elsewhere \subseteq Elsewhere'
      BY <2>1, <2>7 DEF Elsewhere, Settled
    <2>. QED BY <2>4, <2>5, <2>8, StreamKeeps
  <1>. QED BY <1>1, <1>2 DEF Hangup

(* The same event once more.                                                *)
LEMMA RepeatKeeps ==
  ASSUME BrainInv, RelayTypes, NEW h \in posts, Repeat(h), h.event # 0,
         UNCHANGED <<brain, processed, unmarked>>
  PROVE  BrainInv'
  <1>1. /\ wire \in Seq(1..Len(events)) /\ missed \subseteq 1..Len(events)
        /\ h.event \in 1..Len(events) /\ UNCHANGED <<events, drafts>>
    <2>1. wire \in Seq(1..Len(events)) /\ missed \subseteq 1..Len(events)
      BY DEF BrainInv, BrainTypes
    <2>2. /\ h \in [row : 1..Len(chat), since : 0..MaxFaults, pc : {"publish", "answer"},
                    event : 0..Len(events)]
          /\ Len(events) \in Nat
      BY DEF RelayTypes
    <2>3. h.event \in 1..Len(events)
      BY <2>2
    <2>. QED BY <2>1, <2>3 DEF Repeat
  <1>2. CASE wire' = Append(wire, h.event) /\ missed' = missed \ {h.event}
    <2>1. /\ wire' \in Seq(1..Len(events)) /\ Len(wire') = Len(wire) + 1 /\ Len(wire) \in Nat
          /\ wire'[Len(wire) + 1] = h.event
          /\ \A i \in 1..Len(wire) : wire'[i] = wire[i]
      BY <1>1, <1>2
    <2>2. DOMAIN wire = 1..Len(wire) /\ DOMAIN wire' = 1..(Len(wire) + 1)
      BY <1>1, <2>1
    <2>3. ToSet(wire) \subseteq ToSet(wire') /\ h.event \in ToSet(wire')
      BY <2>1, <2>2 DEF ToSet
    <2>4. Elsewhere \subseteq Elsewhere'
      BY <1>2, <2>3 DEF Elsewhere, Settled
    <2>5. missed' \subseteq 1..Len(events)
      BY <1>1, <1>2
    <2>. QED BY <1>1, <2>1, <2>4, <2>5, StreamKeeps
  <1>3. CASE UNCHANGED <<wire, missed>>
    BY <1>1, <1>3, StreamStill
  <1>. QED BY <1>2, <1>3 DEF Repeat

LEMMA WiderSeq ==
  ASSUME NEW A, NEW B, A \subseteq B, NEW s \in Seq(A)
  PROVE  s \in Seq(B)
  OBVIOUS

(* A new event is on the wire, or missed; nothing is known of it yet.       *)
LEMMA MintKeeps ==
  ASSUME BrainInv, RelayTypes, NEW h \in posts, Mint(h),
         UNCHANGED <<brain, processed, unmarked>>
  PROVE  BrainInv'
  <1>. DEFINE new == Len(events) + 1
  <1>1. /\ events' = Append(events, h.row) /\ drafts' = Append(drafts, 0)
        /\ \/ wire' = Append(wire, new) /\ missed' = missed
           \/ wire' = wire /\ missed' = missed \cup {new}
    BY DEF Mint
  <1>2. /\ events \in Seq(1..Len(chat)) /\ h.row \in 1..Len(chat)
        /\ wire \in Seq(1..Len(events)) /\ drafts \in Seq(Nat) /\ Len(drafts) = Len(events)
        /\ brain \in [pc : {"down", "waiting", "thinking", "creating", "marking", "failing"},
                      event : 0..Len(events)]
        /\ processed \subseteq 1..Len(events) /\ missed \subseteq 1..Len(events)
        /\ unmarked \subseteq 1..Len(events)
    BY DEF BrainInv, BrainTypes, RelayTypes
  <1>3. Len(events) \in Nat /\ Len(events') = new /\ Len(wire) \in Nat
    BY <1>1, <1>2
  <1>4. /\ 1..Len(events) \subseteq 1..new /\ 0..Len(events) \subseteq 0..new
        /\ new \in 1..new /\ new \notin 1..Len(events)
        /\ \A e \in 1..new : e \in 1..Len(events) \/ e = new
    BY <1>3
  <1>5. /\ drafts' \in Seq(Nat) /\ Len(drafts') = new /\ drafts'[new] = 0
        /\ \A e \in 1..Len(events) : drafts'[e] = drafts[e]
    BY <1>1, <1>2
  <1>. HIDE DEF new
  <1>6. wire \in Seq(1..new)
    BY <1>2, <1>4, WiderSeq
  <1>7. /\ wire' \in Seq(1..new)
        /\ ToSet(wire) \subseteq ToSet(wire') /\ new \in ToSet(wire') \cup missed'
        /\ missed \subseteq missed'
    <2>1. CASE wire' = wire /\ missed' = missed \cup {new}
      BY <2>1, <1>6
    <2>2. CASE wire' = Append(wire, new) /\ missed' = missed
      <3>1. /\ wire' \in Seq(1..new) /\ Len(wire') = Len(wire) + 1 /\ wire'[Len(wire) + 1] = new
            /\ \A i \in 1..Len(wire) : wire'[i] = wire[i]
        BY <2>2, <1>4, <1>6
      <3>2. DOMAIN wire = 1..Len(wire) /\ DOMAIN wire' = 1..(Len(wire) + 1)
        BY <1>2, <3>1
      <3>. QED BY <2>2, <1>3, <3>1, <3>2 DEF ToSet
    <2>. QED BY <1>1, <2>1, <2>2
  <1>8. BrainTypes'
    <2>1. brain' \in [pc : {"down", "waiting", "thinking", "creating", "marking", "failing"},
                      event : 0..new]
      BY <1>2, <1>4
    <2>2. processed' \subseteq 1..new /\ missed' \subseteq 1..new /\ unmarked' \subseteq 1..new
      BY <1>1, <1>2, <1>4
    <2>. QED BY <1>3, <1>5, <1>7, <2>1, <2>2 DEF BrainTypes
  <1>9. ASSUME NEW e \in 1..new, drafts'[e] > 0 PROVE e \in 1..Len(drafts) /\ drafts'[e] = drafts[e]
    BY <1>2, <1>4, <1>5, <1>9
  <1>10. DraftsAreMarked'
    BY <1>5, <1>9 DEF BrainInv, DraftsAreMarked
  <1>11. OneDraftPerEvent'
    <2>1. ASSUME NEW e \in 1..new PROVE drafts'[e] <= 1 \/ e \in unmarked
      <3>1. CASE e \in 1..Len(events)
        BY <3>1, <1>2, <1>5 DEF BrainInv, OneDraftPerEvent
      <3>2. CASE e = new
        BY <3>2, <1>5
      <3>. QED BY <3>1, <3>2, <1>4
    <2>. QED BY <2>1, <1>5 DEF OneDraftPerEvent
  <1>12. EventsAreAccountedFor'
    <2>1. ASSUME NEW e \in 1..new
          PROVE  \/ e \in ToSet(wire') \cup processed \cup missed' \cup unmarked
                 \/ brain.pc \notin {"down", "waiting"} /\ brain.event = e
      <3>1. CASE e \in 1..Len(events)
        BY <3>1, <1>7 DEF BrainInv, EventsAreAccountedFor
      <3>2. CASE e = new
        BY <3>2, <1>7
      <3>. QED BY <3>1, <3>2, <1>4
    <2>. QED BY <2>1, <1>3 DEF EventsAreAccountedFor
  <1>. QED BY <1>8, <1>10, <1>11, <1>12 DEF BrainInv

(* Every step keeps the brain's half of the invariant.                      *)
LEMMA BrainStep ==
  ASSUME RelayInv, BrainInv, [Next]_vars
  PROVE  BrainInv'
  <1>1. RelayTypes /\ Len(events) \in Nat
    BY DEF RelayInv, RelayTypes
  <1>2. ASSUME UNCHANGED <<events, streamVars, brainVars>> PROVE BrainInv'
    BY <1>2, StreamStill DEF streamVars, brainVars
  <1>3. CASE \/ \E kind \in Kinds \ {"late"} : MessageArrives(kind)
             \/ \E r \in 1..Len(chat) : TextArrives(r)
    BY <1>2, <1>3 DEF MessageArrives, TextArrives
  <1>4. CASE Relay
    BY <1>2, <1>4 DEF Relay, Poll, PostInbound, PostMalformed, PostRefused
  <1>5. CASE RelayStart \/ BridgeStart \/ RedisStart
    BY <1>2, <1>5 DEF RelayStart, BridgeStart, RedisStart
  <1>6. CASE RelayStartUnreadable \/ ConnectionLost \/ ProtocolError \/ RelayCrash
    BY <1>2, <1>6 DEF RelayStartUnreadable, ConnectionLost, ProtocolError, RelayCrash
  <1>7. ASSUME NEW h \in posts, WriteFails(h) \/ PublishFails(h) \/ AnswerInbound(h)
        PROVE  BrainInv'
    BY <1>2, <1>7 DEF WriteFails, PublishFails, AnswerInbound
  <1>8. ASSUME NEW h \in posts, PublishInbound(h) \/ PublishUnanswered(h) PROVE BrainInv'
    <2>1. UNCHANGED <<brain, processed, unmarked>>
      BY <1>8 DEF PublishInbound, PublishUnanswered
    <2>2. (h.event = 0 /\ Mint(h)) \/ (h.event # 0 /\ Repeat(h))
      BY <1>8 DEF PublishInbound, PublishUnanswered, Publish
    <2>3. CASE h.event = 0 /\ Mint(h)
      BY <1>1, <2>1, <2>3, MintKeeps
    <2>4. CASE h.event # 0 /\ Repeat(h)
      BY <1>1, <2>1, <2>4, RepeatKeeps
    <2>. QED BY <2>2, <2>3, <2>4
  <1>9. CASE Stream
    <2>1. UNCHANGED <<events, wire, missed, brain, processed, unmarked, drafts>>
      BY <1>9 DEF Stream, BrainConnect, Subscribe, SubscribeFails, NoticeHangup, brainVars
    <2>. QED BY <2>1, StreamStill
  <1>10. CASE RedisCrash
    <2>1. UNCHANGED <<events, wire, missed, brain, processed, unmarked, drafts>>
      BY <1>10 DEF RedisCrash, brainVars
    <2>. QED BY <2>1, StreamStill
  <1>11. CASE ReceiveEvent
    BY <1>1, <1>11, ReceiveKeeps
  <1>12. CASE Think
    <2>1. PICK next \in {"creating", "marking", "failing"} : Decide(next)
      BY <1>12 DEF Think
    <2>2. /\ brain.pc = "thinking" /\ brain' = Work(next)
          /\ UNCHANGED <<events, wire, missed, processed, unmarked, drafts>>
      BY <2>1 DEF Decide, streamVars
    <2>. QED BY <2>2, WorkKeeps
  <1>13. CASE CreateDraft(TRUE) \/ CreateDraft(FALSE)
    BY <1>13, CreateKeeps
  <1>14. CASE CreateFails
    <2>1. /\ brain.pc = "creating" /\ brain' = Work("failing")
          /\ UNCHANGED <<events, wire, missed, processed, unmarked, drafts>>
      BY <1>14 DEF CreateFails, AfterCreate, streamVars
    <2>. QED BY <2>1, WorkKeeps
  <1>15. CASE MarkProcessed
    <2>1. /\ brain.pc \in {"marking", "failing"} /\ brain' = Waiting
          /\ processed' = processed \cup {brain.event}
          /\ UNCHANGED <<events, wire, missed, unmarked, drafts>>
      BY <1>15 DEF MarkProcessed, Marked, streamVars
    <2>. QED BY <1>1, <2>1, DoneKeeps
  <1>20. CASE MarkFails
    <2>1. /\ UNCHANGED <<events, wire, missed, processed, drafts>>
          /\ \/ brain.pc = "marking" /\ brain' = Work("failing") /\ unmarked' = unmarked
             \/ /\ brain.pc = "failing" /\ brain' = Waiting
                /\ unmarked' = unmarked \cup {brain.event}
      BY <1>20 DEF MarkFails, streamVars
    <2>2. CASE brain.pc = "marking"
      BY <2>1, <2>2, WorkKeeps
    <2>3. CASE brain.pc = "failing"
      BY <1>1, <2>1, <2>3, DoneKeeps
    <2>. QED BY <2>1, <2>2, <2>3
  <1>21. CASE LookupFails
    BY <1>1, <1>21, LookupFailsKeeps
  <1>16. CASE SocketLost \/ BridgeCrash
    <2>1. Hangup /\ UNCHANGED <<events, brain, processed, unmarked, drafts>>
      BY <1>16 DEF SocketLost, BridgeCrash, brainVars
    <2>. QED BY <1>1, <2>1, HangupKeeps
  <1>17. CASE BrainCrash
    <2>1. /\ brain.pc # "down" /\ brain' = [Waiting EXCEPT !.pc = "down"]
          /\ wire' = <<>> /\ missed' = missed \cup ToSet(wire)
          /\ unmarked' = IF brain.pc = "waiting" THEN unmarked ELSE unmarked \cup {brain.event}
          /\ UNCHANGED <<events, processed, drafts>>
      BY <1>17 DEF BrainCrash
    <2>2. CASE brain.pc = "waiting"
      BY <1>1, <2>1, <2>2, DoneKeeps
    <2>3. CASE brain.pc # "waiting"
      BY <1>1, <2>1, <2>3, DoneKeeps
    <2>. QED BY <2>2, <2>3
  <1>18. CASE BrainStart
    BY <1>18, BrainStartKeeps
  <1>19. CASE UNCHANGED vars
    BY <1>2, <1>19 DEF vars, streamVars, brainVars
  <1>. QED
    BY <1>3, <1>4, <1>5, <1>6, <1>7, <1>8, <1>9, <1>10, <1>11, <1>12, <1>13, <1>14, <1>15, <1>16,
       <1>17, <1>18, <1>19, <1>20, <1>21, [Next]_vars
    DEF Next, Brain, Failure, Restart, Handler, HandlerFaults

----------------------------------------------------------------------------
(* The theorems                                                             *)

(* The invariant holds however often relay, bridge, Redis and brain crash   *)
(* and start again between poll, POST, publish, delivery and draft.         *)
THEOREM InboundInductive == Spec => []InboundInv
  <1>1. Init => InboundInv
    BY RelayInit, BrainInit DEF InboundInv
  <1>2. InboundInv /\ [Next]_vars => InboundInv'
    BY RelayStep, BrainStep DEF InboundInv
  <1>. QED BY <1>1, <1>2, PTL DEF Spec

(* The cursor never passes a message in silence: what the relay has gone    *)
(* past is on the bus or was given up after the last attempt.               *)
THEOREM NothingIsSkipped == Spec => []NothingSkipped
  <1>1. InboundInv => NothingSkipped
    <2>. SUFFICES ASSUME RelayTypes, RelayIsPlaced, PassedAreHandled,
                         NEW r \in 1..Len(chat), chat[r] = "text", backlog < r, r <= LastSeen
                  PROVE  Copies(r) # {} \/ r \in givenUp
      BY DEF InboundInv, RelayInv, NothingSkipped
    <2>1. r \notin relay.batch
      BY DEF RelayTypes, RelayIsPlaced, LastSeen
    <2>. QED BY <2>1 DEF PassedAreHandled, Passed, Handled
  <1>. QED BY <1>1, InboundInductive, PTL

(* A message is on the bus once, and once more at most for each fault.      *)
THEOREM CopiesAreBounded == Spec => []DuplicatesAreBounded
  <1>1. InboundInv => DuplicatesAreBounded
    <2>. SUFFICES ASSUME RelayInv, NEW r \in 1..Len(chat)
                  PROVE  Cardinality(Copies(r)) <= 1 + faults
      BY DEF InboundInv, DuplicatesAreBounded
    <2>1. Cardinality(Copies(r)) \in Nat /\ Cardinality(Publishing(r)) \in Nat
      BY CountsAreNumbers DEF RelayInv, CopiesArePaid
    <2>2. Cardinality(Copies(r)) + Cardinality(Publishing(r)) + (IF Due(r) THEN 1 ELSE 0) <= 1 + faults
      BY DEF RelayInv, CopiesArePaid
    <2>3. faults \in Int
      BY InboundAssumption DEF RelayInv, RelayTypes
    <2>. HIDE DEF Due, Publishing, Copies
    <2>. QED BY <2>1, <2>2, <2>3
  <1>. QED BY <1>1, InboundInductive, PTL

(* Every event published is on the wire, in the brain's hands, processed,   *)
(* known as missed or as let go without a mark, across hangups, a crash of  *)
(* the brain and a state.db that fails at the lookup or at either mark.     *)
THEOREM EventsAreKept == Spec => []EventsAreAccountedFor
  <1>1. InboundInv => EventsAreAccountedFor
    BY DEF InboundInv, BrainInv
  <1>. QED BY <1>1, InboundInductive, PTL

(* One event yields one draft at most: neither an answer that is lost nor a *)
(* second delivery makes the brain create another one, as long as it never  *)
(* let go of the event without a mark.                                      *)
THEOREM OneDraft == Spec => []OneDraftPerEvent
  <1>1. InboundInv => OneDraftPerEvent
    BY DEF InboundInv, BrainInv
  <1>. QED BY <1>1, InboundInductive, PTL
=============================================================================
