---------------------------- MODULE Email_proofs ----------------------------
(***************************************************************************)
(* What is proved of Email, for any messages, accounts, calls and threads   *)
(* of the bridge: every copy that left is known to its caller or uncertain  *)
(* for a reason; the detail of a thread is the thread while nothing was     *)
(* deleted; and the list shows the newest threads, each once and with its   *)
(* number of messages, however the replies branch.                          *)
(***************************************************************************)
EXTENDS Email, SequenceTheorems, FiniteSetTheorems, TLAPS

(* The mailbox: its UIDs were given out, to messages that exist.            *)
MailboxInv ==
    /\ mail \in [Mids -> Messages \cup {None}]
    /\ idOf \in Seq(Mids \cup {NoId})
    /\ \A i \in 1..Len(idOf) : idOf[i] # NoId => idOf[i] \in Known
    /\ inbox \in Seq(1..Len(idOf))

(* The sending side: a worker thread knows its job, and has an id from the  *)
(* moment the server took the message until it ends; a call has an answer   *)
(* only when it is over, and a thread only while it waits.                  *)
SenderInv ==
    /\ sender \in [Workers -> [pc : {"idle", "connect", "sent"},
                               job : Jobs \cup {None}, mid : Mids \cup {None}]]
    /\ job \in [Jobs -> [pc : {"new", "waiting", "failed", "refused", "sent"},
                         worker : Workers \cup {None}, answer : Mids \cup {None},
                         unsure : SUBSET Mids]]
    /\ \A w \in Workers :
          /\ sender[w].pc # "idle" => sender[w].job \in Jobs
          /\ sender[w].pc = "sent" => /\ sender[w].mid \in Known
                                      /\ mail[sender[w].mid].job = sender[w].job
          /\ sender[w].pc # "sent" => sender[w].mid = None
    /\ \A j \in Jobs :
          /\ job[j].answer # None => job[j].pc = "sent"
          /\ job[j].worker # None => job[j].pc = "waiting"

(* The members of the thread that the request asked for, by place.          *)
Members ==
    {n \in DOMAIN reader.view :
        reader.root \in {At(reader.view, n)} \cup RefsOf(At(reader.view, n))}

Untouched == \A n \in DOMAIN reader.view : reader.view[n] = n

(* The request that reads a thread: while places are UIDs, each member was  *)
(* read, is still to be read, was deleted, or could not be read.            *)
Reading ==
    /\ reader.view \in Seq(1..Len(idOf))
    /\ reader.got \in Seq(Mids \cup {NoId})
    /\ Untouched =>
          /\ reader.found \subseteq Members
          /\ \A x \in Got : \E n \in Members : x = At(reader.view, n)
          /\ \A n \in Members :
                n \in reader.found \/ Missed(n) \/ At(reader.view, n) \in Got

ReaderInv ==
    /\ reader = [pc |-> reader.pc, kind |-> reader.kind, root |-> reader.root,
                 view |-> reader.view, ids |-> reader.ids, found |-> reader.found,
                 got |-> reader.got, lost |-> reader.lost, status |-> reader.status]
    /\ reader.pc = "connect" => reader.got = <<>> /\ reader.ids = <<>>
    /\ reader.kind = "detail" => reader.ids = <<>>
    /\ reader.kind = "detail" /\ reader.pc \in {"connect", "fetch"} => reader.root \in Known
    /\ reader.kind = "detail" /\ (reader.pc = "fetch" \/ Answered("detail")) =>
          reader.root \in Known /\ Reading
    /\ Answered("detail") => reader.found = {}

EmailInv == MailboxInv /\ SenderInv /\ CopiesAreConfirmed /\ ReaderInv

----------------------------------------------------------------------------
(* The mailbox                                                              *)

LEMMA RemovedAt ==
  ASSUME NEW S, NEW s \in Seq(S), NEW n \in 1..Len(s)
  PROVE  /\ RemoveAt(s, n) \in Seq(S)
         /\ \A i \in 1..Len(RemoveAt(s, n)) :
               /\ (IF i < n THEN i ELSE i + 1) \in 1..Len(s)
               /\ RemoveAt(s, n)[i] = s[IF i < n THEN i ELSE i + 1]
  <1>. DEFINE a == SubSeq(s, 1, n - 1)
              b == SubSeq(s, n + 1, Len(s))
  <1>0. Len(s) \in Nat /\ \A i \in 1..Len(s) : s[i] \in S
    OBVIOUS
  <1>1. /\ a \in Seq(S) /\ Len(a) = n - 1
        /\ \A i \in 1..(n - 1) : a[i] = s[i]
    <2>1. \A i \in 1..(n - 1) : s[i] \in S
      BY <1>0
    <2>. QED BY <2>1, SubSeqProperties
  <1>2. /\ b \in Seq(S) /\ Len(b) = Len(s) - n
        /\ \A i \in 1..(Len(s) - n) : b[i] = s[n + i]
    <2>1. \A i \in (n + 1)..Len(s) : s[i] \in S
      BY <1>0
    <2>2. /\ b \in Seq(S) /\ Len(b) = IF n + 1 <= Len(s) THEN Len(s) - (n + 1) + 1 ELSE 0
          /\ \A i \in 1..(Len(s) - (n + 1) + 1) : b[i] = s[n + 1 + i - 1]
      BY <1>0, <2>1, SubSeqProperties
    <2>. QED BY <1>0, <2>2
  <1>3. RemoveAt(s, n) = a \o b
    BY DEF RemoveAt
  <1>. HIDE DEF a, b
  <1>4. /\ a \o b \in Seq(S) /\ Len(a \o b) = Len(a) + Len(b)
        /\ \A i \in 1..(Len(a) + Len(b)) :
              (a \o b)[i] = IF i <= Len(a) THEN a[i] ELSE b[i - Len(a)]
    BY <1>1, <1>2, ConcatProperties
  <1>5. ASSUME NEW i \in 1..Len(a \o b)
        PROVE  /\ (IF i < n THEN i ELSE i + 1) \in 1..Len(s)
               /\ (a \o b)[i] = s[IF i < n THEN i ELSE i + 1]
    <2>0. n \in Nat /\ Len(a) = n - 1 /\ Len(b) = Len(s) - n /\ i \in 1..(Len(s) - 1)
      BY <1>0, <1>1, <1>2, <1>4
    <2>1. CASE i < n
      BY <1>0, <1>1, <1>4, <2>0, <2>1
    <2>2. CASE ~(i < n)
      <3>1. /\ i - (n - 1) \in 1..(Len(s) - n) /\ n + (i - (n - 1)) = i + 1
            /\ i + 1 \in 1..Len(s) /\ ~(i <= n - 1)
        BY <1>0, <2>0, <2>2
      <3>2. (a \o b)[i] = b[i - (n - 1)]
        BY <1>4, <2>0, <3>1
      <3>. QED BY <1>2, <2>2, <3>1, <3>2
    <2>. QED BY <2>1, <2>2
  <1>. QED BY <1>3, <1>4, <1>5

(* Known messages stay, with their references; so do the ids of the UIDs,   *)
(* and a UID that is gone is never given out again.                         *)
Grown ==
    /\ \A m \in Known : mail'[m] = mail[m]
    /\ Known \subseteq Known'
    /\ Len(idOf) <= Len(idOf') /\ \A i \in 1..Len(idOf) : idOf'[i] = idOf[i]
    /\ \A u \in 1..Len(idOf) : Contains(inbox', u) => Contains(inbox, u)

LEMMA ArrivalKeeps ==
  ASSUME MailboxInv, NEW m \in Mids \cup {NoId}, Arrive(m),
         mail' \in [Mids -> Messages \cup {None}], m # NoId => mail'[m] # None,
         \A x \in Known : mail'[x] = mail[x]
  PROVE  MailboxInv' /\ Grown
  <1>1. /\ idOf \in Seq(Mids \cup {NoId}) /\ Len(idOf) \in Nat
        /\ idOf' = Append(idOf, m) /\ inbox' = Append(inbox, Len(idOf) + 1)
        /\ inbox \in Seq(1..Len(idOf)) /\ Len(inbox) \in Nat
    BY DEF MailboxInv, Arrive
  <1>2. /\ idOf' \in Seq(Mids \cup {NoId}) /\ Len(idOf') = Len(idOf) + 1
        /\ \A i \in 1..Len(idOf) : idOf'[i] = idOf[i]
        /\ idOf'[Len(idOf) + 1] = m
    BY <1>1
  <1>3. /\ Len(inbox') = Len(inbox) + 1
        /\ \A i \in 1..Len(inbox) : inbox'[i] = inbox[i] /\ inbox[i] \in 1..Len(idOf)
        /\ inbox'[Len(inbox) + 1] = Len(idOf) + 1
    BY <1>1
  <1>4. inbox' \in Seq(1..Len(idOf'))
    <2>1. inbox \in Seq(1..Len(idOf'))
      <3>1. 1..Len(idOf) \subseteq 1..Len(idOf')
        BY <1>1, <1>2
      <3>. QED BY <1>1, <3>1, SeqMonotonic
    <2>2. Len(idOf) + 1 \in 1..Len(idOf')
      BY <1>1, <1>2
    <2>. QED BY <1>1, <2>1, <2>2
  <1>5. Known \subseteq Known'
    BY DEF Known
  <1>6. \A i \in 1..Len(idOf') : idOf'[i] # NoId => idOf'[i] \in Known'
    <2>1. \A i \in 1..Len(idOf) : idOf'[i] # NoId => idOf'[i] \in Known'
      BY <1>2, <1>5 DEF MailboxInv
    <2>2. m # NoId => m \in Known'
      BY DEF Known
    <2>3. \A i \in 1..Len(idOf') : i \in 1..Len(idOf) \/ i = Len(idOf) + 1
      BY <1>1, <1>2
    <2>. QED BY <1>2, <2>1, <2>2, <2>3
  <1>7. \A u \in 1..Len(idOf) : Contains(inbox', u) => Contains(inbox, u)
    <2>1. \A i \in 1..Len(inbox') : i \in 1..Len(inbox) \/ i = Len(inbox) + 1
      BY <1>1, <1>3
    <2>. QED BY <1>1, <1>3, <2>1 DEF Contains
  <1>. QED BY <1>1, <1>2, <1>4, <1>5, <1>6, <1>7 DEF MailboxInv, Grown

(* Which steps change the mailbox, the reader, and the sending side.        *)
MailboxSteps ==
    \/ UNCHANGED <<mail, inbox, idOf>>
    \/ UNCHANGED <<reader, sender, job>>
       /\ \/ \E m \in Mids : ReceiveOwn(m)
          \/ \E m \in Mids, parent \in Mids \cup {None} : ReceiveMail(m, parent)
          \/ ReceiveNameless
          \/ \E n \in 1..MaxUids : Expunge(n)
    \/ /\ UNCHANGED reader
       /\ \E w \in Workers, m \in Mids, parent \in Mids \cup {None}, to \in SUBSET Recipients :
             HandOver(w, m, parent, to)

ReaderSteps ==
    \/ UNCHANGED reader
    \/ /\ UNCHANGED <<mail, inbox, idOf, sender, job>>
       /\ \/ \E a \in Accounts : ListThreads(a)
          \/ \E a \in Accounts, m \in Mids \cup {NoId} : GetThread(a, m)
          \/ \E status \in {500, 502} : ImapFails(status)
          \/ BadCriteria \/ AskThreads \/ ThreadRefused \/ SearchThread
          \/ BrokenOff \/ ReadDone
          \/ \E lost \in SUBSET (1..MaxUids) : ReadThread(lost)
          \/ \E lost \in SUBSET (1..MaxUids), u \in 1..MaxUids : ReadMessage(u, lost)

SenderSteps ==
    \/ UNCHANGED <<sender, job>>
    \/ \E a \in Accounts, j \in Jobs, w \in Workers, valid \in BOOLEAN : SendEmail(j, w, a, valid)
    \/ \E w \in Workers :
          \/ ConnectFails(w) \/ ReplyLost(w) \/ Handed(w)
          \/ \E m \in Mids, parent \in Mids \cup {None}, to \in SUBSET Recipients :
                HandOver(w, m, parent, to)
    \/ \E j \in Jobs : LosePatience(j)

LEMMA Frames ==
  ASSUME [Next]_vars
  PROVE  MailboxSteps /\ ReaderSteps /\ SenderSteps
  <1>1. /\ \A m \in Mids : ReceiveOwn(m) => UNCHANGED <<reader, sender, job>>
        /\ \A m \in Mids, parent \in Mids \cup {None} :
              ReceiveMail(m, parent) => UNCHANGED <<reader, sender, job>>
        /\ ReceiveNameless => UNCHANGED <<reader, sender, job>>
        /\ \A n \in 1..MaxUids : Expunge(n) => UNCHANGED <<reader, sender, job>>
    BY DEF ReceiveOwn, ReceiveMail, ReceiveNameless, Expunge
  <1>2. /\ \A a \in Accounts :
              /\ ListThreads(a) => UNCHANGED <<mail, inbox, idOf, sender, job>>
              /\ \A m \in Mids \cup {NoId} :
                    GetThread(a, m) => UNCHANGED <<mail, inbox, idOf, sender, job>>
        /\ \A status \in {500, 502} :
              ImapFails(status) => UNCHANGED <<mail, inbox, idOf, sender, job>>
        /\ BadCriteria \/ AskThreads \/ ThreadRefused =>
              UNCHANGED <<mail, inbox, idOf, sender, job>>
        /\ SearchThread \/ BrokenOff \/ ReadDone => UNCHANGED <<mail, inbox, idOf, sender, job>>
        /\ \A lost \in SUBSET (1..MaxUids) :
              /\ ReadThread(lost) => UNCHANGED <<mail, inbox, idOf, sender, job>>
              /\ \A u \in 1..MaxUids :
                    ReadMessage(u, lost) => UNCHANGED <<mail, inbox, idOf, sender, job>>
    <2>1. \A a \in Accounts :
             /\ ListThreads(a) => UNCHANGED <<mail, inbox, idOf, sender, job>>
             /\ \A m \in Mids \cup {NoId} :
                   GetThread(a, m) => UNCHANGED <<mail, inbox, idOf, sender, job>>
      BY DEF ListThreads, GetThread
    <2>2. \A status \in {500, 502} :
             ImapFails(status) => UNCHANGED <<mail, inbox, idOf, sender, job>>
      BY DEF ImapFails
    <2>3. BadCriteria \/ AskThreads \/ ThreadRefused => UNCHANGED <<mail, inbox, idOf, sender, job>>
      BY DEF BadCriteria, AskThreads, ThreadRefused
    <2>4. SearchThread \/ BrokenOff \/ ReadDone => UNCHANGED <<mail, inbox, idOf, sender, job>>
      BY DEF SearchThread, BrokenOff, ReadDone
    <2>5. \A lost \in SUBSET (1..MaxUids) :
             /\ ReadThread(lost) => UNCHANGED <<mail, inbox, idOf, sender, job>>
             /\ \A u \in 1..MaxUids :
                   ReadMessage(u, lost) => UNCHANGED <<mail, inbox, idOf, sender, job>>
      BY DEF ReadThread, ReadMessage
    <2>. QED BY <2>1, <2>2, <2>3, <2>4, <2>5
  <1>3. /\ \A a \in Accounts, j \in Jobs, w \in Workers, valid \in BOOLEAN :
              SendEmail(j, w, a, valid) => UNCHANGED <<mail, inbox, idOf, reader>>
        /\ \A w \in Workers : ConnectFails(w) \/ ReplyLost(w) \/ Handed(w) =>
              UNCHANGED <<mail, inbox, idOf, reader>>
        /\ \A j \in Jobs : LosePatience(j) => UNCHANGED <<mail, inbox, idOf, reader>>
    BY DEF SendEmail, ConnectFails, ReplyLost, Handed, LosePatience
  <1>4. \A w \in Workers, m \in Mids, parent \in Mids \cup {None}, to \in SUBSET Recipients :
           HandOver(w, m, parent, to) => UNCHANGED reader
    BY DEF HandOver
  <1>5. UNCHANGED vars => UNCHANGED <<mail, inbox, idOf, reader, sender, job>>
    BY DEF vars
  <1>6. CASE \E m \in Mids :
                ReceiveOwn(m) \/ \E parent \in Mids \cup {None} : ReceiveMail(m, parent)
    BY <1>1, <1>6 DEF MailboxSteps, ReaderSteps, SenderSteps
  <1>7. CASE ReceiveNameless
    BY <1>1, <1>7 DEF MailboxSteps, ReaderSteps, SenderSteps
  <1>8. CASE \E n \in 1..MaxUids : Expunge(n)
    BY <1>1, <1>8 DEF MailboxSteps, ReaderSteps, SenderSteps
  <1>9. CASE \E a \in Accounts :
                \/ ListThreads(a)
                \/ \E m \in Mids \cup {NoId} : GetThread(a, m)
                \/ \E j \in Jobs, w \in Workers, valid \in BOOLEAN : SendEmail(j, w, a, valid)
    BY <1>2, <1>3, <1>9 DEF MailboxSteps, ReaderSteps, SenderSteps
  <1>10. CASE \E status \in {500, 502} : ImapFails(status)
    BY <1>2, <1>10 DEF MailboxSteps, ReaderSteps, SenderSteps
  <1>11. CASE \/ BadCriteria \/ AskThreads \/ ThreadRefused \/ SearchThread
              \/ BrokenOff \/ ReadDone
    BY <1>2, <1>11 DEF MailboxSteps, ReaderSteps, SenderSteps
  <1>12. CASE \E lost \in SUBSET (1..MaxUids) :
                 ReadThread(lost) \/ \E u \in 1..MaxUids : ReadMessage(u, lost)
    BY <1>2, <1>12 DEF MailboxSteps, ReaderSteps, SenderSteps
  <1>13. CASE \E w \in Workers :
                 \/ ConnectFails(w) \/ ReplyLost(w) \/ Handed(w)
                 \/ \E m \in Mids, parent \in Mids \cup {None}, to \in SUBSET Recipients :
                       HandOver(w, m, parent, to)
    BY <1>3, <1>4, <1>13 DEF MailboxSteps, ReaderSteps, SenderSteps
  <1>14. CASE \E j \in Jobs : LosePatience(j)
    BY <1>3, <1>14 DEF MailboxSteps, ReaderSteps, SenderSteps
  <1>15. CASE UNCHANGED vars
    BY <1>5, <1>15 DEF MailboxSteps, ReaderSteps, SenderSteps
  <1>. QED BY <1>6, <1>7, <1>8, <1>9, <1>10, <1>11, <1>12, <1>13, <1>14, <1>15 DEF Next

LEMMA MailboxStep ==
  ASSUME MailboxInv, SenderInv, [Next]_vars
  PROVE  MailboxInv' /\ Grown
  <1>0. /\ mail \in [Mids -> Messages \cup {None}] /\ idOf \in Seq(Mids \cup {NoId})
        /\ inbox \in Seq(1..Len(idOf)) /\ Len(idOf) \in Nat
    BY DEF MailboxInv
  <1>1. ASSUME UNCHANGED <<mail, inbox, idOf>>
        PROVE  MailboxInv' /\ Grown
    BY <1>0, <1>1 DEF MailboxInv, Grown, Known, Contains
  <1>2. ASSUME NEW m \in Mids, ReceiveOwn(m)
        PROVE  MailboxInv' /\ Grown
    BY <1>0, <1>2, ArrivalKeeps DEF ReceiveOwn, Known
  <1>3. ASSUME ReceiveNameless
        PROVE  MailboxInv' /\ Grown
    BY <1>0, <1>3, ArrivalKeeps DEF ReceiveNameless
  <1>4. ASSUME NEW m \in Mids, NEW parent \in Mids \cup {None}, ReceiveMail(m, parent)
        PROVE  MailboxInv' /\ Grown
    <2>. DEFINE r == IF parent = None THEN {} ELSE {parent} \cup mail[parent].refs
                e == [job |-> None, to |-> Recipients, refs |-> r]
    <2>1. r \subseteq Mids
      BY <1>0, <1>4 DEF ReceiveMail, Known, Messages
    <2>2. e \in Messages
      <3>. HIDE DEF r
      <3>. QED BY <2>1 DEF Messages
    <2>3. mail' = [mail EXCEPT ![m] = e] /\ mail[m] = None /\ Arrive(m)
      BY <1>4 DEF ReceiveMail
    <2>. HIDE DEF e
    <2>4. mail' \in [Mids -> Messages \cup {None}] /\ mail'[m] # None
      BY <1>0, <2>2, <2>3, EmailAssumption
    <2>5. \A x \in Known : mail'[x] = mail[x]
      BY <1>0, <2>3 DEF Known
    <2>. QED BY <2>3, <2>4, <2>5, ArrivalKeeps
  <1>5. ASSUME NEW n \in 1..MaxUids, Expunge(n)
        PROVE  MailboxInv' /\ Grown
    <2>1. /\ n \in 1..Len(inbox) /\ inbox' = RemoveAt(inbox, n) /\ UNCHANGED <<mail, idOf>>
      BY <1>0, <1>5 DEF Expunge
    <2>2. /\ inbox' \in Seq(1..Len(idOf))
          /\ \A i \in 1..Len(inbox') : \E k \in 1..Len(inbox) : inbox'[i] = inbox[k]
      <3>. DEFINE S == 1..Len(idOf)
      <3>1. inbox \in Seq(S)
        BY <1>0
      <3>. HIDE DEF S
      <3>2. /\ RemoveAt(inbox, n) \in Seq(S)
            /\ \A i \in 1..Len(RemoveAt(inbox, n)) :
                  \E k \in 1..Len(inbox) : RemoveAt(inbox, n)[i] = inbox[k]
        <4>1. /\ RemoveAt(inbox, n) \in Seq(S)
              /\ \A i \in 1..Len(RemoveAt(inbox, n)) :
                    /\ (IF i < n THEN i ELSE i + 1) \in 1..Len(inbox)
                    /\ RemoveAt(inbox, n)[i] = inbox[IF i < n THEN i ELSE i + 1]
          BY <2>1, <3>1, RemovedAt
        <4>. QED BY <4>1
      <3>. QED BY <2>1, <3>2 DEF S
    <2>3. MailboxInv'
      BY <1>0, <2>1, <2>2 DEF MailboxInv, Known
    <2>4. Grown
      <3>1. \A u : Contains(inbox', u) => Contains(inbox, u)
        BY <2>2 DEF Contains
      <3>. QED BY <1>0, <2>1, <3>1 DEF Grown, Known
    <2>. QED BY <2>3, <2>4
  <1>6. ASSUME NEW w \in Workers, NEW m \in Mids, NEW parent \in Mids \cup {None},
               NEW to \in SUBSET Recipients, HandOver(w, m, parent, to)
        PROVE  MailboxInv' /\ Grown
    <2>. DEFINE e == Composed(sender[w].job, parent, to)
    <2>1. e \in Messages
      BY <1>6 DEF SenderInv, HandOver, Composed, Messages
    <2>2. mail' = [mail EXCEPT ![m] = e] /\ mail[m] = None /\ UNCHANGED <<inbox, idOf>>
      BY <1>6 DEF HandOver
    <2>. HIDE DEF e
    <2>3. mail' \in [Mids -> Messages \cup {None}] /\ \A x \in Known : mail'[x] = mail[x]
      BY <1>0, <2>1, <2>2 DEF Known
    <2>. QED BY <1>0, <2>2, <2>3 DEF MailboxInv, Grown, Known, Contains
  <1>. QED BY <1>1, <1>2, <1>3, <1>4, <1>5, <1>6, Frames
        DEF MailboxSteps

----------------------------------------------------------------------------
(* The sending side                                                         *)

Senders == [pc : {"idle", "connect", "sent"}, job : Jobs \cup {None}, mid : Mids \cup {None}]
Calls == [pc : {"new", "waiting", "failed", "refused", "sent"}, worker : Workers \cup {None},
          answer : Mids \cup {None}, unsure : SUBSET Mids]

(* A worker thread ends: its message, if the server took one, is known to   *)
(* the caller that still waits, or is uncertain.                            *)
LEMMA FinishKeeps ==
  ASSUME MailboxInv, SenderInv, CopiesAreConfirmed, UNCHANGED mail, NEW w \in Workers,
         NEW pc \in {"failed", "sent"}, NEW mid \in Mids \cup {None}, NEW unsure \in SUBSET Mids,
         sender[w].pc # "idle", Finish(w, pc, mid, unsure),
         pc = "failed" => mid = None,
         sender[w].pc = "sent" => sender[w].mid \in unsure \cup {mid}
  PROVE  SenderInv' /\ CopiesAreConfirmed'
  <1>. DEFINE j == sender[w].job
              done == [pc |-> pc, worker |-> None, answer |-> mid,
                       unsure |-> job[j].unsure \cup unsure]
              more == job[j].unsure \cup ((unsure \cup {mid}) \ {None})
              late == [job[j] EXCEPT !.unsure = more]
  <1>0. sender \in [Workers -> Senders] /\ job \in [Jobs -> Calls]
    BY DEF SenderInv, Senders, Calls
  <1>1. j \in Jobs /\ job[j] \in Calls
    BY <1>0 DEF SenderInv
  <1>2. done \in Calls /\ done.answer = mid /\ done.unsure = job[j].unsure \cup unsure
        /\ done.pc = pc /\ done.worker = None
    BY <1>1 DEF Calls
  <1>3. /\ late \in Calls /\ late.answer = job[j].answer /\ late.unsure = more
        /\ late.pc = job[j].pc /\ late.worker = job[j].worker
    <2>1. more \in SUBSET Mids
      BY <1>1 DEF Calls
    <2>. HIDE DEF more
    <2>. QED BY <1>1, <2>1 DEF Calls
  <1>4. /\ sender' = [sender EXCEPT ![w] = NoSender]
        /\ job' = [job EXCEPT ![j] = IF job[j].worker = w THEN done ELSE late]
    BY DEF Finish
  <1>5. NoSender \in Senders /\ NoSender.pc = "idle" /\ NoSender.mid = None
    BY DEF NoSender, Senders
  <1>. HIDE DEF done, late
  <1>6. /\ sender' \in [Workers -> Senders] /\ job' \in [Jobs -> Calls]
        /\ sender'[w] = NoSender /\ \A v \in Workers : v # w => sender'[v] = sender[v]
        /\ job'[j] = (IF job[j].worker = w THEN done ELSE late)
        /\ \A k \in Jobs : k # j => job'[k] = job[k]
    BY <1>0, <1>1, <1>2, <1>3, <1>4, <1>5
  <1>7. SenderInv'
    <2>1. \A v \in Workers :
             /\ sender'[v].pc # "idle" => sender'[v].job \in Jobs
             /\ sender'[v].pc = "sent" => /\ sender'[v].mid \in Known
                                          /\ mail[sender'[v].mid].job = sender'[v].job
             /\ sender'[v].pc # "sent" => sender'[v].mid = None
      BY <1>5, <1>6 DEF SenderInv
    <2>2. \A k \in Jobs :
             /\ job'[k].answer # None => job'[k].pc = "sent"
             /\ job'[k].worker # None => job'[k].pc = "waiting"
      BY <1>2, <1>3, <1>6 DEF SenderInv
    <2>. QED BY <1>6, <2>1, <2>2 DEF SenderInv, Known, Senders, Calls
  <1>8. ASSUME NEW m \in Known, mail[m].job # None
        PROVE  \/ m = job'[mail[m].job].answer \/ m \in job'[mail[m].job].unsure
               \/ \E v \in Workers : sender'[v].mid = m
    <2>. DEFINE k == mail[m].job
    <2>1. \/ m = job[k].answer \/ m \in job[k].unsure
          \/ \E v \in Workers : sender[v].mid = m
      BY <1>8 DEF CopiesAreConfirmed
    <2>2. m \in Mids /\ m # None
      BY EmailAssumption DEF Known
    <2>3. CASE \E v \in Workers : v # w /\ sender[v].mid = m
      BY <1>6, <2>3
    <2>4. CASE sender[w].mid = m
      <3>1. sender[w].pc = "sent" /\ k = j /\ m \in unsure \cup {mid}
        BY <2>2, <2>4 DEF SenderInv
      <3>. QED BY <1>2, <1>3, <1>6, <2>2, <3>1
    <2>5. CASE k # j /\ (m = job[k].answer \/ m \in job[k].unsure)
      <3>1. k \in Jobs
        BY <1>8 DEF MailboxInv, Known, Messages
      <3>. QED BY <1>6, <2>5, <3>1
    <2>6. CASE k = j /\ m \in job[j].unsure
      BY <1>2, <1>3, <1>6, <2>6
    <2>7. CASE k = j /\ m = job[j].answer
      <3>1. job[j].worker = None
        BY <1>1, <2>2, <2>7 DEF SenderInv
      <3>2. job[j].worker # w
        BY <3>1, EmailAssumption
      <3>. QED BY <1>3, <1>6, <2>7, <3>2
    <2>. QED BY <2>1, <2>3, <2>4, <2>5, <2>6, <2>7
  <1>9. CopiesAreConfirmed'
    BY <1>8 DEF CopiesAreConfirmed, Known
  <1>. QED BY <1>7, <1>9

LEMMA SenderStep ==
  ASSUME MailboxInv, SenderInv, CopiesAreConfirmed, [Next]_vars
  PROVE  SenderInv' /\ CopiesAreConfirmed'
  <1>0. /\ sender \in [Workers -> Senders] /\ job \in [Jobs -> Calls]
        /\ mail \in [Mids -> Messages \cup {None}] /\ Grown
    BY MailboxStep DEF SenderInv, MailboxInv, Senders, Calls
  <1>1. ASSUME UNCHANGED <<sender, job>>, \A m \in Known' : m \in Known \/ mail'[m].job = None
        PROVE  SenderInv' /\ CopiesAreConfirmed'
    <2>1. SenderInv'
      BY <1>0, <1>1 DEF SenderInv, Grown
    <2>2. CopiesAreConfirmed'
      BY <1>0, <1>1 DEF CopiesAreConfirmed, Grown
    <2>. QED BY <2>1, <2>2
  <1>2. ASSUME NEW m \in Mids, NEW parent \in Mids \cup {None}, ReceiveMail(m, parent)
        PROVE  \A x \in Known' : x \in Known \/ mail'[x].job = None
    BY <1>0, <1>2 DEF ReceiveMail, Known
  <1>3. ASSUME UNCHANGED mail
        PROVE  \A x \in Known' : x \in Known \/ mail'[x].job = None
    BY <1>3 DEF Known
  <1>4. ASSUME NEW a \in Accounts, NEW j \in Jobs, NEW w \in Workers, NEW valid \in BOOLEAN,
               SendEmail(j, w, a, valid)
        PROVE  SenderInv' /\ CopiesAreConfirmed'
    <2>. DEFINE begun == [job[j] EXCEPT !.pc = "waiting", !.worker = w]
                off == [job[j] EXCEPT !.pc = "refused"]
                s == [pc |-> "connect", job |-> j, mid |-> None]
    <2>1. /\ begun \in Calls /\ begun.pc = "waiting" /\ begun.worker = w
          /\ begun.answer = job[j].answer /\ begun.unsure = job[j].unsure
      BY <1>0 DEF Calls
    <2>2. /\ off \in Calls /\ off.pc = "refused" /\ off.worker = job[j].worker
          /\ off.answer = job[j].answer /\ off.unsure = job[j].unsure
      BY <1>0 DEF Calls
    <2>3. s \in Senders /\ s.pc = "connect" /\ s.job = j /\ s.mid = None
      BY DEF Senders
    <2>4. /\ job[j].pc \in {"new", "failed"} /\ sender[w].pc = "idle"
          /\ \/ job' = [job EXCEPT ![j] = begun] /\ sender' = [sender EXCEPT ![w] = s]
             \/ job' = [job EXCEPT ![j] = off] /\ sender' = sender
          /\ UNCHANGED mail
      BY <1>4 DEF SendEmail
    <2>. HIDE DEF begun, off, s
    <2>5. job[j].answer = None /\ job[j].worker = None /\ sender[w].mid = None
      BY <2>4 DEF SenderInv
    <2>6. SenderInv'
      <3>1. sender' \in [Workers -> Senders] /\ job' \in [Jobs -> Calls]
        BY <1>0, <2>1, <2>2, <2>3, <2>4
      <3>2. \A v \in Workers :
               /\ sender'[v].pc # "idle" => sender'[v].job \in Jobs
               /\ sender'[v].pc = "sent" => /\ sender'[v].mid \in Known
                                            /\ mail[sender'[v].mid].job = sender'[v].job
               /\ sender'[v].pc # "sent" => sender'[v].mid = None
        BY <1>0, <2>3, <2>4 DEF SenderInv
      <3>3. \A k \in Jobs :
               /\ job'[k].answer # None => job'[k].pc = "sent"
               /\ job'[k].worker # None => job'[k].pc = "waiting"
        BY <1>0, <2>1, <2>2, <2>4, <2>5 DEF SenderInv
      <3>. QED BY <2>4, <3>1, <3>2, <3>3 DEF SenderInv, Known, Senders, Calls
    <2>7. /\ \A k \in Jobs : job'[k].answer = job[k].answer /\ job'[k].unsure = job[k].unsure
          /\ \A v \in Workers : sender[v].mid # None => sender'[v].mid = sender[v].mid
      BY <1>0, <2>1, <2>2, <2>4, <2>5
    <2>8. CopiesAreConfirmed'
      <3>1. \A m \in Known : m # None /\ mail[m].job \in Jobs \cup {None}
        BY <1>0, EmailAssumption DEF Known, Messages
      <3>. QED BY <2>4, <2>7, <3>1 DEF CopiesAreConfirmed, Known
    <2>. QED BY <2>6, <2>8
  <1>5. ASSUME NEW w \in Workers, ConnectFails(w)
        PROVE  SenderInv' /\ CopiesAreConfirmed'
    <2>1. sender[w].pc = "connect" /\ Finish(w, "failed", None, {}) /\ UNCHANGED mail
      BY <1>5 DEF ConnectFails
    <2>. QED BY <2>1, FinishKeeps
  <1>6. ASSUME NEW w \in Workers, ReplyLost(w)
        PROVE  SenderInv' /\ CopiesAreConfirmed'
    <2>1. /\ sender[w].pc = "sent" /\ Finish(w, "failed", None, {sender[w].mid})
          /\ UNCHANGED mail
      BY <1>6 DEF ReplyLost
    <2>2. sender[w].mid \in Mids
      BY <2>1 DEF SenderInv, Known
    <2>. QED BY <2>1, <2>2, FinishKeeps
  <1>7. ASSUME NEW w \in Workers, Handed(w)
        PROVE  SenderInv' /\ CopiesAreConfirmed'
    <2>1. /\ sender[w].pc = "sent" /\ Finish(w, "sent", sender[w].mid, {})
          /\ UNCHANGED mail
      BY <1>7 DEF Handed, Quit
    <2>2. sender[w].mid \in Mids
      BY <2>1 DEF SenderInv, Known
    <2>. QED BY <2>1, <2>2, FinishKeeps
  <1>8. ASSUME NEW w \in Workers, NEW m \in Mids, NEW parent \in Mids \cup {None},
               NEW to \in SUBSET Recipients, HandOver(w, m, parent, to)
        PROVE  SenderInv' /\ CopiesAreConfirmed'
    <2>. DEFINE j == sender[w].job
                e == Composed(j, parent, to)
                s == [sender[w] EXCEPT !.pc = "sent", !.mid = m]
    <2>1. sender[w].pc = "connect" /\ j \in Jobs
      BY <1>8 DEF HandOver, SenderInv
    <2>2. e \in Messages /\ e.job = j
      BY <1>8, <2>1 DEF Composed, Messages
    <2>3. s \in Senders /\ s.pc = "sent" /\ s.mid = m /\ s.job = j
      BY <1>0 DEF Senders
    <2>4. /\ mail[m] = None /\ mail' = [mail EXCEPT ![m] = e]
          /\ sender' = [sender EXCEPT ![w] = s] /\ job' = job
      BY <1>8 DEF HandOver
    <2>. HIDE DEF e, s, j
    <2>5. m \in Known' /\ mail'[m] = e /\ \A x \in Known' : x # m => x \in Known /\ mail'[x] = mail[x]
      BY <1>0, <2>2, <2>4, EmailAssumption DEF Known
    <2>6. SenderInv'
      <3>1. sender' \in [Workers -> Senders]
        BY <1>0, <2>3, <2>4
      <3>2. ASSUME NEW v \in Workers
            PROVE  /\ sender'[v].pc # "idle" => sender'[v].job \in Jobs
                   /\ sender'[v].pc = "sent" => /\ sender'[v].mid \in Known'
                                                /\ mail'[sender'[v].mid].job = sender'[v].job
                   /\ sender'[v].pc # "sent" => sender'[v].mid = None
        <4>1. CASE v = w
          BY <1>0, <2>1, <2>2, <2>3, <2>4, <2>5, <4>1
        <4>2. CASE v # w
          <5>1. sender'[v] = sender[v]
            BY <1>0, <2>4, <4>2
          <5>. QED BY <1>0, <5>1 DEF SenderInv, Grown
        <4>. QED BY <4>1, <4>2
      <3>. QED BY <1>0, <2>4, <3>1, <3>2 DEF SenderInv, Senders, Calls
    <2>7. CopiesAreConfirmed'
      <3>1. ASSUME NEW x \in Known', mail'[x].job # None
            PROVE  \/ x = job[mail'[x].job].answer \/ x \in job[mail'[x].job].unsure
                   \/ \E v \in Workers : sender'[v].mid = x
        <4>1. CASE x = m
          BY <1>0, <2>3, <2>4, <4>1
        <4>2. CASE x # m
          <5>1. x \in Known /\ mail'[x] = mail[x] /\ x # None
            BY <2>5, <4>2, EmailAssumption DEF Known
          <5>2. \A v \in Workers : sender[v].mid = x => sender'[v].mid = x
            BY <1>0, <2>1, <2>4, <5>1 DEF SenderInv
          <5>. QED BY <3>1, <5>1, <5>2 DEF CopiesAreConfirmed
        <4>. QED BY <4>1, <4>2
      <3>. QED BY <2>4, <3>1 DEF CopiesAreConfirmed
    <2>. QED BY <2>6, <2>7
  <1>9. ASSUME NEW j \in Jobs, LosePatience(j)
        PROVE  SenderInv' /\ CopiesAreConfirmed'
    <2>. DEFINE e == [job[j] EXCEPT !.pc = "failed", !.worker = None]
    <2>1. /\ e \in Calls /\ e.pc = "failed" /\ e.worker = None
          /\ e.answer = job[j].answer /\ e.unsure = job[j].unsure
      BY <1>0 DEF Calls
    <2>2. job[j].pc = "waiting" /\ job' = [job EXCEPT ![j] = e] /\ UNCHANGED <<mail, sender>>
      BY <1>9 DEF LosePatience
    <2>. HIDE DEF e
    <2>3. job' \in [Jobs -> Calls]
          /\ \A k \in Jobs : job'[k].answer = job[k].answer /\ job'[k].unsure = job[k].unsure
      BY <1>0, <2>1, <2>2
    <2>4. \A k \in Jobs : /\ job'[k].answer # None => job'[k].pc = "sent"
                          /\ job'[k].worker # None => job'[k].pc = "waiting"
      BY <1>0, <2>1, <2>2 DEF SenderInv
    <2>5. SenderInv'
      BY <2>2, <2>3, <2>4 DEF SenderInv, Known, Calls
    <2>6. CopiesAreConfirmed'
      <3>1. \A m \in Known : mail[m].job \in Jobs \cup {None}
        BY <1>0 DEF Known, Messages
      <3>. QED BY <2>2, <2>3, <3>1 DEF CopiesAreConfirmed, Known
    <2>. QED BY <2>5, <2>6
  <1>10. ASSUME UNCHANGED <<sender, job>>,
                ~\E w \in Workers, m \in Mids, parent \in Mids \cup {None},
                    to \in SUBSET Recipients : HandOver(w, m, parent, to)
         PROVE  SenderInv' /\ CopiesAreConfirmed'
    <2>1. \A m \in Known' : m \in Known \/ mail'[m].job = None
      BY <1>2, <1>3, <1>10, Frames DEF MailboxSteps, ReceiveOwn, ReceiveNameless, Expunge
    <2>. QED BY <1>1, <1>10, <2>1
  <1>. QED BY <1>4, <1>5, <1>6, <1>7, <1>8, <1>9, <1>10, Frames
        DEF SenderSteps

----------------------------------------------------------------------------
(* The reading side                                                         *)

(* What the reader saw stays what it is while the mailbox changes.          *)
LEMMA ReadingStays ==
  ASSUME MailboxInv, Grown, UNCHANGED reader, Reading
  PROVE  Reading'
  <1>0. /\ reader.view \in Seq(1..Len(idOf)) /\ Len(idOf) \in Nat /\ Len(idOf') \in Nat
        /\ Len(idOf) <= Len(idOf')
    BY DEF Reading, MailboxInv, Grown
  <1>1. \A n \in DOMAIN reader.view :
           /\ reader.view[n] \in 1..Len(idOf)
           /\ idOf'[reader.view[n]] = idOf[reader.view[n]]
           /\ idOf[reader.view[n]] = NoId \/ idOf[reader.view[n]] \in Known
    <2>1. \A n \in DOMAIN reader.view : reader.view[n] \in 1..Len(idOf)
      BY <1>0
    <2>. QED BY <2>1 DEF Grown, MailboxInv
  <1>2. ASSUME NEW n \in DOMAIN reader.view
        PROVE  /\ At(reader.view, n)' = At(reader.view, n)
               /\ RefsOf(At(reader.view, n))' = RefsOf(At(reader.view, n))
    <2>1. At(reader.view, n)' = At(reader.view, n)
      BY <1>1 DEF At
    <2>. QED BY <1>1, <2>1 DEF At, RefsOf, Grown
  <1>3. Members' = Members
    BY <1>2 DEF Members
  <1>4. \A n \in DOMAIN reader.view : Missed(n) => Missed(n)'
    BY <1>1 DEF Missed, Grown
  <1>5. reader'.view \in Seq(1..Len(idOf'))
    <2>1. 1..Len(idOf) \subseteq 1..Len(idOf')
      BY <1>0
    <2>. QED BY <1>0, <2>1, SeqMonotonic
  <1>6. ASSUME Untouched
        PROVE  /\ reader'.found \subseteq Members'
               /\ \A x \in Got' : \E n \in Members' : x = At(reader.view, n)'
               /\ \A n \in Members' :
                     n \in reader'.found \/ Missed(n)' \/ At(reader.view, n)' \in Got'
    <2>1. Got' = Got /\ Members \subseteq DOMAIN reader.view
      BY DEF Got, Members
    <2>2. \A n \in Members : At(reader.view, n)' = At(reader.view, n)
      BY <1>2, <2>1
    <2>. QED BY <1>3, <1>4, <1>6, <2>1, <2>2 DEF Reading
  <1>7. Untouched' = Untouched
    BY DEF Untouched
  <1>8. reader'.got \in Seq(Mids \cup {NoId})
    BY DEF Reading
  <1>. QED BY <1>5, <1>6, <1>7, <1>8 DEF Reading

LEMMA SearchReads ==
  ASSUME MailboxInv, UNCHANGED <<mail, inbox, idOf>>, reader.got = <<>>, reader.root \in Known,
         reader' = [reader EXCEPT !.pc = "fetch", !.view = inbox,
                                  !.found = FoundIn(inbox, reader.root)],
         reader = [pc |-> reader.pc, kind |-> reader.kind, root |-> reader.root,
                   view |-> reader.view, ids |-> reader.ids, found |-> reader.found,
                   got |-> reader.got, lost |-> reader.lost, status |-> reader.status]
  PROVE  Reading'
  <1>1. /\ reader'.view = inbox /\ reader'.root = reader.root /\ reader'.got = <<>>
        /\ reader'.found = FoundIn(inbox, reader.root)
    OBVIOUS
  <1>2. inbox \in Seq(1..Len(idOf)) /\ UNCHANGED idOf
    BY DEF MailboxInv
  <1>3. Members' = {n \in DOMAIN inbox : reader.root \in {idOf[inbox[n]]} \cup RefsOf(idOf[inbox[n]])}
    BY <1>1 DEF Members, At, RefsOf
  <1>4. ASSUME \A n \in DOMAIN inbox : inbox[n] = n
        PROVE  reader'.found = Members'
    BY <1>1, <1>3, <1>4 DEF FoundIn, Matches, ToSet
  <1>5. Got' = {}
    BY <1>1 DEF Got
  <1>6. ASSUME Untouched' PROVE reader'.found = Members'
    <2>1. \A n \in DOMAIN inbox : inbox[n] = n
      BY <1>1, <1>6 DEF Untouched
    <2>. QED BY <1>4, <2>1
  <1>7. reader'.view \in Seq(1..Len(idOf')) /\ reader'.got \in Seq(Mids \cup {NoId})
    <2>1. reader'.view \in Seq(1..Len(idOf'))
      BY <1>1, <1>2
    <2>2. reader'.got \in Seq(Mids \cup {NoId})
      BY <1>1, EmptySeq
    <2>. QED BY <2>1, <2>2
  <1>. QED BY <1>5, <1>6, <1>7 DEF Reading

LEMMA MessageRead ==
  ASSUME MailboxInv, UNCHANGED <<mail, inbox, idOf>>, Reading, NEW u \in reader.found,
         NEW lost \in SUBSET {u},
         reader' = [reader EXCEPT !.found = @ \ {u}, !.got = @ \o FetchMessage(u, lost),
                                  !.lost = @ \cup lost],
         reader = [pc |-> reader.pc, kind |-> reader.kind, root |-> reader.root,
                   view |-> reader.view, ids |-> reader.ids, found |-> reader.found,
                   got |-> reader.got, lost |-> reader.lost, status |-> reader.status]
  PROVE  Reading'
  <1>1. /\ reader'.view = reader.view /\ reader'.root = reader.root
        /\ reader'.got = reader.got \o FetchMessage(u, lost)
        /\ reader'.found = reader.found \ {u} /\ reader'.lost = reader.lost \cup lost
    OBVIOUS
  <1>2. /\ reader.view \in Seq(1..Len(idOf)) /\ reader.got \in Seq(Mids \cup {NoId})
        /\ idOf \in Seq(Mids \cup {NoId})
    BY DEF Reading, MailboxInv
  <1>3. /\ Members' = Members /\ Untouched' = Untouched
        /\ \A n : At(reader.view, n)' = At(reader.view, n) /\ (Missed(n) => Missed(n)')
    BY <1>1 DEF Members, Untouched, At, RefsOf, Missed
  <1>4. CASE FetchMessage(u, lost) = <<>>
    <2>1. reader'.got = reader.got /\ Got' = Got
      BY <1>1, <1>2, <1>4 DEF Got
    <2>2. ~(u \in DOMAIN reader.view /\ Contains(inbox, reader.view[u])) \/ u \in reader'.lost
      BY <1>1, <1>4 DEF FetchMessage
    <2>3. Untouched => \A n \in Members : n # u \/ Missed(n)'
      BY <1>1, <2>2 DEF Members, Missed
    <2>. QED BY <1>1, <1>2, <1>3, <2>1, <2>3 DEF Reading, At
  <1>5. CASE FetchMessage(u, lost) # <<>>
    <2>1. u \in DOMAIN reader.view /\ FetchMessage(u, lost) = <<At(reader.view, u)>>
      BY <1>5 DEF FetchMessage
    <2>2. At(reader.view, u) \in Mids \cup {NoId}
      BY <1>2, <2>1 DEF At
    <2>3. reader'.got = Append(reader.got, At(reader.view, u))
      BY <1>1, <1>2, <2>1, <2>2
    <2>4. reader'.got \in Seq(Mids \cup {NoId}) /\ Got' = Got \cup {At(reader.view, u)}
      <3>. DEFINE x == At(reader.view, u)
      <3>1. x \in Mids \cup {NoId} /\ reader'.got = Append(reader.got, x)
        BY <2>2, <2>3
      <3>. HIDE DEF x
      <3>2. /\ reader'.got \in Seq(Mids \cup {NoId}) /\ Len(reader.got) \in Nat
            /\ Len(reader'.got) = Len(reader.got) + 1
            /\ \A i \in 1..Len(reader.got) : reader'.got[i] = reader.got[i]
            /\ reader'.got[Len(reader.got) + 1] = x
        <4>. DEFINE g == reader.got
                    T == Mids \cup {NoId}
        <4>1. g \in Seq(T) /\ x \in T
          BY <1>2, <3>1
        <4>. HIDE DEF g, T
        <4>2. /\ Append(g, x) \in Seq(T) /\ Len(g) \in Nat
              /\ Len(Append(g, x)) = Len(g) + 1
              /\ \A i \in 1..Len(g) : Append(g, x)[i] = g[i]
              /\ Append(g, x)[Len(g) + 1] = x
          BY <4>1
        <4>. QED BY <3>1, <4>2 DEF g, T
      <3>3. /\ DOMAIN reader.got = 1..Len(reader.got)
            /\ DOMAIN reader'.got = 1..(Len(reader.got) + 1)
        BY <1>2, <3>2
      <3>4. Got' = Got \cup {x}
        BY <3>2, <3>3 DEF Got
      <3>. QED BY <3>2, <3>4 DEF x
    <2>. QED BY <1>1, <1>2, <1>3, <2>4 DEF Reading, At
  <1>. QED BY <1>4, <1>5

(* The connection breaks: what was still to be read is not learned.         *)
LEMMA ReadingBroken ==
  ASSUME UNCHANGED <<mail, inbox, idOf>>, Reading,
         reader'.view = reader.view, reader'.root = reader.root, reader'.got = reader.got,
         reader'.found = {}, reader.lost \cup reader.found \subseteq reader'.lost
  PROVE  Reading'
  <1>1. /\ Members' = Members /\ Untouched' = Untouched /\ Got' = Got
        /\ \A n : At(reader.view, n)' = At(reader.view, n)
    BY DEF Members, Untouched, At, RefsOf, Got
  <1>2. \A n : n \in reader.found \/ Missed(n) => Missed(n)'
    BY DEF Missed
  <1>. QED BY <1>1, <1>2 DEF Reading

LEMMA Requests ==
  ASSUME NEW kind, NEW root, NEW status, NEW q
  PROVE  /\ q = NewRequest(kind, root) =>
               q = [pc |-> "connect", kind |-> kind, root |-> root, view |-> <<>>,
                    ids |-> <<>>, found |-> {}, got |-> <<>>, lost |-> {}, status |-> None]
         /\ q = Refused(kind, root, status) =>
               q = [pc |-> "done", kind |-> kind, root |-> root, view |-> <<>>,
                    ids |-> <<>>, found |-> {}, got |-> <<>>, lost |-> {}, status |-> status]
  <1>1. ASSUME q = NewRequest(kind, root)
        PROVE  q = [pc |-> "connect", kind |-> kind, root |-> root, view |-> <<>>,
                    ids |-> <<>>, found |-> {}, got |-> <<>>, lost |-> {}, status |-> None]
    BY <1>1 DEF NewRequest, Unread
  <1>2. ASSUME q = Refused(kind, root, status)
        PROVE  q = [pc |-> "done", kind |-> kind, root |-> root, view |-> <<>>,
                    ids |-> <<>>, found |-> {}, got |-> <<>>, lost |-> {}, status |-> status]
    BY <1>2 DEF Refused, Unread
  <1>. QED BY <1>1, <1>2

LEMMA ReaderStep ==
  ASSUME MailboxInv, SenderInv, ReaderInv, [Next]_vars
  PROVE  ReaderInv'
  <1>0. /\ reader = [pc |-> reader.pc, kind |-> reader.kind, root |-> reader.root,
                     view |-> reader.view, ids |-> reader.ids, found |-> reader.found,
                     got |-> reader.got, lost |-> reader.lost, status |-> reader.status]
        /\ Grown
    BY MailboxStep DEF ReaderInv
  <1>1. ASSUME UNCHANGED reader
        PROVE  ReaderInv'
    <2>1. Reading => Reading'
      BY <1>0, <1>1, ReadingStays
    <2>2. Known \subseteq Known' /\ Answered("detail")' = Answered("detail")
      BY <1>0, <1>1 DEF Grown, Answered
    <2>. QED BY <1>1, <2>1, <2>2 DEF ReaderInv
  <1>2. ASSUME NEW status \in {404, 500, 502}, Answer(status)
        PROVE  ReaderInv'
    <2>1. reader' = [pc |-> "done", kind |-> reader.kind, root |-> reader.root,
                     view |-> reader.view, ids |-> reader.ids, found |-> reader.found,
                     got |-> reader.got, lost |-> reader.lost, status |-> status]
      BY <1>0, <1>2 DEF Answer
    <2>. QED BY <2>1 DEF ReaderInv, Answered
  <1>3. ASSUME NEW a \in Accounts, ListThreads(a)
        PROVE  ReaderInv'
    <2>1. \/ reader' = NewRequest("list", None)
          \/ reader' = Refused("list", None, 502)
      BY <1>3 DEF ListThreads
    <2>2. CASE reader' = NewRequest("list", None)
      <3>1. reader' = [pc |-> "connect", kind |-> "list", root |-> None, view |-> <<>>,
                       ids |-> <<>>, found |-> {}, got |-> <<>>, lost |-> {}, status |-> None]
        BY <2>2, Requests
      <3>. QED BY <3>1 DEF ReaderInv, Answered
    <2>3. CASE reader' = Refused("list", None, 502)
      <3>1. reader' = [pc |-> "done", kind |-> "list", root |-> None, view |-> <<>>,
                       ids |-> <<>>, found |-> {}, got |-> <<>>, lost |-> {}, status |-> 502]
        BY <2>3, Requests
      <3>. QED BY <3>1 DEF ReaderInv, Answered
    <2>. QED BY <2>1, <2>2, <2>3
  <1>4. ASSUME NEW a \in Accounts, NEW m \in Mids \cup {NoId}, GetThread(a, m)
        PROVE  ReaderInv'
    <2>1. CASE reader' = NewRequest("detail", m) /\ m \in Known'
      <3>1. reader' = [pc |-> "connect", kind |-> "detail", root |-> m, view |-> <<>>,
                       ids |-> <<>>, found |-> {}, got |-> <<>>, lost |-> {}, status |-> None]
        BY <2>1, Requests
      <3>. QED BY <2>1, <3>1 DEF ReaderInv, Answered
    <2>2. ASSUME NEW status \in {400, 502}, reader' = Refused("detail", m, status)
          PROVE  ReaderInv'
      <3>1. reader' = [pc |-> "done", kind |-> "detail", root |-> m, view |-> <<>>,
                       ids |-> <<>>, found |-> {}, got |-> <<>>, lost |-> {}, status |-> status]
        BY <2>2, Requests
      <3>. QED BY <3>1 DEF ReaderInv, Answered
    <2>. QED BY <1>4, <2>1, <2>2 DEF GetThread, DecodeThreadId, Known
  <1>5. ASSUME AskThreads
        PROVE  ReaderInv'
    <2>. DEFINE newest ==
             FirstOf(Reverse(ParseThreadResponse(ThreadResponse(inbox))), Limit)
    <2>1. reader' = [reader EXCEPT !.pc = "fetch", !.view = inbox, !.ids = newest]
      BY <1>5 DEF AskThreads
    <2>. HIDE DEF newest
    <2>2. reader.kind = "list"
      BY <1>5 DEF AskThreads
    <2>3. reader' = [pc |-> "fetch", kind |-> reader.kind, root |-> reader.root,
                     view |-> inbox, ids |-> newest, found |-> reader.found,
                     got |-> reader.got, lost |-> reader.lost, status |-> reader.status]
      BY <1>0, <2>1
    <2>. QED BY <2>2, <2>3 DEF ReaderInv, Answered
  <1>6. ASSUME SearchThread
        PROVE  ReaderInv'
    <2>1. CASE Answer(404)
      BY <1>2, <2>1
    <2>2. CASE reader' = [reader EXCEPT !.pc = "fetch", !.view = inbox,
                                        !.found = FoundIn(inbox, reader.root)]
      <3>1. /\ reader.pc = "connect" /\ reader.kind = "detail"
            /\ UNCHANGED <<mail, inbox, idOf>>
            /\ reader.root \in Known /\ reader.got = <<>> /\ reader.ids = <<>>
        BY <1>6 DEF SearchThread, ReaderInv
      <3>2. Reading'
        BY <1>0, <2>2, <3>1, SearchReads
      <3>3. Known' = Known
        BY <3>1 DEF Known
      <3>4. reader' = [pc |-> "fetch", kind |-> reader.kind, root |-> reader.root,
                       view |-> inbox, ids |-> reader.ids,
                       found |-> FoundIn(inbox, reader.root),
                       got |-> reader.got, lost |-> reader.lost, status |-> reader.status]
        BY <1>0, <2>2
      <3>. QED BY <3>1, <3>2, <3>3, <3>4 DEF ReaderInv, Answered
    <2>. QED BY <1>6, <2>1, <2>2 DEF SearchThread
  <1>7. ASSUME NEW lost \in SUBSET (1..MaxUids), ReadThread(lost)
        PROVE  ReaderInv'
    <2>1. PICK ids, got, l : reader' = [reader EXCEPT !.ids = ids, !.got = got, !.lost = l]
      BY <1>7 DEF ReadThread
    <2>2. reader.kind # "detail" /\ reader.pc = "fetch"
      BY <1>7 DEF ReadThread, ReaderInv
    <2>. QED BY <1>0, <2>1, <2>2 DEF ReaderInv, Answered
  <1>8. ASSUME NEW lost \in SUBSET (1..MaxUids), NEW u \in 1..MaxUids, ReadMessage(u, lost)
        PROVE  ReaderInv'
    <2>1. /\ reader.pc = "fetch" /\ u \in reader.found /\ lost \in SUBSET {u}
          /\ reader' = [reader EXCEPT !.found = @ \ {u}, !.got = @ \o FetchMessage(u, lost),
                                      !.lost = @ \cup lost]
          /\ UNCHANGED <<mail, inbox, idOf>>
      BY <1>8 DEF ReadMessage
    <2>2. reader.kind = "detail" => Reading' /\ reader.root \in Known
      BY <1>0, <2>1, MessageRead DEF ReaderInv
    <2>3. reader' = [pc |-> "fetch", kind |-> reader.kind, root |-> reader.root,
                     view |-> reader.view, ids |-> reader.ids, found |-> reader.found \ {u},
                     got |-> reader.got \o FetchMessage(u, lost),
                     lost |-> reader.lost \cup lost, status |-> reader.status]
      BY <1>0, <2>1
    <2>4. Known' = Known
      BY <2>1 DEF Known
    <2>. QED BY <2>1, <2>2, <2>3, <2>4 DEF ReaderInv, Answered
  <1>9. ASSUME ReadDone
        PROVE  ReaderInv'
    <2>1. /\ reader.pc = "fetch" /\ reader.found = {}
          /\ reader' = [reader EXCEPT !.pc = "done", !.status = 200]
          /\ UNCHANGED <<mail, inbox, idOf>>
      BY <1>9 DEF ReadDone, Answer
    <2>2. reader' = [pc |-> "done", kind |-> reader.kind, root |-> reader.root,
                     view |-> reader.view, ids |-> reader.ids, found |-> reader.found,
                     got |-> reader.got, lost |-> reader.lost, status |-> 200]
      BY <1>0, <2>1
    <2>3. Reading => Reading'
      <3>1. /\ Members' = Members /\ Untouched' = Untouched /\ Got' = Got
            /\ \A n : At(reader.view, n)' = At(reader.view, n) /\ Missed(n)' = Missed(n)
        BY <2>1, <2>2 DEF Members, Untouched, At, RefsOf, Missed, Got
      <3>. QED BY <2>1, <2>2, <3>1 DEF Reading
    <2>4. Known' = Known
      BY <2>1 DEF Known
    <2>5. reader.kind = "detail" => reader.ids = <<>> /\ reader.root \in Known /\ Reading
      BY <1>0, <2>1 DEF ReaderInv
    <2>6. /\ reader'.pc = "done" /\ reader'.kind = reader.kind /\ reader'.root = reader.root
          /\ reader'.ids = reader.ids /\ reader'.found = {}
      BY <2>1, <2>2
    <2>7. reader' = [pc |-> reader'.pc, kind |-> reader'.kind, root |-> reader'.root,
                     view |-> reader'.view, ids |-> reader'.ids, found |-> reader'.found,
                     got |-> reader'.got, lost |-> reader'.lost, status |-> reader'.status]
      BY <2>2
    <2>. QED BY <2>3, <2>4, <2>5, <2>6, <2>7 DEF ReaderInv
  <1>10. ASSUME NEW status \in {500, 502}, ImapFails(status)
         PROVE  ReaderInv'
    BY <1>2, <1>10 DEF ImapFails
  <1>11. BadCriteria => ReaderInv'
    BY <1>2 DEF BadCriteria
  <1>12. ASSUME ThreadRefused
         PROVE  ReaderInv'
    <2>1. /\ reader.kind = "list"
          /\ reader' = [reader EXCEPT !.pc = "done", !.status = 200, !.view = inbox,
                                      !.lost = DOMAIN inbox]
      BY <1>12 DEF ThreadRefused
    <2>2. reader' = [pc |-> "done", kind |-> reader.kind, root |-> reader.root,
                     view |-> inbox, ids |-> reader.ids, found |-> reader.found,
                     got |-> reader.got, lost |-> DOMAIN inbox, status |-> 200]
      BY <1>0, <2>1
    <2>3. /\ reader'.pc = "done" /\ reader'.kind = "list"
          /\ reader' = [pc |-> reader'.pc, kind |-> reader'.kind, root |-> reader'.root,
                        view |-> reader'.view, ids |-> reader'.ids, found |-> reader'.found,
                        got |-> reader'.got, lost |-> reader'.lost, status |-> reader'.status]
      <3>1. reader.kind = "list"
        BY <2>1
      <3>. QED BY ONLY <2>2, <3>1
    <2>. QED BY <2>3 DEF ReaderInv, Answered
  <1>13. ASSUME BrokenOff
         PROVE  ReaderInv'
    <2>. DEFINE more == reader.lost \cup reader.found
                          \cup {reader.ids[i][1] : i \in DOMAIN reader.ids}
    <2>1. /\ reader.pc = "fetch" /\ UNCHANGED <<mail, inbox, idOf>>
          /\ reader' = [reader EXCEPT !.pc = "done", !.status = 200, !.ids = <<>>,
                                      !.found = {}, !.lost = more]
      BY <1>13 DEF BrokenOff
    <2>2. reader.lost \cup reader.found \subseteq more
      OBVIOUS
    <2>. HIDE DEF more
    <2>3. reader' = [pc |-> "done", kind |-> reader.kind, root |-> reader.root,
                     view |-> reader.view, ids |-> <<>>, found |-> {},
                     got |-> reader.got, lost |-> more, status |-> 200]
      BY <1>0, <2>1
    <2>4. Reading => Reading'
      BY <2>1, <2>2, <2>3, ReadingBroken
    <2>5. Known' = Known
      BY <2>1 DEF Known
    <2>6. reader.kind = "detail" => reader.root \in Known /\ Reading
      BY <1>0, <2>1 DEF ReaderInv
    <2>. QED BY <2>3, <2>4, <2>5, <2>6 DEF ReaderInv
  <1>. QED BY <1>1, <1>3, <1>4, <1>5, <1>6, <1>7, <1>8, <1>9, <1>10, <1>11, <1>12, <1>13, Frames
        DEF ReaderSteps

----------------------------------------------------------------------------
(* Types that no other invariant needs                                      *)

Bounded ==
    /\ Len(idOf) <= MaxUids
    /\ reader.pc \in {"idle", "connect", "fetch", "done"}
    /\ reader.status \in {None, 200, 400, 404, 500, 502}
    /\ faults \in 0..MaxFaults

LEMMA BoundedStep ==
  ASSUME MailboxInv, ReaderInv, Bounded, [Next]_vars
  PROVE  Bounded'
  <1>0. MaxFaults \in Nat /\ MaxUids \in Nat
    BY EmailAssumption
  <1>1. faults' \in 0..MaxFaults
    <2>. DEFINE Kept == UNCHANGED faults \/ Fault
    <2>1. /\ (\E m \in Mids : ReceiveOwn(m) \/ \E parent \in Mids \cup {None} :
                                                  ReceiveMail(m, parent)) => Kept
          /\ ReceiveNameless => Kept
          /\ (\E n \in 1..MaxUids : Expunge(n)) => Kept
      BY DEF ReceiveOwn, ReceiveMail, ReceiveNameless, Expunge
    <2>2. (\E a \in Accounts :
              \/ ListThreads(a)
              \/ \E m \in Mids \cup {NoId} : GetThread(a, m)
              \/ \E j \in Jobs, w \in Workers, valid \in BOOLEAN : SendEmail(j, w, a, valid))
          => Kept
      BY DEF ListThreads, GetThread, SendEmail
    <2>3. /\ (\E status \in {500, 502} : ImapFails(status)) => Kept
          /\ BadCriteria \/ AskThreads \/ ThreadRefused \/ SearchThread => Kept
          /\ BrokenOff \/ ReadDone => Kept
      BY DEF ImapFails, BadCriteria, AskThreads, ThreadRefused, SearchThread, BrokenOff, ReadDone
    <2>4. (\E lost \in SUBSET (1..MaxUids) :
              ReadThread(lost) \/ \E u \in 1..MaxUids : ReadMessage(u, lost)) => Kept
      BY DEF ReadThread, ReadMessage, Loses
    <2>5. /\ (\E w \in Workers :
                 \/ ConnectFails(w) \/ ReplyLost(w) \/ Handed(w)
                 \/ \E m \in Mids, parent \in Mids \cup {None}, to \in SUBSET Recipients :
                       HandOver(w, m, parent, to)) => Kept
          /\ (\E j \in Jobs : LosePatience(j)) => Kept
      BY DEF ConnectFails, ReplyLost, Handed, HandOver, LosePatience
    <2>6. UNCHANGED vars => Kept
      BY DEF vars
    <2>. HIDE DEF Kept
    <2>7. Kept
      BY <2>1, <2>2, <2>3, <2>4, <2>5, <2>6 DEF Next
    <2>. QED BY <1>0, <2>7 DEF Bounded, Fault, Kept
  <1>2. Len(idOf') <= MaxUids
    <2>1. UNCHANGED idOf \/ \E m \in Mids \cup {NoId} : Arrive(m)
      BY Frames DEF MailboxSteps, ReceiveOwn, ReceiveMail, ReceiveNameless, Expunge, HandOver
    <2>2. idOf \in Seq(Mids \cup {NoId}) /\ Len(idOf) \in Nat
      BY DEF MailboxInv
    <2>3. ASSUME NEW m \in Mids \cup {NoId}, Arrive(m)
          PROVE  Len(idOf') <= MaxUids
      <3>1. idOf' = Append(idOf, m) /\ Len(idOf) < MaxUids
        BY <2>3 DEF Arrive
      <3>2. Len(idOf') = Len(idOf) + 1
        BY <2>2, <3>1
      <3>. QED BY <1>0, <2>2, <3>1, <3>2
    <2>. QED BY <2>1, <2>3 DEF Bounded
  <1>3. /\ reader'.pc \in {"idle", "connect", "fetch", "done"}
        /\ reader'.status \in {None, 200, 400, 404, 500, 502}
    <2>0. reader = [pc |-> reader.pc, kind |-> reader.kind, root |-> reader.root,
                    view |-> reader.view, ids |-> reader.ids, found |-> reader.found,
                    got |-> reader.got, lost |-> reader.lost, status |-> reader.status]
      BY DEF ReaderInv
    <2>1. ASSUME NEW a \in Accounts, ListThreads(a)
          PROVE  /\ reader'.pc \in {"connect", "done"} /\ reader'.status \in {None, 502}
      <3>1. CASE reader' = NewRequest("list", None)
        <4>1. reader' = [pc |-> "connect", kind |-> "list", root |-> None, view |-> <<>>,
                         ids |-> <<>>, found |-> {}, got |-> <<>>, lost |-> {}, status |-> None]
          BY <3>1, Requests
        <4>. QED BY <4>1
      <3>2. CASE reader' = Refused("list", None, 502)
        <4>1. reader' = [pc |-> "done", kind |-> "list", root |-> None, view |-> <<>>,
                         ids |-> <<>>, found |-> {}, got |-> <<>>, lost |-> {}, status |-> 502]
          BY <3>2, Requests
        <4>. QED BY <4>1
      <3>. QED BY <2>1, <3>1, <3>2 DEF ListThreads
    <2>2. ASSUME NEW a \in Accounts, NEW m \in Mids \cup {NoId}, GetThread(a, m)
          PROVE  /\ reader'.pc \in {"connect", "done"} /\ reader'.status \in {None, 400, 502}
      BY <2>2, Requests DEF GetThread, DecodeThreadId
    <2>3. AskThreads => reader'.pc = "fetch" /\ reader'.status = reader.status
      <3>. DEFINE newest ==
               FirstOf(Reverse(ParseThreadResponse(ThreadResponse(inbox))), Limit)
      <3>1. AskThreads =>
               reader' = [reader EXCEPT !.pc = "fetch", !.view = inbox, !.ids = newest]
        BY DEF AskThreads
      <3>. HIDE DEF newest
      <3>. QED BY <2>0, <3>1
    <2>4. SearchThread => /\ reader'.pc \in {"fetch", "done"}
                          /\ reader'.status \in {reader.status, 404}
      <3>. DEFINE found == FoundIn(inbox, reader.root)
      <3>1. SearchThread =>
               \/ reader' = [reader EXCEPT !.pc = "done", !.status = 404]
               \/ reader' = [reader EXCEPT !.pc = "fetch", !.view = inbox, !.found = found]
        BY DEF SearchThread, Answer
      <3>. HIDE DEF found
      <3>2. CASE reader' = [reader EXCEPT !.pc = "done", !.status = 404]
        BY <2>0, <3>2
      <3>3. CASE reader' = [reader EXCEPT !.pc = "fetch", !.view = inbox, !.found = found]
        BY <2>0, <3>3
      <3>. QED BY <3>1, <3>2, <3>3
    <2>5. ASSUME NEW lost \in SUBSET (1..MaxUids), ReadThread(lost)
          PROVE  reader'.pc = reader.pc /\ reader'.status = reader.status
      <3>1. PICK ids, got, l : reader' = [reader EXCEPT !.ids = ids, !.got = got, !.lost = l]
        BY <2>5 DEF ReadThread
      <3>. QED BY <2>0, <3>1
    <2>6. ASSUME NEW lost \in SUBSET (1..MaxUids), NEW u \in 1..MaxUids, ReadMessage(u, lost)
          PROVE  reader'.pc = reader.pc /\ reader'.status = reader.status
      <3>1. PICK found, got, l :
               reader' = [reader EXCEPT !.found = found, !.got = got, !.lost = l]
        BY <2>6 DEF ReadMessage
      <3>. QED BY <2>0, <3>1
    <2>7. /\ ReadDone \/ BadCriteria => reader'.pc = "done" /\ reader'.status \in {200, 502}
          /\ \A status \in {500, 502} :
                ImapFails(status) => reader'.pc = "done" /\ reader'.status \in {500, 502}
      <3>1. \A status \in {200, 500, 502} : Answer(status) =>
                reader'.pc = "done" /\ reader'.status = status
        BY <2>0 DEF Answer
      <3>2. /\ ReadDone \/ BadCriteria => Answer(200) \/ Answer(502)
            /\ \A status \in {500, 502} : ImapFails(status) => Answer(status)
        BY DEF ReadDone, ImapFails, BadCriteria
      <3>. QED BY <3>1, <3>2
    <2>8. ThreadRefused \/ BrokenOff => reader'.pc = "done" /\ reader'.status = 200
      <3>1. ASSUME ThreadRefused PROVE reader'.pc = "done" /\ reader'.status = 200
        <4>1. PICK v, l : reader' = [reader EXCEPT !.pc = "done", !.status = 200, !.view = v,
                                                   !.lost = l]
          BY <3>1 DEF ThreadRefused
        <4>. QED BY <2>0, <4>1
      <3>2. ASSUME BrokenOff PROVE reader'.pc = "done" /\ reader'.status = 200
        <4>1. PICK l : reader' = [reader EXCEPT !.pc = "done", !.status = 200, !.ids = <<>>,
                                                !.found = {}, !.lost = l]
          BY <3>2 DEF BrokenOff
        <4>. QED BY <2>0, <4>1
      <3>. QED BY <3>1, <3>2
    <2>. DEFINE Typed == /\ reader'.pc \in {"idle", "connect", "fetch", "done"}
                         /\ reader'.status \in {None, 200, 400, 404, 500, 502}
    <2>9. /\ \A a \in Accounts :
                ListThreads(a) \/ (\E m \in Mids \cup {NoId} : GetThread(a, m)) => Typed
          /\ \A status \in {500, 502} : ImapFails(status) => Typed
          /\ BadCriteria \/ ThreadRefused \/ BrokenOff \/ ReadDone => Typed
      BY <2>1, <2>2, <2>7, <2>8
    <2>10. /\ UNCHANGED reader \/ AskThreads \/ SearchThread => Typed
           /\ \A lost \in SUBSET (1..MaxUids) :
                 ReadThread(lost) \/ (\E u \in 1..MaxUids : ReadMessage(u, lost)) => Typed
      BY <2>3, <2>4, <2>5, <2>6 DEF Bounded
    <2>. HIDE DEF Typed
    <2>11. Typed
      BY <2>9, <2>10, Frames DEF ReaderSteps
    <2>. QED BY <2>11 DEF Typed
  <1>. QED BY <1>1, <1>2, <1>3 DEF Bounded

----------------------------------------------------------------------------
(* Natural numbers                                                          *)

(* Among the sets of the numbers below each member one is minimal.          *)
LEMMA Least ==
  ASSUME NEW S \in SUBSET Nat, S # {}, IsFiniteSet(S)
  PROVE  \E x \in S : \A y \in S : x <= y
  <1>. DEFINE Under(b) == {y \in S : y < b}
              F == {Under(b) : b \in S}
  <1>1. F \subseteq SUBSET S /\ F # {}
    OBVIOUS
  <1>2. PICK T \in F : \A U \in F : <<U, T>> \notin StrictSubsetOrdering(S)
    <2>1. IsWellFoundedOn(StrictSubsetOrdering(S), SUBSET S)
      BY FS_StrictSubsetOrderingWellFounded, FS_FiniteSubsetsOfFinite
    <2>. HIDE DEF F
    <2>. QED BY <2>1, <1>1, WFMin
  <1>3. PICK x \in S : T = Under(x)
    OBVIOUS
  <1>4. ASSUME NEW y \in S, y < x PROVE FALSE
    <2>1. x \in Nat /\ y \in Nat /\ \A z \in S : z \in Nat
      OBVIOUS
    <2>2. ASSUME NEW z \in Under(y) PROVE z \in Under(x)
      BY <1>4, <2>1
    <2>3. y \in Under(x) /\ y \notin Under(y)
      BY <1>4, <2>1
    <2>. HIDE DEF Under
    <2>4. Under(y) # Under(x) /\ Under(y) \subseteq Under(x)
      BY <2>2, <2>3
    <2>5. Under(y) \subseteq S /\ Under(x) \subseteq S
      BY DEF Under
    <2>6. <<Under(y), Under(x)>> \in StrictSubsetOrdering(S)
      BY <2>4, <2>5 DEF StrictSubsetOrdering
    <2>. QED BY <1>2, <1>3, <2>6 DEF F
  <1>. QED BY <1>4

LEMMA LeastUpTo ==
  ASSUME NEW n \in Nat, NEW S \in SUBSET (0..n), S # {}
  PROVE  \E x \in S : \A y \in S : x <= y
  <1>1. IsFiniteSet(S)
    <2>1. IsFiniteSet(0..n)
      BY FS_Interval
    <2>. QED BY <2>1, FS_Subset
  <1>2. S \in SUBSET Nat
    OBVIOUS
  <1>. QED BY <1>1, <1>2, Least

(* What holds at 0 and is handed on holds up to n; and downwards.           *)
LEMMA Upwards ==
  ASSUME NEW n \in Nat, NEW S, 0 \in S, \A i \in 0..n : i \in S /\ i < n => i + 1 \in S
  PROVE  \A i \in 0..n : i \in S
  <1>. DEFINE T == {i \in 0..n : i \notin S}
  <1>1. SUFFICES ASSUME T # {} PROVE FALSE
    OBVIOUS
  <1>2. PICK i \in T : \A j \in T : i <= j
    <2>1. T \in SUBSET (0..n)
      OBVIOUS
    <2>. HIDE DEF T
    <2>. QED BY <1>1, <2>1, LeastUpTo
  <1>3. i \in 1..n /\ i - 1 \in 0..n /\ i - 1 \notin T
    BY <1>2
  <1>4. (i - 1) + 1 = i
    BY <1>3
  <1>. QED BY <1>2, <1>3, <1>4

LEMMA Downwards ==
  ASSUME NEW n \in Nat, NEW S, \A i \in 1..n : (\A j \in (i + 1)..n : j \in S) => i \in S
  PROVE  \A i \in 1..n : i \in S
  <1>. DEFINE T == {i \in 0..(n - 1) : n - i \notin S}
  <1>1. SUFFICES ASSUME T # {} PROVE FALSE
    <2>1. SUFFICES ASSUME NEW i \in 1..n, i \notin S PROVE FALSE
      OBVIOUS
    <2>2. n - i \in 0..(n - 1) /\ n - (n - i) = i
      OBVIOUS
    <2>. QED BY <1>1, <2>1, <2>2
  <1>2. PICK i \in T : \A j \in T : i <= j
    <2>1. T \in SUBSET (0..n)
      OBVIOUS
    <2>. HIDE DEF T
    <2>. QED BY <1>1, <2>1, LeastUpTo
  <1>3. ASSUME NEW j \in (n - i + 1)..n PROVE j \in S
    <2>1. n - j \in 0..(n - 1) /\ n - j < i /\ n - (n - j) = j
      BY <1>2
    <2>. QED BY <1>2, <2>1
  <1>. QED BY <1>2, <1>3

----------------------------------------------------------------------------
(* The parser                                                               *)

Tokens == {"(", ")", "number"} \X Nat

Acc(d, t, ts) == [depth |-> d, thread |-> t, threads |-> ts]

(* The parser goes from a to c over these tokens.                           *)
Takes(a, tokens, c) ==
    \E r : /\ r[0] = a /\ r[Len(tokens)] = c
           /\ \A i \in 1..Len(tokens) : r[i] = ParseStep(r[i - 1], tokens[i])

LEMMA TakesNone == ASSUME NEW a PROVE Takes(a, <<>>, a)
  <1>. DEFINE r == [i \in {0} |-> a]
  <1>1. r[0] = a /\ r[Len(<<>>)] = a /\ \A i \in 1..Len(<<>>) : FALSE
    OBVIOUS
  <1>. HIDE DEF r
  <1>. QED BY <1>1 DEF Takes

LEMMA TakesOne ==
  ASSUME NEW a, NEW token PROVE Takes(a, <<token>>, ParseStep(a, token))
  <1>. DEFINE c == ParseStep(a, token)
              r == [i \in 0..1 |-> IF i = 0 THEN a ELSE c]
  <1>. HIDE DEF c
  <1>1. r[0] = a /\ r[1] = c
    OBVIOUS
  <1>. HIDE DEF r
  <1>2. Len(<<token>>) = 1 /\ <<token>>[1] = token
    OBVIOUS
  <1>3. \A i \in 1..1 : i = 1 /\ i - 1 = 0
    OBVIOUS
  <1>4. Takes(a, <<token>>, c)
    BY <1>1, <1>2, <1>3 DEF Takes, c
  <1>. QED BY <1>4 DEF c

LEMMA TakesBoth ==
  ASSUME NEW b1 \in Seq(Tokens), NEW b2 \in Seq(Tokens), NEW a, NEW c, NEW e,
         Takes(a, b1, c), Takes(c, b2, e)
  PROVE  Takes(a, b1 \o b2, e)
  <1>. DEFINE n == Len(b1)
              m == Len(b2)
  <1>1. PICK r1 : /\ r1[0] = a /\ r1[n] = c
                  /\ \A i \in 1..n : r1[i] = ParseStep(r1[i - 1], b1[i])
    BY DEF Takes
  <1>2. PICK r2 : /\ r2[0] = c /\ r2[m] = e
                  /\ \A i \in 1..m : r2[i] = ParseStep(r2[i - 1], b2[i])
    BY DEF Takes
  <1>3. /\ n \in Nat /\ m \in Nat /\ Len(b1 \o b2) = n + m
        /\ \A i \in 1..(n + m) : (b1 \o b2)[i] = IF i <= n THEN b1[i] ELSE b2[i - n]
    BY ConcatProperties
  <1>. DEFINE r == [i \in 0..(n + m) |-> IF i <= n THEN r1[i] ELSE r2[i - n]]
  <1>. HIDE DEF n, m
  <1>4. r[0] = a
    BY <1>1, <1>3
  <1>5. r[n + m] = e
    <2>1. m = 0 => n + m = n
      BY <1>3
    <2>2. m # 0 => ~(n + m <= n) /\ (n + m) - n = m
      BY <1>3
    <2>3. n + m \in 0..(n + m) /\ n <= n
      BY <1>3
    <2>. QED BY <1>1, <1>2, <2>1, <2>2, <2>3
  <1>6. ASSUME NEW i \in 1..(n + m)
        PROVE  r[i] = ParseStep(r[i - 1], (b1 \o b2)[i])
    <2>1. i \in 0..(n + m) /\ i - 1 \in 0..(n + m)
      BY <1>3
    <2>2. CASE i <= n
      <3>1. i \in 1..n /\ i - 1 <= n
        BY <1>3, <2>2
      <3>2. r[i] = r1[i] /\ r[i - 1] = r1[i - 1] /\ (b1 \o b2)[i] = b1[i]
        BY <1>3, <2>1, <2>2, <3>1
      <3>. QED BY <1>1, <3>1, <3>2
    <2>3. CASE ~(i <= n)
      <3>1. i - n \in 1..m /\ (i - 1) - n = (i - n) - 1
        BY <1>3, <2>3
      <3>2. r[i] = r2[i - n] /\ (b1 \o b2)[i] = b2[i - n]
        BY <1>3, <2>1, <2>3
      <3>3. r[i - 1] = r2[(i - n) - 1]
        <4>1. CASE i - 1 <= n
          <5>1. i - 1 = n /\ (i - n) - 1 = 0
            BY <1>3, <2>3, <4>1
          <5>. QED BY <1>1, <1>2, <2>1, <4>1, <5>1
        <4>2. CASE ~(i - 1 <= n)
          BY <2>1, <3>1, <4>2
        <4>. QED BY <4>1, <4>2
      <3>. QED BY <1>2, <3>1, <3>2, <3>3
    <2>. QED BY <2>2, <2>3
  <1>. HIDE DEF r
  <1>7. \A i \in 1..Len(b1 \o b2) : r[i] = ParseStep(r[i - 1], (b1 \o b2)[i])
    BY <1>3, <1>6
  <1>8. r[Len(b1 \o b2)] = e
    BY <1>3, <1>5
  <1>. QED BY ONLY <1>4, <1>7, <1>8 DEF Takes

(* A run of the parser is the recursive function it is defined by.          *)
LEMMA ParsedIs ==
  ASSUME NEW tokens \in Seq(Tokens), NEW c, Takes(Acc(0, <<>>, <<>>), tokens, c)
  PROVE  ParseThreadResponse(tokens) = c.threads
  <1>. DEFINE n == Len(tokens)
              start == [depth |-> 0, thread |-> <<>>, threads |-> <<>>]
              D(f) == [i \in 0..n |-> IF i = 0 THEN start ELSE ParseStep(f[i - 1], tokens[i])]
              run == CHOOSE f : f = D(f)
  <1>1. ParseThreadResponse(tokens) = run[n].threads
    BY DEF ParseThreadResponse
  <1>0. n \in Nat
    OBVIOUS
  <1>. HIDE DEF n
  <1>2. PICK r : /\ r[0] = start /\ r[n] = c
                 /\ \A i \in 1..n : r[i] = ParseStep(r[i - 1], tokens[i])
    BY DEF Takes, Acc, n
  <1>. HIDE DEF start
  <1>3. \E f : f = D(f)
    <2>. DEFINE g == [i \in 0..n |-> r[i]]
    <2>1. \A i \in 0..n : g[i] = IF i = 0 THEN start ELSE ParseStep(g[i - 1], tokens[i])
      <3>1. ASSUME NEW i \in 0..n, i # 0 PROVE g[i] = ParseStep(g[i - 1], tokens[i])
        <4>1. i \in 1..n /\ i - 1 \in 0..n
          BY <1>0, <3>1
        <4>. QED BY <1>2, <4>1
      <3>2. 0 \in 0..n /\ g[0] = start
        BY <1>0, <1>2
      <3>. QED BY <3>1, <3>2
    <2>2. g = D(g)
      <3>1. g = [i \in 0..n |-> g[i]]
        OBVIOUS
      <3>. HIDE DEF g
      <3>. QED BY <2>1, <3>1
    <2>. HIDE DEF g
    <2>. QED BY <2>2
  <1>4. run = D(run)
    <2>. HIDE DEF D
    <2>. QED BY <1>3
  <1>. HIDE DEF run
  <1>5. \A i \in 0..n : run[i] = IF i = 0 THEN start ELSE ParseStep(run[i - 1], tokens[i])
    BY <1>4
  <1>6. \A i \in 0..n : run[i] = r[i]
    <2>. DEFINE S == {i \in 0..n : run[i] = r[i]}
    <2>1. 0 \in S
      BY <1>0, <1>2, <1>5
    <2>2. ASSUME NEW i \in 0..n, i \in S, i < n PROVE i + 1 \in S
      <3>1. i + 1 \in 1..n /\ i + 1 \in 0..n /\ (i + 1) - 1 = i /\ i + 1 # 0
        BY <1>0, <2>2
      <3>. QED BY <1>2, <1>5, <2>2, <3>1
    <2>. HIDE DEF S
    <2>3. \A i \in 0..n : i \in S
      BY <1>0, <2>1, <2>2, Upwards
    <2>. QED BY <2>3 DEF S
  <1>. QED BY <1>0, <1>1, <1>2, <1>6

(* Below the first parenthesis the tokens b add the numbers f to the thread. *)
Yields(b, f) ==
    /\ b \in Seq(Tokens) /\ f \in Seq(Nat)
    /\ \A d \in Nat \ {0}, t \in Seq(Nat) : \A ts :
          Takes(Acc(d, t, ts), b, Acc(d, t \o f, ts))

LEMMA Steps ==
  ASSUME NEW d \in Nat, NEW t, NEW ts
  PROVE  /\ d # 0 => ParseStep(Acc(d, t, ts), LPar) = Acc(d + 1, t, ts)
         /\ ParseStep(Acc(0, t, ts), LPar) = Acc(1, <<>>, ts)
         /\ d # 0 => ParseStep(Acc(d + 1, t, ts), RPar) = Acc(d, t, ts)
         /\ ParseStep(Acc(1, t, ts), RPar) = Acc(0, <<>>, Append(ts, t))
         /\ \A n : ParseStep(Acc(d, t, ts), Num(n)) = Acc(d, Append(t, n), ts)
  <1>1. \A n : Num(n) # LPar /\ Num(n) # RPar /\ LPar # RPar /\ Num(n)[2] = n
    BY DEF Num, LPar, RPar
  <1>3. ASSUME d # 0 PROVE ParseStep(Acc(d, t, ts), LPar) = Acc(d + 1, t, ts)
    BY <1>1, <1>3 DEF ParseStep, Acc
  <1>4. ParseStep(Acc(0, t, ts), LPar) = Acc(1, <<>>, ts)
    <2>. DEFINE a == Acc(0, t, ts)
    <2>1. a = [depth |-> 0, thread |-> t, threads |-> ts] /\ 0 + 1 = 1
      BY DEF Acc
    <2>2. ParseStep(a, LPar) = [a EXCEPT !.depth = @ + 1, !.thread = <<>>]
      <3>. HIDE DEF a
      <3>. QED BY <1>1, <2>1 DEF ParseStep
    <2>. HIDE DEF a
    <2>3. ParseStep(a, LPar) = [depth |-> 1, thread |-> <<>>, threads |-> ts]
      BY <2>1, <2>2
    <2>. QED BY <2>3 DEF Acc, a
  <1>5. ASSUME d # 0 PROVE ParseStep(Acc(d + 1, t, ts), RPar) = Acc(d, t, ts)
    <2>1. d + 1 # 1 /\ (d + 1) - 1 = d
      BY <1>5
    <2>. QED BY <1>1, <2>1 DEF ParseStep, Acc
  <1>6. ParseStep(Acc(1, t, ts), RPar) = Acc(0, <<>>, Append(ts, t))
    BY <1>1 DEF ParseStep, Acc
  <1>7. ASSUME NEW n PROVE ParseStep(Acc(d, t, ts), Num(n)) = Acc(d, Append(t, n), ts)
    BY <1>1 DEF ParseStep, Acc
  <1>. QED BY <1>3, <1>4, <1>5, <1>6, <1>7

LEMMA Singles ==
  /\ <<LPar>> \in Seq(Tokens) /\ <<RPar>> \in Seq(Tokens)
  /\ \A n \in Nat : <<Num(n)>> \in Seq(Tokens)
  BY DEF LPar, RPar, Num, Tokens

LEMMA YieldsNone == Yields(<<>>, <<>>)
  <1>1. \A t \in Seq(Nat) : t \o <<>> = t
    OBVIOUS
  <1>. QED BY <1>1, TakesNone, EmptySeq DEF Yields

LEMMA YieldsNum == ASSUME NEW n \in Nat PROVE Yields(<<Num(n)>>, <<n>>)
  <1>1. \A t \in Seq(Nat) : t \o <<n>> = Append(t, n)
    BY AppendIsConcat
  <1>2. ASSUME NEW d \in Nat \ {0}, NEW t \in Seq(Nat), NEW ts
        PROVE  Takes(Acc(d, t, ts), <<Num(n)>>, Acc(d, t \o <<n>>, ts))
    <2>1. ParseStep(Acc(d, t, ts), Num(n)) = Acc(d, t \o <<n>>, ts)
      <3>1. ParseStep(Acc(d, t, ts), Num(n)) = Acc(d, Append(t, n), ts)
        BY Steps
      <3>2. t \o <<n>> = Append(t, n)
        BY <1>1
      <3>. QED BY <3>1, <3>2
    <2>2. Takes(Acc(d, t, ts), <<Num(n)>>, ParseStep(Acc(d, t, ts), Num(n)))
      BY TakesOne
    <2>. QED BY <2>1, <2>2
  <1>3. <<n>> \in Seq(Nat)
    OBVIOUS
  <1>. QED BY <1>2, <1>3, Singles DEF Yields

LEMMA Associative ==
  ASSUME NEW t \in Seq(Nat), NEW f1 \in Seq(Nat), NEW f2 \in Seq(Nat)
  PROVE  (t \o f1) \o f2 = t \o (f1 \o f2)
  <1>. DEFINE S == Nat
  <1>1. t \in Seq(S) /\ f1 \in Seq(S) /\ f2 \in Seq(S)
    OBVIOUS
  <1>. HIDE DEF S
  <1>. QED BY ONLY <1>1, ConcatAssociative

LEMMA YieldsBoth ==
  ASSUME NEW b1, NEW f1, NEW b2, NEW f2, Yields(b1, f1), Yields(b2, f2)
  PROVE  Yields(b1 \o b2, f1 \o f2)
  <1>0. /\ b1 \in Seq(Tokens) /\ b2 \in Seq(Tokens) /\ f1 \in Seq(Nat) /\ f2 \in Seq(Nat)
    BY DEF Yields
  <1>1. ASSUME NEW d \in Nat \ {0}, NEW t \in Seq(Nat), NEW ts
        PROVE  Takes(Acc(d, t, ts), b1 \o b2, Acc(d, t \o (f1 \o f2), ts))
    <2>1. t \o f1 \in Seq(Nat) /\ (t \o f1) \o f2 = t \o (f1 \o f2)
      <3>1. t \o f1 \in Seq(Nat)
        BY <1>0, ConcatProperties
      <3>2. (t \o f1) \o f2 = t \o (f1 \o f2)
        BY ONLY <1>0, t \in Seq(Nat), Associative
      <3>. QED BY <3>1, <3>2
    <2>2. Takes(Acc(d, t, ts), b1, Acc(d, t \o f1, ts))
      BY DEF Yields
    <2>3. Takes(Acc(d, t \o f1, ts), b2, Acc(d, t \o (f1 \o f2), ts))
      BY <2>1 DEF Yields
    <2>. QED BY <1>0, <2>2, <2>3, TakesBoth
  <1>2. b1 \o b2 \in Seq(Tokens) /\ f1 \o f2 \in Seq(Nat)
    BY <1>0, ConcatProperties
  <1>. QED BY <1>1, <1>2 DEF Yields

(* An inner pair of parentheses is flattened away.                          *)
LEMMA YieldsInside ==
  ASSUME NEW b, NEW f, Yields(b, f)
  PROVE  Yields(<<LPar>> \o b \o <<RPar>>, f)
  <1>0. b \in Seq(Tokens) /\ f \in Seq(Nat)
    BY DEF Yields
  <1>1. /\ <<LPar>> \o b \in Seq(Tokens)
        /\ <<LPar>> \o b \o <<RPar>> \in Seq(Tokens)
    BY <1>0, Singles, ConcatProperties
  <1>2. ASSUME NEW d \in Nat \ {0}, NEW t \in Seq(Nat), NEW ts
        PROVE  Takes(Acc(d, t, ts), <<LPar>> \o b \o <<RPar>>, Acc(d, t \o f, ts))
    <2>1. Takes(Acc(d, t, ts), <<LPar>>, Acc(d + 1, t, ts))
      BY Steps, TakesOne
    <2>2. Takes(Acc(d + 1, t, ts), b, Acc(d + 1, t \o f, ts))
      <3>1. d + 1 \in Nat \ {0}
        OBVIOUS
      <3>. QED BY <3>1 DEF Yields
    <2>3. Takes(Acc(d + 1, t \o f, ts), <<RPar>>, Acc(d, t \o f, ts))
      BY Steps, TakesOne
    <2>4. Takes(Acc(d, t, ts), <<LPar>> \o b, Acc(d + 1, t \o f, ts))
      BY <1>0, <2>1, <2>2, Singles, TakesBoth
    <2>. QED BY <1>1, <2>3, <2>4, Singles, TakesBoth
  <1>. QED BY <1>0, <1>1, <1>2 DEF Yields

(* A group of the response is one thread.                                   *)
LEMMA GroupTakes ==
  ASSUME NEW b, NEW f, Yields(b, f), NEW ts
  PROVE  /\ <<LPar>> \o b \o <<RPar>> \in Seq(Tokens)
         /\ Takes(Acc(0, <<>>, ts), <<LPar>> \o b \o <<RPar>>, Acc(0, <<>>, Append(ts, f)))
  <1>0. b \in Seq(Tokens) /\ f \in Seq(Nat)
    BY DEF Yields
  <1>1. /\ <<LPar>> \o b \in Seq(Tokens)
        /\ <<LPar>> \o b \o <<RPar>> \in Seq(Tokens)
    BY <1>0, Singles, ConcatProperties
  <1>2. Takes(Acc(0, <<>>, ts), <<LPar>>, Acc(1, <<>>, ts))
    BY Steps, TakesOne
  <1>3. Takes(Acc(1, <<>>, ts), b, Acc(1, f, ts))
    <2>1. <<>> \in Seq(Nat) /\ <<>> \o f = f /\ 1 \in Nat \ {0}
      BY <1>0
    <2>. QED BY <2>1 DEF Yields
  <1>4. Takes(Acc(1, f, ts), <<RPar>>, Acc(0, <<>>, Append(ts, f)))
    BY Steps, TakesOne
  <1>5. Takes(Acc(0, <<>>, ts), <<LPar>> \o b, Acc(1, f, ts))
    BY <1>0, <1>2, <1>3, Singles, TakesBoth
  <1>. QED BY <1>1, <1>4, <1>5, Singles, TakesBoth

(* The concatenation of a sequence of sequences grows by one at a time.     *)
LEMMA Flattened ==
  ASSUME NEW T, NEW n \in Nat, NEW s \in [1..n -> Seq(T)]
  PROVE  \E g \in [0..n -> Seq(T)] :
            /\ g[0] = <<>> /\ \A i \in 1..n : g[i] = g[i - 1] \o s[i]
            /\ FlattenSeq(s) = g[n]
  <1>. DEFINE Grows(g, i) == /\ g \in [0..i -> Seq(T)] /\ g[0] = <<>>
                             /\ \A j \in 1..i : g[j] = g[j - 1] \o s[j]
              S == {i \in 0..n : \E g : Grows(g, i)}
  <1>1. 0 \in S
    <2>. DEFINE h == [i \in 0..0 |-> <<>>]
    <2>1. h \in [0..0 -> Seq(T)] /\ h[0] = <<>> /\ \A j \in 1..0 : FALSE
      <3>1. <<>> \in Seq(T)
        BY EmptySeq
      <3>. QED BY <3>1
    <2>. HIDE DEF h
    <2>2. Grows(h, 0)
      BY <2>1
    <2>3. 0 \in 0..n
      OBVIOUS
    <2>. HIDE DEF Grows
    <2>. QED BY <2>2, <2>3
  <1>2. ASSUME NEW i \in 0..n, i \in S, i < n PROVE i + 1 \in S
    <2>1. PICK g : Grows(g, i)
      BY <1>2
    <2>. DEFINE h == [j \in 0..(i + 1) |-> IF j = i + 1 THEN g[i] \o s[i + 1] ELSE g[j]]
    <2>2. /\ i + 1 \in 1..n /\ i + 1 \in 0..n
          /\ \A j \in 0..(i + 1) : j = i + 1 \/ j \in 0..i
          /\ \A j \in 1..i : j \in 0..i /\ j - 1 \in 0..i /\ j # i + 1 /\ j - 1 # i + 1
          /\ (i + 1) - 1 = i /\ i \in 0..i /\ i # i + 1 /\ 0 \in 0..i /\ 0 # i + 1
          /\ \A j \in 1..(i + 1) : j = i + 1 \/ j \in 1..i
      BY <1>2
    <2>3. h \in [0..(i + 1) -> Seq(T)]
      <3>1. g[i] \in Seq(T) /\ s[i + 1] \in Seq(T)
        BY <2>1, <2>2
      <3>2. g[i] \o s[i + 1] \in Seq(T)
        BY <3>1, ConcatProperties
      <3>. QED BY <2>1, <2>2, <3>2
    <2>4. h[0] = <<>>
      BY <2>1, <2>2
    <2>5. ASSUME NEW j \in 1..(i + 1) PROVE h[j] = h[j - 1] \o s[j]
      <3>1. CASE j = i + 1
        <4>1. h[i + 1] = g[i] \o s[i + 1] /\ h[i] = g[i]
          <5>1. i \in 0..(i + 1) /\ i + 1 \in 0..(i + 1) /\ i # i + 1
            BY <1>2
          <5>. QED BY <5>1
        <4>. QED BY <2>2, <3>1, <4>1
      <3>2. CASE j \in 1..i
        <4>1. h[j] = g[j] /\ h[j - 1] = g[j - 1]
          BY <1>2, <2>2, <3>2
        <4>. QED BY <2>1, <3>2, <4>1
      <3>. QED BY <2>2, <3>1, <3>2
    <2>. HIDE DEF h
    <2>6. Grows(h, i + 1)
      BY <2>3, <2>4, <2>5
    <2>. QED BY <2>2, <2>6
  <1>3. n \in S
    <2>. HIDE DEF S
    <2>1. \A i \in 0..n : i \in S
      BY <1>1, <1>2, Upwards
    <2>. QED BY <2>1
  <1>4. PICK g : Grows(g, n)
    BY <1>3
  <1>5. Len(s) = n
    OBVIOUS
  <1>6. CASE n = 0
    <2>1. s = <<>>
      BY <1>6
    <2>2. FlattenSeq(s) = s
      BY <1>5, <1>6 DEF FlattenSeq
    <2>. QED BY <1>4, <1>6, <2>1, <2>2
  <1>7. CASE n # 0
    <2>. DEFINE D(f) == [i \in 1..n |-> IF i = 1 THEN s[i] ELSE f[i - 1] \o s[i]]
                flatten == CHOOSE f : f = D(f)
    <2>1. FlattenSeq(s) = flatten[n]
      BY <1>5, <1>7 DEF FlattenSeq
    <2>2. \E f : f = D(f)
      <3>. DEFINE f == [i \in 1..n |-> g[i]]
      <3>1. \A i \in 1..n : f[i] = IF i = 1 THEN s[i] ELSE f[i - 1] \o s[i]
        <4>1. ASSUME NEW i \in 1..n, i # 1 PROVE f[i] = f[i - 1] \o s[i]
          <5>1. i - 1 \in 1..n
            BY <4>1
          <5>. QED BY <1>4, <5>1
        <4>2. 1 \in 1..n /\ g[1] = g[0] \o s[1] /\ s[1] \in Seq(T)
          <5>1. 1 \in 1..n /\ 1 - 1 = 0
            BY <1>7
          <5>. QED BY <1>4, <5>1
        <4>3. g[1] = s[1]
          <5>1. g[0] = <<>> /\ <<>> \o s[1] = s[1]
            BY <1>4, <4>2
          <5>. QED BY <4>2, <5>1
        <4>. QED BY <4>1, <4>2, <4>3
      <3>2. f = [i \in 1..n |-> f[i]]
        OBVIOUS
      <3>. HIDE DEF f
      <3>3. f = D(f)
        BY <3>1, <3>2
      <3>. QED BY <3>3
    <2>3. flatten = D(flatten)
      <3>. HIDE DEF D
      <3>. QED BY <2>2
    <2>. HIDE DEF flatten
    <2>4. \A i \in 1..n : flatten[i] = IF i = 1 THEN s[i] ELSE flatten[i - 1] \o s[i]
      BY <2>3
    <2>5. \A i \in 0..n : i # 0 => flatten[i] = g[i]
      <3>. DEFINE R == {i \in 0..n : i # 0 => flatten[i] = g[i]}
      <3>1. ASSUME NEW i \in 0..n, i \in R, i < n PROVE i + 1 \in R
        <4>1. i + 1 \in 1..n /\ i + 1 \in 0..n /\ (i + 1) - 1 = i
          BY <3>1
        <4>2. CASE i = 0
          <5>1. 1 \in 1..n /\ 1 - 1 = 0 /\ s[1] \in Seq(T)
            BY <1>7
          <5>2. g[1] = g[0] \o s[1] /\ g[0] = <<>>
            BY <1>4, <5>1
          <5>3. <<>> \o s[1] = s[1]
            BY <5>1
          <5>4. flatten[1] = s[1]
            BY <2>4, <5>1
          <5>. QED BY <4>1, <4>2, <5>2, <5>3, <5>4
        <4>3. CASE i # 0
          <5>1. i + 1 # 1 /\ flatten[i] = g[i]
            BY <3>1, <4>3
          <5>2. flatten[i + 1] = g[i] \o s[i + 1]
            BY <2>4, <4>1, <5>1
          <5>3. g[i + 1] = g[i] \o s[i + 1]
            BY <1>4, <4>1
          <5>. QED BY <4>1, <5>2, <5>3
        <4>. QED BY <4>2, <4>3
      <3>2. 0 \in R
        OBVIOUS
      <3>. HIDE DEF R
      <3>3. \A i \in 0..n : i \in R
        BY <3>1, <3>2, Upwards
      <3>. QED BY <3>3 DEF R
    <2>6. FlattenSeq(s) = g[n]
      BY <1>7, <2>1, <2>5
    <2>. QED BY <1>4, <2>6
  <1>. QED BY <1>6, <1>7

(* The tokens b name as many messages as D has, the first of D first.       *)
Lists(b, D) ==
    /\ IsFiniteSet(D)
    /\ \E f : /\ Yields(b, f) /\ Len(f) = Cardinality(D)
              /\ \A m \in D : (\A x \in D : m <= x) => f[1] = m

LEMMA ListsNone == Lists(<<>>, {})
  BY YieldsNone, FS_EmptySet DEF Lists

LEMMA ListsNum == ASSUME NEW n \in Nat PROVE Lists(<<Num(n)>>, {n})
  <1>1. Len(<<n>>) = 1 /\ <<n>>[1] = n
    OBVIOUS
  <1>. QED BY <1>1, YieldsNum, FS_Singleton DEF Lists

LEMMA ListsInside ==
  ASSUME NEW b, NEW D, Lists(b, D) PROVE Lists(<<LPar>> \o b \o <<RPar>>, D)
  BY YieldsInside DEF Lists

LEMMA ListsTokens == ASSUME NEW b, NEW D, Lists(b, D) PROVE b \in Seq(Tokens)
  BY DEF Lists, Yields

LEMMA ListsBoth ==
  ASSUME NEW b, NEW D \in SUBSET Nat, Lists(b, D), NEW c, NEW E \in SUBSET Nat, Lists(c, E),
         D \cap E = {}, D # {} => \E x \in D : \A y \in E : x < y
  PROVE  Lists(b \o c, D \cup E)
  <1>1. PICK f : /\ Yields(b, f) /\ Len(f) = Cardinality(D)
                 /\ \A m \in D : (\A x \in D : m <= x) => f[1] = m
    BY DEF Lists
  <1>2. PICK g : /\ Yields(c, g) /\ Len(g) = Cardinality(E)
                 /\ \A m \in E : (\A x \in E : m <= x) => g[1] = m
    BY DEF Lists
  <1>3. IsFiniteSet(D) /\ IsFiniteSet(E)
    BY DEF Lists
  <1>4. /\ IsFiniteSet(D \cup E) /\ Cardinality(D \cup E) = Cardinality(D) + Cardinality(E)
        /\ Cardinality(D) \in Nat /\ Cardinality(E) \in Nat
    <2>1. /\ IsFiniteSet(D \cup E)
          /\ Cardinality(D \cup E) = Cardinality(D) + Cardinality(E) - Cardinality(D \cap E)
      BY <1>3, FS_Union
    <2>2. Cardinality(D \cap E) = 0
      BY FS_EmptySet
    <2>3. Cardinality(D) \in Nat /\ Cardinality(E) \in Nat
      BY <1>3, FS_CardinalityType
    <2>. QED BY <2>1, <2>2, <2>3
  <1>5. Yields(b \o c, f \o g)
    BY <1>1, <1>2, YieldsBoth
  <1>6. f \in Seq(Nat) /\ g \in Seq(Nat)
    BY <1>1, <1>2 DEF Yields
  <1>7. /\ Len(f \o g) = Len(f) + Len(g)
        /\ Len(f) >= 1 => (f \o g)[1] = f[1]
        /\ Len(f) = 0 => f \o g = g
    <2>1. /\ Len(f \o g) = Len(f) + Len(g) /\ Len(f) \in Nat /\ Len(g) \in Nat
          /\ \A i \in 1..(Len(f) + Len(g)) :
                (f \o g)[i] = IF i <= Len(f) THEN f[i] ELSE g[i - Len(f)]
      BY ONLY <1>6, ConcatProperties
    <2>2. ASSUME Len(f) >= 1 PROVE (f \o g)[1] = f[1]
      <3>1. 1 \in 1..(Len(f) + Len(g)) /\ 1 <= Len(f)
        BY ONLY <2>1, <2>2
      <3>. QED BY ONLY <2>1, <3>1
    <2>3. ASSUME Len(f) = 0 PROVE f \o g = g
      <3>1. f = <<>>
        BY ONLY <1>6, <2>3, EmptySeq
      <3>. QED BY ONLY <1>6, <3>1, ConcatEmptySeq
    <2>. QED BY ONLY <2>1, <2>2, <2>3
  <1>8. ASSUME NEW m \in D \cup E, \A x \in D \cup E : m <= x
        PROVE  (f \o g)[1] = m
    <2>1. CASE D = {}
      <3>1. Len(f) = 0
        BY <1>1, <2>1, FS_EmptySet
      <3>. QED BY <1>2, <1>7, <1>8, <2>1, <3>1
    <2>2. CASE D # {}
      <3>1. Len(f) >= 1
        BY <1>1, <1>3, <1>4, <2>2, FS_EmptySet
      <3>2. m \in D
        <4>1. SUFFICES ASSUME m \in E PROVE FALSE
          BY <1>8
        <4>2. PICK x \in D : \A y \in E : x < y
          BY <2>2
        <4>. QED BY <1>8, <4>1, <4>2
      <3>. QED BY <1>1, <1>7, <1>8, <3>1, <3>2
    <2>. QED BY <2>1, <2>2
  <1>. QED BY <1>1, <1>2, <1>4, <1>5, <1>7, <1>8 DEF Lists

(* Pieces that begin with their own place, and share none.                  *)
LEMMA ListsFlat ==
  ASSUME NEW n \in Nat, NEW s, DOMAIN s = 1..n, s = [i \in 1..n |-> s[i]], NEW D,
         \A i \in 1..n : /\ Lists(s[i], D[i]) /\ D[i] \in SUBSET Nat
                         /\ \A x \in D[i] : i \in D[i] /\ i <= x,
         \A i, j \in 1..n : i # j => D[i] \cap D[j] = {}
  PROVE  Lists(FlattenSeq(s), UNION {D[i] : i \in 1..n})
  <1>1. s \in [1..n -> Seq(Tokens)]
    BY ListsTokens
  <1>2. PICK g \in [0..n -> Seq(Tokens)] :
            /\ g[0] = <<>> /\ \A i \in 1..n : g[i] = g[i - 1] \o s[i]
            /\ FlattenSeq(s) = g[n]
    <2>1. \E g \in [0..n -> Seq(Tokens)] :
              /\ g[0] = <<>> /\ \A i \in 1..n : g[i] = g[i - 1] \o s[i]
              /\ FlattenSeq(s) = g[n]
      BY ONLY n \in Nat, <1>1, Flattened
    <2>. QED BY ONLY <2>1
  <1>. DEFINE U(i) == UNION {D[j] : j \in 1..i}
              S == {i \in 0..n : Lists(g[i], U(i))}
  <1>3. 0 \in S
    <2>1. U(0) = {}
      OBVIOUS
    <2>. HIDE DEF U
    <2>2. Lists(g[0], U(0))
      BY <1>2, <2>1, ListsNone
    <2>. QED BY <2>2
  <1>4. ASSUME NEW i \in 0..n, i \in S, i < n PROVE i + 1 \in S
    <2>1. /\ i + 1 \in 1..n /\ i + 1 \in 0..n /\ (i + 1) - 1 = i
          /\ \A j \in 1..i : j \in 1..n /\ j # i + 1 /\ j < i + 1
          /\ 1..(i + 1) = 1..i \cup {i + 1}
      BY <1>4
    <2>2. U(i + 1) = U(i) \cup D[i + 1]
      BY <2>1
    <2>3. U(i) \cap D[i + 1] = {}
      BY <2>1
    <2>4. U(i) # {} => \E x \in U(i) : \A y \in D[i + 1] : x < y
      <3>1. SUFFICES ASSUME NEW x \in U(i) PROVE \E z \in U(i) : \A y \in D[i + 1] : z < y
        OBVIOUS
      <3>2. PICK j \in 1..i : x \in D[j]
        OBVIOUS
      <3>3. j \in D[j] /\ j \in U(i)
        BY <2>1, <3>2
      <3>4. ASSUME NEW y \in D[i + 1] PROVE j < y
        <4>1. i + 1 <= y /\ j < i + 1 /\ y \in Nat
          BY <2>1
        <4>. QED BY <4>1
      <3>. QED BY <3>3, <3>4
    <2>5. U(i) \in SUBSET Nat
      BY <2>1
    <2>6. Lists(g[i], U(i)) /\ Lists(s[i + 1], D[i + 1]) /\ D[i + 1] \in SUBSET Nat
      BY <1>4, <2>1
    <2>7. g[i + 1] = g[i] \o s[i + 1]
      BY <1>2, <2>1
    <2>. HIDE DEF U
    <2>8. Lists(g[i] \o s[i + 1], U(i) \cup D[i + 1])
      BY <2>3, <2>4, <2>5, <2>6, ListsBoth
    <2>. QED BY <2>1, <2>2, <2>7, <2>8
  <1>5. n \in S
    <2>. HIDE DEF S
    <2>1. \A i \in 0..n : i \in S
      BY <1>3, <1>4, Upwards
    <2>. QED BY <2>1
  <1>. QED BY <1>2, <1>5

LEMMA ListsSiblings ==
  ASSUME NEW view, NEW n \in Nat, DOMAIN view = 1..n, NEW branch, NEW D,
         NEW tops \in SUBSET (1..n),
         \A k \in tops : /\ Lists(branch[k], D[k]) /\ D[k] \in SUBSET Nat
                         /\ k \in D[k] /\ \A x \in D[k] : k <= x,
         \A i, j \in tops : i # j => D[i] \cap D[j] = {}
  PROVE  Lists(Siblings(view, branch, tops), UNION {D[k] : k \in tops})
  <1>1. IsFiniteSet(tops)
    <2>1. IsFiniteSet(1..n)
      BY FS_Interval
    <2>. QED BY <2>1, FS_Subset
  <1>2. CASE Cardinality(tops) = 1
    <2>1. PICK k : tops = {k}
      BY <1>1, <1>2, FS_Singleton
    <2>2. Siblings(view, branch, tops) = branch[k]
      BY <1>2, <2>1 DEF Siblings
    <2>3. UNION {D[j] : j \in tops} = D[k]
      BY <2>1
    <2>. QED BY <2>1, <2>2, <2>3
  <1>3. CASE Cardinality(tops) # 1
    <2>. DEFINE s == [k \in 1..n |-> IF k \in tops THEN <<LPar>> \o branch[k] \o <<RPar>> ELSE <<>>]
                E == [k \in 1..n |-> IF k \in tops THEN D[k] ELSE {}]
    <2>1. Siblings(view, branch, tops) = FlattenSeq(s)
      BY <1>3 DEF Siblings
    <2>2. ASSUME NEW i \in 1..n
          PROVE  /\ Lists(s[i], E[i]) /\ E[i] \in SUBSET Nat
                 /\ \A x \in E[i] : i \in E[i] /\ i <= x
      <3>1. CASE i \in tops
        <4>1. s[i] = <<LPar>> \o branch[i] \o <<RPar>> /\ E[i] = D[i]
          BY <3>1
        <4>2. Lists(<<LPar>> \o branch[i] \o <<RPar>>, D[i])
          BY <3>1, ListsInside
        <4>. HIDE DEF s, E
        <4>. QED BY <3>1, <4>1, <4>2
      <3>2. CASE i \notin tops
        <4>1. s[i] = <<>> /\ E[i] = {}
          BY <3>2
        <4>. HIDE DEF s, E
        <4>. QED BY <4>1, ListsNone
      <3>. QED BY <3>1, <3>2
    <2>3. ASSUME NEW i \in 1..n, NEW j \in 1..n, i # j PROVE E[i] \cap E[j] = {}
      BY <2>3
    <2>4. UNION {E[i] : i \in 1..n} = UNION {D[k] : k \in tops}
      <3>1. \A i \in 1..n : E[i] = IF i \in tops THEN D[i] ELSE {}
        OBVIOUS
      <3>. HIDE DEF E
      <3>. QED BY <3>1
    <2>5. DOMAIN s = 1..n /\ s = [i \in 1..n |-> s[i]]
      OBVIOUS
    <2>. HIDE DEF s, E
    <2>6. Lists(FlattenSeq(s), UNION {E[i] : i \in 1..n})
      BY <2>2, <2>3, <2>5, ListsFlat
    <2>. QED BY <2>1, <2>4, <2>6
  <1>. QED BY <1>2, <1>3

----------------------------------------------------------------------------
(* The tree of the server                                                   *)

LEMMA ParentBefore ==
  ASSUME NEW view, NEW n \in Nat \ {0}
  PROVE  /\ Parent(view, n) \in 0..(n - 1)
         /\ Parent(view, n) # 0 => At(view, Parent(view, n)) \in RefsOf(At(view, n))
  <1>. DEFINE older == {k \in 1..(n - 1) : At(view, k) \in RefsOf(At(view, n))}
  <1>1. CASE older = {}
    BY <1>1 DEF Parent
  <1>2. CASE older # {}
    <2>. DEFINE later == {n - k : k \in older}
    <2>1. later \in SUBSET (0..n) /\ later # {}
      BY <1>2
    <2>. HIDE DEF later
    <2>2. PICK l \in later : \A m \in later : l <= m
      BY <2>1, LeastUpTo
    <2>. USE DEF later
    <2>3. PICK k \in older : l = n - k
      BY <2>2
    <2>4. \A i \in older : i <= k
      <3>1. ASSUME NEW i \in older PROVE i <= k
        <4>1. n - i \in later
          OBVIOUS
        <4>2. n - k <= n - i
          BY <2>2, <2>3, <4>1
        <4>. QED BY <4>2
      <3>. QED BY <3>1
    <2>. HIDE DEF older
    <2>5. \E k1 \in older : \A i \in older : i <= k1
      BY <2>3, <2>4
    <2>6. Parent(view, n) = CHOOSE k1 \in older : \A i \in older : i <= k1
      BY <1>2 DEF Parent, older
    <2>7. Parent(view, n) \in older
      BY <2>5, <2>6
    <2>. QED BY <2>7 DEF older
  <1>. QED BY <1>1, <1>2

(* A message and the replies below it.                                      *)
Below(view, k) ==
    {x \in DOMAIN view :
        \A S \in SUBSET DOMAIN view :
            k \in S /\ (\A y \in DOMAIN view : Parent(view, y) \in S => y \in S) => x \in S}

LEMMA BelowIs ==
  ASSUME NEW n \in Nat, NEW view, DOMAIN view = 1..n, NEW k \in 1..n
  PROVE  /\ Below(view, k) \in SUBSET (1..n) /\ k \in Below(view, k)
         /\ \A x \in Below(view, k) : k <= x
         /\ \A y \in 1..n : Parent(view, y) \in Below(view, k) => y \in Below(view, k)
         /\ \A x \in Below(view, k) : x = k \/ Parent(view, x) \in Below(view, k)
         /\ \A S \in SUBSET (1..n) :
               k \in S /\ (\A y \in 1..n : Parent(view, y) \in S => y \in S) =>
                  Below(view, k) \subseteq S
  <1>1. /\ Below(view, k) \in SUBSET (1..n) /\ k \in Below(view, k)
        /\ \A S \in SUBSET (1..n) :
               k \in S /\ (\A y \in 1..n : Parent(view, y) \in S => y \in S) =>
                  Below(view, k) \subseteq S
    BY DEF Below
  <1>2. ASSUME NEW y \in 1..n, Parent(view, y) \in Below(view, k)
        PROVE  y \in Below(view, k)
    BY <1>2 DEF Below
  <1>3. \A x \in Below(view, k) : k <= x
    <2>. DEFINE S == {x \in 1..n : k <= x}
    <2>1. S \in SUBSET (1..n) /\ k \in S
      OBVIOUS
    <2>2. ASSUME NEW y \in 1..n, Parent(view, y) \in S PROVE y \in S
      <3>1. Parent(view, y) \in 0..(y - 1)
        BY ParentBefore
      <3>. QED BY <2>2, <3>1
    <2>3. Below(view, k) \subseteq S
      <3>. HIDE DEF S
      <3>. QED BY <1>1, <2>1, <2>2
    <2>. QED BY <2>3
  <1>4. \A x \in Below(view, k) : x = k \/ Parent(view, x) \in Below(view, k)
    <2>. DEFINE S == {x \in Below(view, k) : x = k \/ Parent(view, x) \in Below(view, k)}
    <2>1. S \in SUBSET (1..n) /\ k \in S
      BY <1>1
    <2>2. \A y \in 1..n : Parent(view, y) \in S => y \in S
      BY <1>2
    <2>3. Below(view, k) \subseteq S
      <3>. HIDE DEF S
      <3>. QED BY <1>1, <2>1, <2>2
    <2>. QED BY <2>3
  <1>. QED BY <1>1, <1>2, <1>3, <1>4

LEMMA BelowSplits ==
  ASSUME NEW n \in Nat, NEW view, DOMAIN view = 1..n, NEW k \in 1..n
  PROVE  /\ Children(view, k) \in SUBSET (1..n) /\ \A c \in Children(view, k) : k < c
         /\ Below(view, k) = {k} \cup UNION {Below(view, c) : c \in Children(view, k)}
  <1>1. Children(view, k) \in SUBSET (1..n) /\ \A c \in Children(view, k) : k < c
    <2>1. ASSUME NEW c \in 1..n, Parent(view, c) = k PROVE k < c
      <3>1. Parent(view, c) \in 0..(c - 1)
        BY ParentBefore
      <3>. QED BY <2>1, <3>1
    <2>. QED BY <2>1 DEF Children
  <1>. DEFINE S == {k} \cup UNION {Below(view, c) : c \in Children(view, k)}
  <1>2. S \subseteq Below(view, k)
    <2>1. ASSUME NEW c \in Children(view, k) PROVE Below(view, c) \subseteq Below(view, k)
      <3>1. c \in 1..n /\ Parent(view, c) = k
        BY DEF Children
      <3>2. k \in Below(view, k) /\ Below(view, k) \in SUBSET (1..n)
            /\ \A y \in 1..n : Parent(view, y) \in Below(view, k) => y \in Below(view, k)
        BY BelowIs
      <3>3. c \in Below(view, k)
        BY <3>1, <3>2
      <3>. QED BY <3>1, <3>2, <3>3, BelowIs
    <2>. QED BY <2>1, BelowIs
  <1>3. Below(view, k) \subseteq S
    <2>1. S \in SUBSET (1..n) /\ k \in S
      BY <1>1, BelowIs
    <2>2. ASSUME NEW y \in 1..n, Parent(view, y) \in S PROVE y \in S
      <3>1. CASE Parent(view, y) = k
        <4>1. y \in Children(view, k) /\ y \in Below(view, y)
          BY <3>1, BelowIs DEF Children
        <4>. QED BY <4>1
      <3>2. CASE Parent(view, y) # k
        <4>1. PICK c \in Children(view, k) : Parent(view, y) \in Below(view, c)
          BY <2>2, <3>2
        <4>2. y \in Below(view, c)
          BY <1>1, <4>1, BelowIs
        <4>. QED BY <4>1, <4>2
      <3>. QED BY <3>1, <3>2
    <2>. HIDE DEF S
    <2>. QED BY <2>1, <2>2, BelowIs
  <1>. QED BY <1>1, <1>2, <1>3

LEMMA SiblingsShareNothing ==
  ASSUME NEW n \in Nat, NEW view, DOMAIN view = 1..n, NEW i \in 1..n, NEW j \in 1..n,
         i # j, Parent(view, i) = Parent(view, j)
  PROVE  Below(view, i) \cap Below(view, j) = {}
  <1>. DEFINE B == Below(view, i) \cap Below(view, j)
  <1>1. SUFFICES ASSUME B # {} PROVE FALSE
    OBVIOUS
  <1>2. Below(view, i) \in SUBSET (1..n) /\ Below(view, j) \in SUBSET (1..n)
    BY BelowIs
  <1>3. PICK x \in B : \A y \in B : x <= y
    <2>1. B \in SUBSET (0..n)
      BY <1>2
    <2>. HIDE DEF B
    <2>. QED BY <1>1, <2>1, LeastUpTo
  <1>4. Parent(view, x) \in 0..(x - 1) /\ x \in 1..n
    BY <1>2, ParentBefore
  <1>5. Parent(view, x) \notin B
    BY <1>3, <1>4
  <1>6. x = i \/ x = j
    BY <1>5, BelowIs
  <1>7. Parent(view, i) \in 0..(i - 1) /\ Parent(view, j) \in 0..(j - 1)
    BY ParentBefore
  <1>8. ASSUME x = i PROVE FALSE
    <2>1. Parent(view, i) \in Below(view, j)
      BY <1>8, BelowIs
    <2>2. j <= Parent(view, j)
      BY <2>1, BelowIs
    <2>. QED BY <1>7, <2>2
  <1>9. ASSUME x = j PROVE FALSE
    <2>1. Parent(view, j) \in Below(view, i)
      BY <1>9, BelowIs
    <2>2. i <= Parent(view, i)
      BY <2>1, BelowIs
    <2>. QED BY <1>7, <2>2
  <1>. QED BY <1>6, <1>8, <1>9

LEMMA SiblingsSame ==
  ASSUME NEW view, NEW g, NEW h, NEW tops, \A k \in tops : g[k] = h[k]
  PROVE  Siblings(view, g, tops) = Siblings(view, h, tops)
  <1>1. ASSUME Cardinality(tops) = 1, tops # {}
        PROVE  g[CHOOSE k \in tops : TRUE] = h[CHOOSE k \in tops : TRUE]
    BY <1>1
  <1>2. [k \in DOMAIN view |-> IF k \in tops THEN <<LPar>> \o g[k] \o <<RPar>> ELSE <<>>]
        = [k \in DOMAIN view |-> IF k \in tops THEN <<LPar>> \o h[k] \o <<RPar>> ELSE <<>>]
    OBVIOUS
  <1>3. Cardinality(tops) = 1 => tops # {}
    BY FS_EmptySet
  <1>. QED BY <1>1, <1>2, <1>3 DEF Siblings

(* The branches are what their definition says: places refer upwards.       *)
LEMMA BranchesAre ==
  ASSUME NEW n \in Nat, NEW view, DOMAIN view = 1..n
  PROVE  \A k \in 1..n : Branches(view)[k] =
             <<Num(k)>> \o Siblings(view, Branches(view), Children(view, k))
  <1>. DEFINE E(f, k) == <<Num(k)>> \o Siblings(view, f, Children(view, k))
              D(f) == [k \in 1..n |-> E(f, k)]
              branch == CHOOSE f : f = D(f)
              S == {i \in 0..n : \E f : \A k \in (n - i + 1)..n : f[k] = E(f, k)}
  <1>1. Branches(view) = branch
    BY DEF Branches
  <1>2. ASSUME NEW f, NEW g, NEW k \in 1..n, \A c \in (k + 1)..n : f[c] = g[c]
        PROVE  E(f, k) = E(g, k)
    <2>1. \A c \in Children(view, k) : f[c] = g[c]
      <3>1. \A c \in Children(view, k) : c \in (k + 1)..n
        BY BelowSplits
      <3>. QED BY <1>2, <3>1
    <2>2. Siblings(view, f, Children(view, k)) = Siblings(view, g, Children(view, k))
      BY <2>1, SiblingsSame
    <2>. QED BY <2>2
  <1>. HIDE DEF E
  <1>3. 0 \in S
    <2>1. \A f : \A k \in (n - 0 + 1)..n : f[k] = E(f, k)
      OBVIOUS
    <2>. QED BY <2>1
  <1>4. ASSUME NEW i \in 0..n, i \in S, i < n PROVE i + 1 \in S
    <2>1. PICK f : \A k \in (n - i + 1)..n : f[k] = E(f, k)
      BY <1>4
    <2>. DEFINE l == n - i
                g == [k \in 1..n |-> IF k = l THEN E(f, l) ELSE f[k]]
    <2>2. l \in 1..n /\ n - (i + 1) + 1 = l /\ n - i + 1 = l + 1 /\ i + 1 \in 0..n
      BY <1>4
    <2>. HIDE DEF l
    <2>3. \A k \in 1..n : g[k] = IF k = l THEN E(f, l) ELSE f[k]
      OBVIOUS
    <2>. HIDE DEF g
    <2>4. ASSUME NEW k \in l..n PROVE g[k] = E(g, k)
      <3>1. k \in 1..n
        BY <2>2
      <3>2. \A c \in (k + 1)..n : f[c] = g[c]
        <4>1. ASSUME NEW c \in (k + 1)..n PROVE f[c] = g[c]
          <5>1. c \in 1..n /\ c # l
            BY <2>2
          <5>. QED BY <2>3, <5>1
        <4>. QED BY <4>1
      <3>3. E(f, k) = E(g, k)
        BY <1>2, <3>1, <3>2
      <3>4. CASE k = l
        BY <2>2, <2>3, <3>3, <3>4
      <3>5. CASE k # l
        <4>1. k \in (l + 1)..n
          BY <2>2, <3>5
        <4>. QED BY <2>1, <2>2, <2>3, <3>1, <3>3, <3>5, <4>1
      <3>. QED BY <3>4, <3>5
    <2>. QED BY <2>2, <2>4
  <1>5. n \in S
    <2>. HIDE DEF S
    <2>1. \A i \in 0..n : i \in S
      BY <1>3, <1>4, Upwards
    <2>. QED BY <2>1
  <1>6. \E f : f = D(f)
    <2>1. PICK f : \A k \in 1..n : f[k] = E(f, k)
      <3>1. n - n + 1 = 1
        OBVIOUS
      <3>. QED BY <1>5, <3>1
    <2>. DEFINE g == [k \in 1..n |-> f[k]]
    <2>2. ASSUME NEW k \in 1..n PROVE g[k] = E(g, k)
      <3>1. \A c \in (k + 1)..n : f[c] = g[c]
        OBVIOUS
      <3>2. E(f, k) = E(g, k)
        <4>. HIDE DEF g
        <4>. QED BY <1>2, <3>1
      <3>3. g[k] = f[k]
        OBVIOUS
      <3>. HIDE DEF g
      <3>. QED BY <2>1, <3>2, <3>3
    <2>3. g = [k \in 1..n |-> g[k]]
      OBVIOUS
    <2>. HIDE DEF g
    <2>4. g = D(g)
      BY <2>2, <2>3
    <2>. QED BY <2>4
  <1>7. branch = D(branch)
    <2>. HIDE DEF D
    <2>. QED BY <1>6
  <1>. HIDE DEF branch
  <1>8. \A k \in 1..n : branch[k] = E(branch, k)
    BY <1>7
  <1>. QED BY <1>1, <1>8 DEF E

LEMMA BranchLists ==
  ASSUME NEW n \in Nat, NEW view, DOMAIN view = 1..n
  PROVE  \A k \in 1..n : Lists(Branches(view)[k], Below(view, k))
  <1>. DEFINE S == {k \in 1..n : Lists(Branches(view)[k], Below(view, k))}
              D == [k \in 1..n |-> Below(view, k)]
  <1>1. ASSUME NEW k \in 1..n, \A j \in (k + 1)..n : j \in S
        PROVE  k \in S
    <2>. DEFINE below == Children(view, k)
                E == UNION {Below(view, c) : c \in below}
    <2>1. below \in SUBSET (1..n) /\ \A c \in below : c \in (k + 1)..n
      BY BelowSplits
    <2>2. Below(view, k) = {k} \cup E
      BY BelowSplits
    <2>3. \A c \in below : /\ Lists(Branches(view)[c], D[c]) /\ D[c] \in SUBSET Nat
                           /\ c \in D[c] /\ \A x \in D[c] : c <= x
      <3>1. ASSUME NEW c \in below
            PROVE  /\ Lists(Branches(view)[c], D[c]) /\ D[c] \in SUBSET Nat
                   /\ c \in D[c] /\ \A x \in D[c] : c <= x
        <4>1. c \in 1..n /\ c \in S /\ D[c] = Below(view, c)
          BY <1>1, <2>1
        <4>2. /\ Below(view, c) \in SUBSET (1..n) /\ c \in Below(view, c)
              /\ \A x \in Below(view, c) : c <= x
          BY <4>1, BelowIs
        <4>3. Lists(Branches(view)[c], Below(view, c))
          BY <4>1
        <4>4. 1..n \subseteq Nat
          OBVIOUS
        <4>. HIDE DEF S, D, below
        <4>. QED BY <4>1, <4>2, <4>3, <4>4
      <3>. QED BY <3>1
    <2>4. \A i, j \in below : i # j => D[i] \cap D[j] = {}
      <3>1. ASSUME NEW i \in below, NEW j \in below, i # j PROVE D[i] \cap D[j] = {}
        <4>1. i \in 1..n /\ j \in 1..n /\ Parent(view, i) = Parent(view, j)
          BY <2>1 DEF Children
        <4>2. Below(view, i) \cap Below(view, j) = {}
          BY <3>1, <4>1, SiblingsShareNothing
        <4>3. D[i] = Below(view, i) /\ D[j] = Below(view, j)
          BY <4>1
        <4>. HIDE DEF D
        <4>. QED BY <4>2, <4>3
      <3>. QED BY <3>1
    <2>5. UNION {D[c] : c \in below} = E
      BY <2>1
    <2>. HIDE DEF D, below
    <2>6. Lists(Siblings(view, Branches(view), below), E)
      BY <2>1, <2>3, <2>4, <2>5, ListsSiblings
    <2>7. Branches(view)[k] = <<Num(k)>> \o Siblings(view, Branches(view), below)
      BY BranchesAre DEF below
    <2>8. E \in SUBSET Nat /\ \A y \in E : k < y
      <3>1. ASSUME NEW c \in below, NEW y \in Below(view, c) PROVE y \in Nat /\ k < y
        <4>1. c \in (k + 1)..n /\ c \in 1..n
          BY <2>1
        <4>2. c <= y /\ y \in 1..n
          BY <4>1, BelowIs
        <4>. QED BY <4>1, <4>2
      <3>. QED BY <3>1
    <2>. HIDE DEF E
    <2>9. Lists(<<Num(k)>>, {k}) /\ {k} \in SUBSET Nat /\ {k} \cap E = {}
      BY <2>8, ListsNum
    <2>10. Lists(<<Num(k)>> \o Siblings(view, Branches(view), below), {k} \cup E)
      BY <2>6, <2>8, <2>9, ListsBoth
    <2>. QED BY <2>2, <2>7, <2>10
  <1>. HIDE DEF S
  <1>2. \A k \in 1..n : k \in S
    BY <1>1, Downwards
  <1>. QED BY <1>2 DEF S

----------------------------------------------------------------------------
(* The threads of the server, and what the parser makes of the response     *)

LEMMA ThreadIs ==
  ASSUME NEW among, NEW m \in among
  PROVE  /\ m \in Thread(m, among) /\ Thread(m, among) \subseteq among
         /\ \A y \in Thread(m, among), z \in among : Linked(y, z) => z \in Thread(m, among)
  <1>. DEFINE L(y, z) == Linked(y, z)
  <1>1. Thread(m, among) =
          {x \in among : \A S \in SUBSET among :
              m \in S /\ (\A y \in S, z \in among : L(y, z) => z \in S) => x \in S}
    BY DEF Thread
  <1>. HIDE DEF L
  <1>2. m \in Thread(m, among) /\ Thread(m, among) \subseteq among
    BY <1>1
  <1>3. ASSUME NEW y \in Thread(m, among), NEW z \in among, L(y, z)
        PROVE  z \in Thread(m, among)
    BY <1>1, <1>3
  <1>4. \A y \in Thread(m, among), z \in among : L(y, z) => z \in Thread(m, among)
    BY <1>3
  <1>. QED BY <1>2, <1>4 DEF L

LEMMA ClassIs ==
  ASSUME NEW n \in Nat, NEW view, DOMAIN view = 1..n, NEW r \in 1..n
  PROVE  /\ Class(view, r) \in SUBSET (1..n) /\ r \in Class(view, r)
         /\ \A x \in Class(view, r) : Parent(view, x) # 0 => Parent(view, x) \in Class(view, r)
         /\ \A y \in 1..n : Parent(view, y) \in Class(view, r) => y \in Class(view, r)
  <1>. DEFINE T == Thread(At(view, r), Places(view))
  <1>1. \A k \in 1..n : At(view, k) \in Places(view)
    BY DEF Places
  <1>2. /\ At(view, r) \in T
        /\ \A y \in T, z \in Places(view) : Linked(y, z) => z \in T
    BY <1>1, ThreadIs
  <1>3. Class(view, r) = {k \in 1..n : At(view, k) \in T}
    BY DEF Class
  <1>. HIDE DEF T
  <1>4. ASSUME NEW x \in 1..n, Parent(view, x) # 0
        PROVE  /\ Parent(view, x) \in 1..n
               /\ Linked(At(view, x), At(view, Parent(view, x)))
               /\ Linked(At(view, Parent(view, x)), At(view, x))
    <2>1. Parent(view, x) \in 0..(x - 1) /\ At(view, Parent(view, x)) \in RefsOf(At(view, x))
      BY <1>4, ParentBefore
    <2>2. Parent(view, x) \in 1..n
      BY <1>4, <2>1
    <2>. QED BY <2>1, <2>2 DEF Linked
  <1>5. ASSUME NEW x \in Class(view, r), Parent(view, x) # 0
        PROVE  Parent(view, x) \in Class(view, r)
    <2>1. x \in 1..n /\ At(view, x) \in T
      BY <1>3
    <2>2. /\ Parent(view, x) \in 1..n /\ At(view, Parent(view, x)) \in Places(view)
          /\ Linked(At(view, x), At(view, Parent(view, x)))
      BY <1>1, <1>4, <1>5, <2>1
    <2>. QED BY <1>2, <1>3, <2>1, <2>2
  <1>6. ASSUME NEW y \in 1..n, Parent(view, y) \in Class(view, r)
        PROVE  y \in Class(view, r)
    <2>1. Parent(view, y) \in 1..n /\ At(view, Parent(view, y)) \in T
      BY <1>3, <1>6
    <2>2. Parent(view, y) # 0
      BY <2>1
    <2>3. At(view, y) \in Places(view) /\ Linked(At(view, Parent(view, y)), At(view, y))
      BY <1>1, <1>4, <2>2
    <2>. QED BY <1>2, <1>3, <2>1, <2>3
  <1>. QED BY <1>2, <1>3, <1>5, <1>6

(* A thread is what lies below those of its messages that have no parent.   *)
LEMMA ClassSplits ==
  ASSUME NEW n \in Nat, NEW view, DOMAIN view = 1..n, NEW r \in 1..n
  PROVE  Class(view, r) = UNION {Below(view, k) : k \in Class(view, r) \cap Children(view, 0)}
  <1>. DEFINE C == Class(view, r)
              tops == C \cap Children(view, 0)
              U == UNION {Below(view, k) : k \in tops}
  <1>1. /\ C \in SUBSET (1..n)
        /\ \A x \in C : Parent(view, x) # 0 => Parent(view, x) \in C
        /\ \A y \in 1..n : Parent(view, y) \in C => y \in C
    BY ClassIs
  <1>. HIDE DEF C
  <1>2. ASSUME NEW k \in tops PROVE Below(view, k) \subseteq C
    BY <1>1, BelowIs
  <1>3. ASSUME C \ U # {} PROVE FALSE
    <2>. HIDE DEF U
    <2>1. C \ U \in SUBSET (0..n)
      <3>1. 1..n \subseteq 0..n
        OBVIOUS
      <3>. QED BY <1>1, <3>1
    <2>2. PICK x \in C \ U : \A y \in C \ U : x <= y
      BY <1>3, <2>1, LeastUpTo
    <2>3. x \in 1..n /\ Parent(view, x) \in 0..(x - 1)
      BY <1>1, ParentBefore
    <2>. USE DEF U
    <2>4. CASE Parent(view, x) = 0
      <3>1. x \in tops /\ x \in Below(view, x)
        BY <2>3, <2>4, BelowIs DEF Children
      <3>. QED BY <2>2, <3>1
    <2>5. CASE Parent(view, x) # 0
      <3>1. Parent(view, x) \in C /\ Parent(view, x) < x
        BY <1>1, <2>2, <2>3, <2>5
      <3>2. Parent(view, x) \in U
        <4>. HIDE DEF U
        <4>1. Parent(view, x) \in Nat /\ x \in Nat
          BY <2>3
        <4>. QED BY <2>2, <3>1, <4>1
      <3>3. PICK k \in tops : Parent(view, x) \in Below(view, k)
        BY <3>2
      <3>4. k \in 1..n
        BY <1>1
      <3>5. x \in Below(view, k)
        BY <2>3, <3>3, <3>4, BelowIs
      <3>. QED BY <2>2, <3>5
    <2>. QED BY <2>4, <2>5
  <1>. QED BY <1>2, <1>3 DEF C

(* One group of the response: the thread of r, r first.                     *)
LEMMA GroupLists ==
  ASSUME NEW n \in Nat, NEW view, DOMAIN view = 1..n, NEW r \in Roots(view), NEW ts
  PROVE  /\ Group(view, r) \in Seq(Tokens)
         /\ \E f \in Seq(Nat) :
               /\ Len(f) = Cardinality(Class(view, r)) /\ Len(f) >= 1 /\ f[1] = r
               /\ Takes(Acc(0, <<>>, ts), Group(view, r), Acc(0, <<>>, Append(ts, f)))
  <1>. DEFINE tops == Class(view, r) \cap Children(view, 0)
              inner == Siblings(view, Branches(view), tops)
              D == [k \in 1..n |-> Below(view, k)]
  <1>0. r \in 1..n /\ \A k \in Class(view, r) : r <= k
    BY DEF Roots
  <1>1. Class(view, r) \in SUBSET (1..n) /\ r \in Class(view, r)
    BY <1>0, ClassIs
  <1>2. tops \in SUBSET (1..n)
    BY <1>1
  <1>3. \A k \in tops : /\ Lists(Branches(view)[k], D[k]) /\ D[k] \in SUBSET Nat
                        /\ k \in D[k] /\ \A x \in D[k] : k <= x
    <2>1. ASSUME NEW k \in tops
          PROVE  /\ Lists(Branches(view)[k], D[k]) /\ D[k] \in SUBSET Nat
                 /\ k \in D[k] /\ \A x \in D[k] : k <= x
      <3>1. k \in 1..n /\ D[k] = Below(view, k)
        BY <1>2
      <3>2. /\ Below(view, k) \in SUBSET (1..n) /\ k \in Below(view, k)
            /\ \A x \in Below(view, k) : k <= x
        BY <3>1, BelowIs
      <3>3. Lists(Branches(view)[k], Below(view, k))
        BY <3>1, BranchLists
      <3>4. 1..n \subseteq Nat
        OBVIOUS
      <3>. HIDE DEF D, tops
      <3>. QED BY <3>1, <3>2, <3>3, <3>4
    <2>. QED BY <2>1
  <1>4. \A i, j \in tops : i # j => D[i] \cap D[j] = {}
    <2>1. ASSUME NEW i \in tops, NEW j \in tops, i # j PROVE D[i] \cap D[j] = {}
      <3>1. i \in 1..n /\ j \in 1..n /\ Parent(view, i) = Parent(view, j)
        BY <1>2 DEF Children
      <3>2. Below(view, i) \cap Below(view, j) = {}
        BY <2>1, <3>1, SiblingsShareNothing
      <3>3. D[i] = Below(view, i) /\ D[j] = Below(view, j)
        BY <3>1
      <3>. HIDE DEF D
      <3>. QED BY <3>2, <3>3
    <2>. QED BY <2>1
  <1>5. UNION {D[k] : k \in tops} = Class(view, r)
    <2>1. UNION {D[k] : k \in tops} = UNION {Below(view, k) : k \in tops}
      BY <1>2
    <2>2. Class(view, r) = UNION {Below(view, k) : k \in tops}
      BY <1>0, ClassSplits
    <2>. QED BY <2>1, <2>2
  <1>6. Lists(inner, Class(view, r))
    <2>. HIDE DEF D, tops
    <2>. QED BY <1>2, <1>3, <1>4, <1>5, ListsSiblings
  <1>7. Group(view, r) = <<LPar>> \o inner \o <<RPar>>
    BY DEF Group
  <1>. HIDE DEF inner
  <1>8. PICK f : /\ Yields(inner, f) /\ Len(f) = Cardinality(Class(view, r))
                 /\ \A m \in Class(view, r) : (\A x \in Class(view, r) : m <= x) => f[1] = m
    BY <1>6 DEF Lists
  <1>9. f[1] = r /\ f \in Seq(Nat) /\ Len(f) >= 1
    <2>1. f[1] = r /\ f \in Seq(Nat)
      BY <1>0, <1>1, <1>8 DEF Yields
    <2>2. IsFiniteSet(Class(view, r))
      BY <1>6 DEF Lists
    <2>3. Cardinality(Class(view, r)) # 0
      BY <1>1, <2>2, FS_EmptySet
    <2>4. Cardinality(Class(view, r)) \in Nat
      BY <2>2, FS_CardinalityType
    <2>. QED BY <1>8, <2>1, <2>3, <2>4
  <1>10. /\ Group(view, r) \in Seq(Tokens)
         /\ Takes(Acc(0, <<>>, ts), Group(view, r), Acc(0, <<>>, Append(ts, f)))
    BY <1>7, <1>8, GroupTakes
  <1>. QED BY <1>8, <1>9, <1>10

(* The threads ts are those of the roots R: oldest first, each complete.    *)
InOrder(ts, R, view) ==
    /\ ts \in Seq(Seq(Nat)) /\ Len(ts) = Cardinality(R)
    /\ \A i \in 1..Len(ts) :
          /\ ts[i][1] \in R /\ Len(ts[i]) = Cardinality(Class(view, ts[i][1]))
          /\ Len(ts[i]) >= 1
    /\ \A i, j \in 1..Len(ts) : i < j => ts[i][1] < ts[j][1]
    /\ \A r \in R : \E i \in 1..Len(ts) : ts[i][1] = r

LEMMA InOrderGrows ==
  ASSUME NEW view, NEW m \in Nat, NEW R \in SUBSET (1..m), NEW ts, InOrder(ts, R, view),
         NEW f \in Seq(Nat), f[1] = m + 1, Len(f) = Cardinality(Class(view, m + 1)), Len(f) >= 1
  PROVE  InOrder(Append(ts, f), R \cup {m + 1}, view)
  <1>. DEFINE us == Append(ts, f)
              l == Len(ts)
  <1>1. /\ ts \in Seq(Seq(Nat)) /\ l = Cardinality(R)
        /\ \A i \in 1..l :
              /\ ts[i][1] \in R /\ Len(ts[i]) = Cardinality(Class(view, ts[i][1]))
              /\ Len(ts[i]) >= 1
        /\ \A i, j \in 1..l : i < j => ts[i][1] < ts[j][1]
        /\ \A r \in R : \E i \in 1..l : ts[i][1] = r
    BY DEF InOrder
  <1>2. /\ us \in Seq(Seq(Nat)) /\ Len(us) = l + 1 /\ us[l + 1] = f /\ l \in Nat
        /\ \A i \in 1..l : us[i] = ts[i]
    <2>1. ts \in Seq(Seq(Nat)) /\ f \in Seq(Nat)
      BY <1>1
    <2>. DEFINE T == Seq(Nat)
    <2>. HIDE DEF T
    <2>2. ts \in Seq(T) /\ f \in T
      BY <2>1 DEF T
    <2>3. /\ us \in Seq(T) /\ Len(us) = l + 1 /\ us[l + 1] = f /\ l \in Nat
          /\ \A i \in 1..l : us[i] = ts[i]
      BY <2>2
    <2>. QED BY <2>3 DEF T
  <1>. HIDE DEF us, l
  <1>3. \A i \in 1..(l + 1) : i = l + 1 \/ i \in 1..l
    BY <1>2
  <1>4. Cardinality(R \cup {m + 1}) = l + 1
    <2>1. IsFiniteSet(1..m)
      BY FS_Interval
    <2>2. IsFiniteSet(R)
      BY <2>1, FS_Subset
    <2>3. m + 1 \notin R
      OBVIOUS
    <2>. QED BY <1>1, <2>2, <2>3, FS_AddElement
  <1>5. \A i \in 1..(l + 1) :
           /\ us[i][1] \in R \cup {m + 1} /\ Len(us[i]) = Cardinality(Class(view, us[i][1]))
           /\ Len(us[i]) >= 1
    BY <1>1, <1>2, <1>3
  <1>6. ASSUME NEW i \in 1..(l + 1), NEW j \in 1..(l + 1), i < j PROVE us[i][1] < us[j][1]
    <2>1. i \in 1..l
      BY <1>2, <1>6
    <2>2. CASE j = l + 1
      <3>1. us[i][1] \in R /\ us[j][1] = m + 1
        BY <1>1, <1>2, <2>1, <2>2
      <3>2. \A x \in R : x < m + 1
        OBVIOUS
      <3>. QED BY <3>1, <3>2
    <2>3. CASE j \in 1..l
      BY <1>1, <1>2, <1>6, <2>1, <2>3
    <2>. QED BY <1>3, <2>2, <2>3
  <1>7. ASSUME NEW r \in R \cup {m + 1} PROVE \E i \in 1..(l + 1) : us[i][1] = r
    <2>1. CASE r = m + 1
      <3>1. l + 1 \in 1..(l + 1)
        BY <1>2
      <3>. QED BY <1>2, <2>1, <3>1
    <2>2. CASE r \in R
      <3>1. PICK i \in 1..l : ts[i][1] = r
        BY <1>1, <2>2
      <3>2. i \in 1..(l + 1)
        BY <1>2
      <3>. QED BY <1>2, <3>1, <3>2
    <2>. QED BY <2>1, <2>2
  <1>. QED BY <1>2, <1>4, <1>5, <1>6, <1>7 DEF InOrder, us

LEMMA ResponseParsed ==
  ASSUME NEW n \in Nat, NEW view, DOMAIN view = 1..n
  PROVE  InOrder(ParseThreadResponse(ThreadResponse(view)), Roots(view), view)
  <1>. DEFINE s == [k \in 1..n |-> IF k \in Roots(view) THEN Group(view, k) ELSE <<>>]
              a == Acc(0, <<>>, <<>>)
  <1>1. s \in [1..n -> Seq(Tokens)]
    BY GroupLists, EmptySeq
  <1>2. ThreadResponse(view) = FlattenSeq(s)
    BY DEF ThreadResponse
  <1>3. \A k \in 1..n : s[k] = IF k \in Roots(view) THEN Group(view, k) ELSE <<>>
    OBVIOUS
  <1>. HIDE DEF s
  <1>4. \E g \in [0..n -> Seq(Tokens)] :
            /\ g[0] = <<>> /\ \A i \in 1..n : g[i] = g[i - 1] \o s[i]
            /\ FlattenSeq(s) = g[n]
    BY ONLY n \in Nat, <1>1, Flattened
  <1>5. PICK g \in [0..n -> Seq(Tokens)] :
            /\ g[0] = <<>> /\ \A i \in 1..n : g[i] = g[i - 1] \o s[i]
            /\ FlattenSeq(s) = g[n]
    BY ONLY <1>4
  <1>. DEFINE S == {i \in 0..n : \E ts : /\ Takes(a, g[i], Acc(0, <<>>, ts))
                                         /\ InOrder(ts, Roots(view) \cap 1..i, view)}
  <1>6. 0 \in S
    <2>1. Takes(a, g[0], Acc(0, <<>>, <<>>))
      BY <1>5, TakesNone
    <2>2. InOrder(<<>>, {}, view)
      BY FS_EmptySet, EmptySeq DEF InOrder
    <2>3. Roots(view) \cap 1..0 = {}
      OBVIOUS
    <2>. QED BY <2>1, <2>2, <2>3
  <1>7. ASSUME NEW i \in 0..n, i \in S, i < n PROVE i + 1 \in S
    <2>1. PICK ts : /\ Takes(a, g[i], Acc(0, <<>>, ts))
                    /\ InOrder(ts, Roots(view) \cap 1..i, view)
      BY <1>7
    <2>2. /\ i + 1 \in 1..n /\ i + 1 \in 0..n /\ (i + 1) - 1 = i /\ i \in Nat
          /\ 1..(i + 1) = 1..i \cup {i + 1}
      BY <1>7
    <2>3. g[i + 1] = g[i] \o s[i + 1] /\ g[i] \in Seq(Tokens) /\ s[i + 1] \in Seq(Tokens)
      BY <1>1, <1>5, <2>2
    <2>4. CASE i + 1 \in Roots(view)
      <3>1. PICK f \in Seq(Nat) :
               /\ Len(f) = Cardinality(Class(view, i + 1)) /\ Len(f) >= 1 /\ f[1] = i + 1
               /\ Takes(Acc(0, <<>>, ts), Group(view, i + 1), Acc(0, <<>>, Append(ts, f)))
        BY <2>4, GroupLists
      <3>2. s[i + 1] = Group(view, i + 1)
        BY <1>3, <2>2, <2>4
      <3>3. Takes(a, g[i + 1], Acc(0, <<>>, Append(ts, f)))
        <4>. HIDE DEF a
        <4>. QED BY <2>1, <2>3, <3>1, <3>2, TakesBoth
      <3>4. Roots(view) \cap 1..(i + 1) = (Roots(view) \cap 1..i) \cup {i + 1}
        BY <2>2, <2>4
      <3>5. Roots(view) \cap 1..i \in SUBSET (1..i)
        OBVIOUS
      <3>6. InOrder(Append(ts, f), (Roots(view) \cap 1..i) \cup {i + 1}, view)
        BY <2>1, <2>2, <3>1, <3>5, InOrderGrows
      <3>. QED BY <2>2, <3>3, <3>4, <3>6
    <2>5. CASE i + 1 \notin Roots(view)
      <3>1. s[i + 1] = <<>>
        BY <1>3, <2>2, <2>5
      <3>2. g[i + 1] = g[i]
        BY <2>3, <3>1, ConcatEmptySeq
      <3>3. Roots(view) \cap 1..(i + 1) = Roots(view) \cap 1..i
        BY <2>2, <2>5
      <3>. QED BY <2>1, <2>2, <3>2, <3>3
    <2>. QED BY <2>4, <2>5
  <1>8. n \in S
    <2>. HIDE DEF S
    <2>1. \A i \in 0..n : i \in S
      BY <1>6, <1>7, Upwards
    <2>. QED BY <2>1
  <1>9. PICK ts : /\ Takes(a, g[n], Acc(0, <<>>, ts))
                  /\ InOrder(ts, Roots(view) \cap 1..n, view)
    BY <1>8
  <1>10. ParseThreadResponse(ThreadResponse(view)) = ts
    <2>1. Takes(a, ThreadResponse(view), Acc(0, <<>>, ts)) /\ ThreadResponse(view) \in Seq(Tokens)
      BY <1>2, <1>5, <1>9
    <2>2. Acc(0, <<>>, ts).threads = ts
      BY DEF Acc
    <2>. QED BY <2>1, <2>2, ParsedIs
  <1>11. Roots(view) \cap 1..n = Roots(view)
    BY DEF Roots
  <1>. QED BY <1>9, <1>10, <1>11

----------------------------------------------------------------------------
(* The list                                                                 *)

(* The threads that the list shows: those with the newest roots.            *)
Newest(view) ==
    {n \in Roots(view) : Cardinality({k \in Roots(view) : k > n}) < Limit}

(* These threads are still to be read: among the newest, each complete and  *)
(* none twice.                                                              *)
ToRead(ids, view) ==
    /\ ids \in Seq(Seq(Nat))
    /\ \A i \in 1..Len(ids) :
          /\ ids[i][1] \in Newest(view) /\ Len(ids[i]) >= 1
          /\ Len(ids[i]) = Cardinality(Class(view, ids[i][1]))
    /\ \A i, j \in 1..Len(ids) : i # j => ids[i][1] # ids[j][1]

LEMMA NewerThan ==
  ASSUME NEW view, NEW ts, InOrder(ts, Roots(view), view), Roots(view) \subseteq Nat,
         NEW i \in 1..Len(ts)
  PROVE  Cardinality({k \in Roots(view) : k > ts[i][1]}) = Len(ts) - i
  <1>. DEFINE l == Len(ts)
              h == [j \in (i + 1)..l |-> ts[j][1]]
              N == {k \in Roots(view) : k > ts[i][1]}
  <1>1. /\ l \in Nat
        /\ \A j \in 1..l : ts[j][1] \in Roots(view)
        /\ \A j, k \in 1..l : j < k => ts[j][1] < ts[k][1]
        /\ \A r \in Roots(view) : \E j \in 1..l : ts[j][1] = r
    BY DEF InOrder
  <1>. HIDE DEF l
  <1>2. i \in 1..l /\ \A j \in (i + 1)..l : j \in 1..l /\ i < j
    BY <1>1 DEF l
  <1>3. \A j \in (i + 1)..l : h[j] = ts[j][1]
    OBVIOUS
  <1>4. h \in [(i + 1)..l -> N]
    BY <1>1, <1>2
  <1>5. ASSUME NEW j \in (i + 1)..l, NEW k \in (i + 1)..l, j # k PROVE h[j] # h[k]
    <2>1. ts[j][1] \in Nat /\ ts[k][1] \in Nat /\ (j < k \/ k < j)
      BY <1>1, <1>2, <1>5
    <2>2. ts[j][1] < ts[k][1] \/ ts[k][1] < ts[j][1]
      BY <1>1, <1>2, <2>1
    <2>. QED BY <1>3, <2>1, <2>2
  <1>6. ASSUME NEW r \in N PROVE \E j \in (i + 1)..l : h[j] = r
    <2>1. PICK j \in 1..l : ts[j][1] = r
      BY <1>1
    <2>2. i < j
      <3>1. ts[i][1] < ts[j][1] /\ ts[i][1] \in Nat /\ ts[j][1] \in Nat
        BY <1>1, <1>2, <2>1
      <3>2. j < i => ts[j][1] < ts[i][1]
        BY <1>1, <1>2
      <3>3. j # i
        BY <3>1
      <3>. QED BY <1>1, <1>2, <3>1, <3>2, <3>3
    <2>3. j \in (i + 1)..l
      BY <1>1, <1>2, <2>2
    <2>. QED BY <1>3, <2>1, <2>3
  <1>. HIDE DEF h, N
  <1>7. h \in Bijection((i + 1)..l, N)
    BY <1>4, <1>5, <1>6 DEF Bijection, Injection, Surjection, IsInjective
  <1>8. /\ IsFiniteSet((i + 1)..l)
        /\ Cardinality((i + 1)..l) = IF i + 1 > l THEN 0 ELSE l - (i + 1) + 1
    BY <1>1, <1>2, FS_Interval
  <1>9. Cardinality(N) = Cardinality((i + 1)..l)
    <2>1. ExistsBijection((i + 1)..l, N)
      BY <1>7 DEF ExistsBijection
    <2>. QED BY <1>8, <2>1, FS_Bijection
  <1>10. Cardinality(N) = l - i
    BY <1>1, <1>2, <1>8, <1>9
  <1>. QED BY <1>10 DEF N, l

(* The newest roots are the last ones of the response.                      *)
LEMMA NewestAsked ==
  ASSUME NEW view, NEW ts, InOrder(ts, Roots(view), view), Roots(view) \subseteq Nat
  PROVE  LET ids == FirstOf(Reverse(ts), Limit) IN
         /\ ToRead(ids, view)
         /\ \A n \in Newest(view) : \E i \in 1..Len(ids) : ids[i][1] = n
  <1>. DEFINE T == Seq(Nat)
              l == Len(ts)
              m == IF l < Limit THEN l ELSE Limit
              rev == Reverse(ts)
              ids == FirstOf(rev, Limit)
  <1>1. ts \in Seq(T) /\ Limit \in Nat /\ Limit >= 1
    BY EmailAssumption DEF InOrder
  <1>. HIDE DEF T
  <1>2. /\ l \in Nat /\ rev \in Seq(T) /\ Len(rev) = l
        /\ \A i \in 1..l : rev[i] = ts[l - i + 1]
    <2>1. l \in Nat /\ ts \in [1..l -> T]
      BY <1>1
    <2>2. rev = [i \in 1..l |-> ts[l - i + 1]]
      BY DEF Reverse
    <2>3. \A i \in 1..l : l - i + 1 \in 1..l
      BY <2>1
    <2>4. rev \in [1..l -> T]
      BY <2>1, <2>2, <2>3
    <2>. HIDE DEF rev, l
    <2>. QED BY <2>1, <2>2, <2>4
  <1>3. m \in 0..l /\ m <= Limit /\ (m = l \/ m = Limit) /\ m \in Nat
    BY <1>1, <1>2
  <1>4. ids = SubSeq(rev, 1, m)
    BY <1>2 DEF FirstOf
  <1>. HIDE DEF m, rev
  <1>5. /\ ids \in Seq(T) /\ Len(ids) = m
        /\ \A i \in 1..m : ids[i] = ts[l - i + 1]
    <2>1. \A i \in 1..m : rev[i] \in T /\ i \in 1..l
      BY <1>2, <1>3
    <2>2. /\ SubSeq(rev, 1, m) \in Seq(T)
          /\ Len(SubSeq(rev, 1, m)) = IF 1 <= m THEN m - 1 + 1 ELSE 0
          /\ \A i \in 1..(m - 1 + 1) : SubSeq(rev, 1, m)[i] = rev[1 + i - 1]
      BY <1>2, <1>3, <2>1, SubSeqProperties
    <2>3. /\ SubSeq(rev, 1, m) \in Seq(T) /\ Len(SubSeq(rev, 1, m)) = m
          /\ \A i \in 1..m : SubSeq(rev, 1, m)[i] = rev[i]
      BY <1>3, <2>2
    <2>. QED BY <1>2, <1>4, <2>1, <2>3
  <1>. HIDE DEF ids
  <1>6. /\ \A i \in 1..l :
              /\ ts[i][1] \in Roots(view) /\ Len(ts[i]) = Cardinality(Class(view, ts[i][1]))
              /\ Len(ts[i]) >= 1
        /\ \A i, j \in 1..l : i < j => ts[i][1] < ts[j][1]
        /\ \A r \in Roots(view) : \E i \in 1..l : ts[i][1] = r
        /\ \A i \in 1..l : Cardinality({k \in Roots(view) : k > ts[i][1]}) = l - i
    <2>1. /\ \A i \in 1..l :
                /\ ts[i][1] \in Roots(view) /\ Len(ts[i]) = Cardinality(Class(view, ts[i][1]))
                /\ Len(ts[i]) >= 1
          /\ \A i, j \in 1..l : i < j => ts[i][1] < ts[j][1]
          /\ \A r \in Roots(view) : \E i \in 1..l : ts[i][1] = r
      BY DEF InOrder
    <2>2. \A i \in 1..l : Cardinality({k \in Roots(view) : k > ts[i][1]}) = l - i
      BY NewerThan
    <2>. QED BY ONLY <2>1, <2>2
  <1>. HIDE DEF l
  <1>7. \A i \in 1..m : l - i + 1 \in 1..l /\ l - (l - i + 1) < Limit
    BY <1>1, <1>2, <1>3
  <1>8. ASSUME NEW i \in 1..m
        PROVE  /\ ids[i][1] \in Newest(view) /\ Len(ids[i]) >= 1
               /\ Len(ids[i]) = Cardinality(Class(view, ids[i][1]))
    <2>. DEFINE p == l - i + 1
    <2>1. p \in 1..l /\ l - p < Limit /\ ids[i] = ts[p]
      BY <1>5, <1>7
    <2>. HIDE DEF p
    <2>2. /\ ts[p][1] \in Roots(view) /\ Len(ts[p]) = Cardinality(Class(view, ts[p][1]))
          /\ Len(ts[p]) >= 1
          /\ Cardinality({k \in Roots(view) : k > ts[p][1]}) < Limit
      BY <1>6, <2>1
    <2>. QED BY ONLY <2>1, <2>2 DEF Newest
  <1>9. ASSUME NEW i \in 1..m, NEW j \in 1..m, i # j PROVE ids[i][1] # ids[j][1]
    <2>. DEFINE p == l - i + 1
                q == l - j + 1
    <2>1. p \in 1..l /\ q \in 1..l /\ (p < q \/ q < p)
      BY <1>2, <1>3, <1>7, <1>9
    <2>2. ids[i] = ts[p] /\ ids[j] = ts[q]
      BY <1>5
    <2>. HIDE DEF p, q
    <2>3. ts[p][1] \in Nat /\ ts[q][1] \in Nat
      BY <1>6, <2>1
    <2>4. ts[p][1] < ts[q][1] \/ ts[q][1] < ts[p][1]
      BY <1>6, <2>1
    <2>. QED BY <2>2, <2>3, <2>4
  <1>10. ASSUME NEW n \in Newest(view) PROVE \E i \in 1..m : ids[i][1] = n
    <2>1. n \in Roots(view) /\ Cardinality({k \in Roots(view) : k > n}) < Limit
      BY DEF Newest
    <2>2. PICK j \in 1..l : ts[j][1] = n
      BY <1>6, <2>1
    <2>3. l - j < Limit
      BY <1>6, <2>1, <2>2
    <2>4. l - j + 1 \in 1..m /\ l - (l - j + 1) + 1 = j
      BY <1>1, <1>2, <1>3, <2>3
    <2>. QED BY <1>5, <2>2, <2>4
  <1>11. ids \in Seq(Seq(Nat))
    BY <1>5 DEF T
  <1>12. ToRead(ids, view) /\ \A n \in Newest(view) : \E i \in 1..Len(ids) : ids[i][1] = n
    BY <1>5, <1>8, <1>9, <1>10, <1>11 DEF ToRead
  <1>. QED BY <1>12 DEF ids, rev

----------------------------------------------------------------------------
(* Reading the list                                                         *)

(* No Message-ID and no UID stands for two messages.                        *)
OnceInv ==
    /\ \A i, j \in 1..Len(idOf) : idOf[i] = idOf[j] => i = j
    /\ \A i, j \in 1..Len(inbox) : inbox[i] = inbox[j] => i = j

Summaries == [root : Mids \cup {NoId}, latest : Mids \cup {NoId}, count : Nat]

(* The request that reads the list: of the newest threads each is still to  *)
(* be read, or was read with its number of messages and only once, or its   *)
(* root is gone or could not be read.                                       *)
Listing ==
    /\ reader.view \in Seq(1..Len(idOf))
    /\ \A i, j \in 1..Len(reader.view) : reader.view[i] = reader.view[j] => i = j
    /\ ToRead(reader.ids, reader.view)
    /\ reader.got \in Seq(Summaries)
    /\ \A j \in 1..Len(reader.got) : \E n \in Newest(reader.view) :
          /\ reader.got[j].root = At(reader.view, n)
          /\ reader.got[j].count = Cardinality(Class(reader.view, n))
          /\ \A i \in 1..Len(reader.ids) : reader.ids[i][1] # n
    /\ \A i, j \in 1..Len(reader.got) : i # j => reader.got[i].root # reader.got[j].root
    /\ \A n \in Newest(reader.view) :
          \/ Missed(n)
          \/ \E j \in 1..Len(reader.got) : reader.got[j].root = At(reader.view, n)
          \/ \E i \in 1..Len(reader.ids) : reader.ids[i][1] = n

ListInv ==
    /\ reader.kind = "list" => reader.found = {}
    /\ reader.kind = "list" /\ (reader.pc = "fetch" \/ Answered("list")) => Listing
    /\ Answered("list") => reader.ids = <<>>

LEMMA ViewStays ==
  ASSUME MailboxInv, Grown, reader.view \in Seq(1..Len(idOf)), reader'.view = reader.view,
         reader.lost \subseteq reader'.lost
  PROVE  /\ \A n \in DOMAIN reader.view :
               /\ At(reader.view, n)' = At(reader.view, n)
               /\ Class(reader.view, n)' = Class(reader.view, n)
               /\ Missed(n) => Missed(n)'
         /\ Roots(reader.view)' = Roots(reader.view)
         /\ Newest(reader.view)' = Newest(reader.view)
  <1>. DEFINE v == reader.view
              P == Places(v)
  <1>0. Len(idOf) \in Nat /\ Len(idOf') \in Nat /\ Len(idOf) <= Len(idOf')
    BY DEF MailboxInv, Grown
  <1>1. \A n \in DOMAIN v : /\ v[n] \in 1..Len(idOf) /\ idOf'[v[n]] = idOf[v[n]]
                            /\ idOf[v[n]] = NoId \/ idOf[v[n]] \in Known
    <2>1. \A n \in DOMAIN v : v[n] \in 1..Len(idOf)
      BY <1>0
    <2>. QED BY <2>1 DEF Grown, MailboxInv
  <1>2. ASSUME NEW n \in DOMAIN v PROVE At(v, n)' = At(v, n)
    BY <1>1 DEF At
  <1>3. P' = P
    BY <1>2 DEF Places
  <1>4. \A x \in P : x # NoId => mail'[x] = mail[x]
    <2>1. ASSUME NEW n \in DOMAIN v PROVE At(v, n) # NoId => mail'[At(v, n)] = mail[At(v, n)]
      BY <1>1 DEF At, Grown
    <2>. QED BY <2>1 DEF Places
  <1>5. ASSUME NEW n \in DOMAIN v PROVE Class(v, n)' = Class(v, n)
    <2>. DEFINE W == {S \in SUBSET P : At(v, n) \in S
                        /\ \A y \in S, z \in P : Linked(y, z) => z \in S}
                T == Thread(At(v, n), P)
    <2>1. At(v, n)' = At(v, n) /\ P' = P
      BY <1>2, <1>3
    <2>2. \A y, z \in P : Linked(y, z)' <=> Linked(y, z)
      BY <1>4 DEF Linked, RefsOf
    <2>3. W' = W
      <3>1. ASSUME NEW S \in SUBSET P
            PROVE  (\A y \in S, z \in P : Linked(y, z)' => z \in S) <=>
                   (\A y \in S, z \in P : Linked(y, z) => z \in S)
        BY <2>2
      <3>2. W' = {S \in SUBSET P : At(v, n) \in S
                    /\ \A y \in S, z \in P : Linked(y, z)' => z \in S}
        BY <2>1
      <3>. QED BY ONLY <3>1, <3>2
    <2>4. \A x : x \in T <=> x \in P /\ \A S \in W : x \in S
      BY DEF Thread
    <2>5. \A x : x \in T' <=> x \in P' /\ \A S \in W' : x \in S
      BY DEF Thread
    <2>6. Class(v, n) = {k \in DOMAIN v : At(v, k) \in T}
      BY DEF Class
    <2>7. Class(v, n)' = {k \in DOMAIN v : At(v, k) \in T'}
      <3>1. Class(v, n)' = {k \in DOMAIN v' : At(v, k)' \in T'}
        BY DEF Class
      <3>2. DOMAIN v' = DOMAIN v /\ \A k \in DOMAIN v : At(v, k)' = At(v, k)
        BY <1>2
      <3>. HIDE DEF T
      <3>. QED BY ONLY <3>1, <3>2
    <2>. HIDE DEF P, W, T
    <2>8. \A x : x \in T' <=> x \in T
      BY ONLY <2>1, <2>3, <2>4, <2>5
    <2>. QED BY ONLY <2>6, <2>7, <2>8
  <1>6. Roots(v)' = Roots(v)
    BY <1>5 DEF Roots
  <1>7. Newest(v)' = Newest(v)
    BY <1>6 DEF Newest
  <1>8. ASSUME NEW n \in DOMAIN v, Missed(n) PROVE Missed(n)'
    BY <1>1, <1>8 DEF Missed, Grown
  <1>. QED BY <1>2, <1>5, <1>6, <1>7, <1>8

LEMMA ListingStays ==
  ASSUME MailboxInv, Grown, Listing, reader'.view = reader.view, reader'.ids = reader.ids,
         reader'.got = reader.got, reader.lost \subseteq reader'.lost
  PROVE  Listing'
  <1>. DEFINE v == reader.view
  <1>1. v \in Seq(1..Len(idOf)) /\ Len(idOf) \in Nat /\ Len(idOf') \in Nat /\ Len(idOf) <= Len(idOf')
    BY DEF Listing, MailboxInv, Grown
  <1>2. v \in Seq(1..Len(idOf'))
    <2>1. 1..Len(idOf) \subseteq 1..Len(idOf')
      BY <1>1
    <2>. QED BY <1>1, <2>1, SeqMonotonic
  <1>3. /\ \A n \in DOMAIN v : /\ At(v, n)' = At(v, n) /\ Class(v, n)' = Class(v, n)
                               /\ Missed(n) => Missed(n)'
        /\ Newest(v)' = Newest(v)
    BY <1>1, ViewStays
  <1>4. Newest(v) \subseteq DOMAIN v
    BY DEF Newest, Roots
  <1>5. ToRead(reader.ids, v)'
    <2>1. \A i \in 1..Len(reader.ids) :
             /\ reader.ids[i][1] \in Newest(v)'
             /\ Len(reader.ids[i]) = Cardinality(Class(v, reader.ids[i][1]))
      BY <1>3 DEF Listing, ToRead
    <2>2. \A i \in 1..Len(reader.ids) :
             Class(v, reader.ids[i][1])' = Class(v, reader.ids[i][1])
      <3>1. ASSUME NEW i \in 1..Len(reader.ids)
            PROVE  Class(v, reader.ids[i][1])' = Class(v, reader.ids[i][1])
        <4>1. PICK n \in DOMAIN v : n = reader.ids[i][1]
          BY <1>4 DEF Listing, ToRead
        <4>. QED BY <1>3, <4>1
      <3>. QED BY <3>1
    <2>3. /\ reader.ids \in Seq(Seq(Nat))
          /\ \A i \in 1..Len(reader.ids) : Len(reader.ids[i]) >= 1
          /\ \A i, j \in 1..Len(reader.ids) : i # j => reader.ids[i][1] # reader.ids[j][1]
      BY DEF Listing, ToRead
    <2>. QED BY <2>1, <2>2, <2>3 DEF ToRead
  <1>6. ASSUME NEW j \in 1..Len(reader.got)
        PROVE  \E n \in Newest(v)' :
                  /\ reader.got[j].root = At(v, n)'
                  /\ reader.got[j].count = Cardinality(Class(v, n)')
                  /\ \A i \in 1..Len(reader.ids) : reader.ids[i][1] # n
    BY <1>3, <1>4 DEF Listing
  <1>7. ASSUME NEW n \in Newest(v)'
        PROVE  \/ Missed(n)'
               \/ \E j \in 1..Len(reader.got) : reader.got[j].root = At(v, n)'
               \/ \E i \in 1..Len(reader.ids) : reader.ids[i][1] = n
    BY <1>3, <1>4 DEF Listing
  <1>8. /\ \A i, j \in 1..Len(v) : v[i] = v[j] => i = j
        /\ reader.got \in Seq(Summaries)
        /\ \A i, j \in 1..Len(reader.got) : i # j => reader.got[i].root # reader.got[j].root
    BY DEF Listing
  <1>. QED BY <1>2, <1>5, <1>6, <1>7, <1>8 DEF Listing

(* The server's answer: nothing was read yet.                               *)
LEMMA ListAsked ==
  ASSUME MailboxInv, OnceInv, UNCHANGED <<mail, inbox, idOf>>, reader.got = <<>>,
         reader'.view = inbox, reader'.got = reader.got,
         reader'.ids = FirstOf(Reverse(ParseThreadResponse(ThreadResponse(inbox))), Limit)
  PROVE  Listing'
  <1>. DEFINE ids == FirstOf(Reverse(ParseThreadResponse(ThreadResponse(inbox))), Limit)
  <1>1. /\ inbox \in Seq(1..Len(idOf)) /\ DOMAIN inbox = 1..Len(inbox) /\ Len(inbox) \in Nat
    BY DEF MailboxInv
  <1>2. /\ ToRead(ids, inbox)
        /\ \A n \in Newest(inbox) : \E i \in 1..Len(ids) : ids[i][1] = n
    <2>1. InOrder(ParseThreadResponse(ThreadResponse(inbox)), Roots(inbox), inbox)
      BY <1>1, ResponseParsed
    <2>2. Roots(inbox) \subseteq Nat
      BY <1>1 DEF Roots
    <2>. QED BY <2>1, <2>2, NewestAsked
  <1>. HIDE DEF ids
  <1>3. reader'.view = inbox /\ reader'.ids = ids /\ reader'.got = <<>>
    BY DEF ids
  <1>4. ASSUME NEW n
        PROVE  At(reader.view, n)' = At(inbox, n) /\ Class(reader.view, n)' = Class(inbox, n)
    BY <1>3 DEF Class, At, Places, Thread, Linked, RefsOf
  <1>5. Roots(reader.view)' = Roots(inbox)
    BY <1>3, <1>4 DEF Roots
  <1>6. Newest(reader.view)' = Newest(inbox)
    BY <1>5 DEF Newest
  <1>7. ToRead(reader.ids, reader.view)'
    <2>1. /\ ids \in Seq(Seq(Nat))
          /\ \A i \in 1..Len(ids) :
                /\ ids[i][1] \in Newest(inbox) /\ Len(ids[i]) >= 1
                /\ Len(ids[i]) = Cardinality(Class(inbox, ids[i][1]))
          /\ \A i, j \in 1..Len(ids) : i # j => ids[i][1] # ids[j][1]
      BY <1>2 DEF ToRead
    <2>2. ASSUME NEW i \in 1..Len(reader'.ids)
          PROVE  /\ reader'.ids[i][1] \in Newest(reader.view)' /\ Len(reader'.ids[i]) >= 1
                 /\ Len(reader'.ids[i]) = Cardinality(Class(reader.view, reader.ids[i][1])')
      <3>1. Class(reader.view, reader.ids[i][1])' = Class(inbox, ids[i][1])
        BY <1>3, <1>4
      <3>. QED BY <1>3, <1>6, <2>1, <3>1
    <2>3. /\ reader'.ids \in Seq(Seq(Nat))
          /\ \A i, j \in 1..Len(reader'.ids) : i # j => reader'.ids[i][1] # reader'.ids[j][1]
      BY <1>3, <2>1
    <2>. QED BY <2>2, <2>3 DEF ToRead
  <1>8. \A n \in Newest(reader.view)' : \E i \in 1..Len(reader'.ids) : reader'.ids[i][1] = n
    BY <1>2, <1>3, <1>6
  <1>9. /\ reader'.view \in Seq(1..Len(idOf'))
        /\ \A i, j \in 1..Len(reader'.view) : reader'.view[i] = reader'.view[j] => i = j
        /\ reader'.got \in Seq(Summaries) /\ Len(reader'.got) = 0
    BY <1>1, <1>3, EmptySeq DEF OnceInv
  <1>10. \A j \in 1..Len(reader'.got) : FALSE
    BY <1>9
  <1>. QED BY <1>7, <1>8, <1>9, <1>10 DEF Listing

(* The server refuses to answer: nothing will be read.                      *)
LEMMA ListRefused ==
  ASSUME MailboxInv, OnceInv, UNCHANGED <<mail, inbox, idOf>>, reader'.view = inbox,
         reader'.got = <<>>, reader'.ids = <<>>, reader'.lost = DOMAIN inbox
  PROVE  Listing'
  <1>1. inbox \in Seq(1..Len(idOf))
    BY DEF MailboxInv
  <1>2. /\ reader'.view \in Seq(1..Len(idOf'))
        /\ \A i, j \in 1..Len(reader'.view) : reader'.view[i] = reader'.view[j] => i = j
    BY <1>1 DEF OnceInv
  <1>3. /\ reader'.got \in Seq(Summaries) /\ \A i \in 1..Len(reader'.got) : FALSE
        /\ reader'.ids \in Seq(Seq(Nat)) /\ \A i \in 1..Len(reader'.ids) : FALSE
    BY EmptySeq
  <1>4. ToRead(reader.ids, reader.view)'
    BY <1>3 DEF ToRead
  <1>5. \A n \in Newest(reader.view)' : Missed(n)'
    <2>1. Newest(reader.view)' \subseteq DOMAIN reader'.view
      BY DEF Newest, Roots
    <2>. QED BY <2>1 DEF Missed
  <1>. QED BY <1>2, <1>3, <1>4, <1>5 DEF Listing

(* The connection breaks: the threads that were still to be read are not.   *)
LEMMA ListBroken ==
  ASSUME MailboxInv, Grown, Listing, reader'.view = reader.view, reader'.got = reader.got,
         reader'.ids = <<>>, reader.lost \subseteq reader'.lost,
         \A i \in 1..Len(reader.ids) : reader.ids[i][1] \in reader'.lost
  PROVE  Listing'
  <1>. DEFINE v == reader.view
  <1>1. v \in Seq(1..Len(idOf)) /\ Len(idOf) \in Nat /\ Len(idOf') \in Nat /\ Len(idOf) <= Len(idOf')
    BY DEF Listing, MailboxInv, Grown
  <1>2. v \in Seq(1..Len(idOf'))
    <2>1. 1..Len(idOf) \subseteq 1..Len(idOf')
      BY <1>1
    <2>. QED BY <1>1, <2>1, SeqMonotonic
  <1>3. /\ \A n \in DOMAIN v : /\ At(v, n)' = At(v, n) /\ Class(v, n)' = Class(v, n)
                               /\ Missed(n) => Missed(n)'
        /\ Newest(v)' = Newest(v)
    BY <1>1, ViewStays
  <1>4. Newest(v) \subseteq DOMAIN v
    BY DEF Newest, Roots
  <1>5. reader'.ids \in Seq(Seq(Nat)) /\ \A i \in 1..Len(reader'.ids) : FALSE
    BY EmptySeq
  <1>6. ToRead(reader.ids, reader.view)'
    BY <1>5 DEF ToRead
  <1>7. ASSUME NEW j \in 1..Len(reader.got)
        PROVE  \E n \in Newest(v)' :
                  /\ reader.got[j].root = At(v, n)'
                  /\ reader.got[j].count = Cardinality(Class(v, n)')
    BY <1>3, <1>4 DEF Listing
  <1>8. ASSUME NEW n \in Newest(v)'
        PROVE  Missed(n)' \/ \E j \in 1..Len(reader.got) : reader.got[j].root = At(v, n)'
    <2>1. \A i \in 1..Len(reader.ids) : reader.ids[i][1] = n => Missed(n)'
      BY DEF Missed
    <2>. QED BY <1>3, <1>4, <2>1 DEF Listing
  <1>9. /\ \A i, j \in 1..Len(v) : v[i] = v[j] => i = j
        /\ reader.got \in Seq(Summaries)
        /\ \A i, j \in 1..Len(reader.got) : i # j => reader.got[i].root # reader.got[j].root
    BY DEF Listing
  <1>. QED BY <1>2, <1>5, <1>6, <1>7, <1>8, <1>9 DEF Listing

(* One thread more: its root is there and summarised, or gone, or not read. *)
LEMMA ThreadListed ==
  ASSUME MailboxInv, OnceInv, UNCHANGED <<mail, inbox, idOf>>, Listing, reader.ids # <<>>, NEW lost,
         reader'.view = reader.view, reader'.ids = Tail(reader.ids),
         reader'.got = reader.got \o Summary(Head(reader.ids), lost),
         reader'.lost = reader.lost \cup lost
  PROVE  Listing'
  <1>. DEFINE v == reader.view
              t == reader.ids[1]
              r == t[1]
              l == Len(reader.ids)
  <1>1. /\ v \in Seq(1..Len(idOf)) /\ idOf \in Seq(Mids \cup {NoId})
        /\ reader.ids \in Seq(Seq(Nat)) /\ reader.got \in Seq(Summaries)
    BY DEF Listing, ToRead, MailboxInv
  <1>2. /\ l \in Nat /\ l >= 1 /\ Head(reader.ids) = t
        /\ Len(reader'.ids) = l - 1 /\ reader'.ids \in Seq(Seq(Nat))
        /\ \A i \in 1..(l - 1) : reader'.ids[i] = reader.ids[i + 1] /\ i + 1 \in 1..l /\ i + 1 # 1
    <2>. DEFINE T == Seq(Nat)
                ids == reader.ids
    <2>1. ids \in Seq(T) /\ ids # <<>>
      BY <1>1
    <2>. HIDE DEF T, ids
    <2>2. /\ Len(ids) \in Nat /\ Len(ids) >= 1 /\ Head(ids) = ids[1]
          /\ Len(Tail(ids)) = Len(ids) - 1 /\ Tail(ids) \in Seq(T)
          /\ \A i \in 1..(Len(ids) - 1) : Tail(ids)[i] = ids[i + 1]
      BY <2>1
    <2>3. \A i \in 1..(Len(ids) - 1) : i + 1 \in 1..Len(ids) /\ i + 1 # 1
      BY <2>2
    <2>. QED BY <2>2, <2>3 DEF T, ids
  <1>3. /\ r \in Newest(v) /\ Len(t) >= 1 /\ Len(t) = Cardinality(Class(v, r))
        /\ t \in Seq(Nat) /\ Len(t) \in Nat
        /\ \A i \in 1..l : i # 1 => reader.ids[i][1] # r
    BY <1>1, <1>2 DEF Listing, ToRead
  <1>4. Newest(v) \subseteq DOMAIN v /\ DOMAIN v = 1..Len(v)
    BY <1>1 DEF Newest, Roots
  <1>5. ASSUME NEW n
        PROVE  /\ At(v, n)' = At(v, n) /\ Class(v, n)' = Class(v, n)
               /\ Missed(n) => Missed(n)'
    BY DEF Class, At, Places, Thread, Linked, RefsOf, Missed
  <1>6. Newest(v)' = Newest(v)
    <2>1. Roots(v)' = Roots(v)
      BY <1>5 DEF Roots
    <2>. QED BY <2>1 DEF Newest
  <1>7. ToRead(reader.ids, v)'
    <2>1. ASSUME NEW i \in 1..Len(reader'.ids)
          PROVE  /\ reader'.ids[i][1] \in Newest(v)' /\ Len(reader'.ids[i]) >= 1
                 /\ Len(reader'.ids[i]) = Cardinality(Class(v, reader.ids[i][1])')
      <3>1. Class(v, reader.ids[i][1])' = Class(v, reader'.ids[i][1])
        BY <1>5
      <3>. QED BY <1>2, <1>6, <3>1 DEF Listing, ToRead
    <2>2. ASSUME NEW i \in 1..Len(reader'.ids), NEW j \in 1..Len(reader'.ids), i # j
          PROVE  reader'.ids[i][1] # reader'.ids[j][1]
      <3>1. i + 1 \in 1..l /\ j + 1 \in 1..l /\ i + 1 # j + 1
        BY <1>2, <2>2
      <3>2. reader.ids[i + 1][1] # reader.ids[j + 1][1]
        BY <3>1 DEF Listing, ToRead
      <3>. QED BY <1>2, <3>2
    <2>. QED BY <1>2, <2>1, <2>2 DEF ToRead
  <1>8. ASSUME NEW n \in Newest(v), NEW k \in Newest(v), n # k
        PROVE  At(v, n) # At(v, k)
    <2>1. v[n] \in 1..Len(idOf) /\ v[k] \in 1..Len(idOf) /\ v[n] # v[k]
      <3>1. n \in 1..Len(v) /\ k \in 1..Len(v)
        BY ONLY <1>4, <1>8
      <3>2. v[n] \in 1..Len(idOf) /\ v[k] \in 1..Len(idOf)
        BY ONLY <1>1, <3>1, ElementOfSeq
      <3>3. \A i, j \in 1..Len(v) : v[i] = v[j] => i = j
        BY DEF Listing
      <3>. QED BY ONLY <1>8, <3>1, <3>2, <3>3
    <2>. QED BY <2>1 DEF At, OnceInv
  <1>9. \A i \in 1..Len(reader'.ids) : reader'.ids[i][1] # r
    BY <1>2, <1>3
  <1>10. ASSUME NEW j \in 1..Len(reader.got)
         PROVE  \E n \in Newest(v) :
                   /\ reader.got[j].root = At(v, n)
                   /\ reader.got[j].count = Cardinality(Class(v, n))
                   /\ \A i \in 1..Len(reader'.ids) : reader'.ids[i][1] # n
                   /\ n # r
    <2>1. PICK n \in Newest(v) :
             /\ reader.got[j].root = At(v, n)
             /\ reader.got[j].count = Cardinality(Class(v, n))
             /\ \A i \in 1..l : reader.ids[i][1] # n
      BY DEF Listing
    <2>2. n # r
      BY <1>2, <2>1
    <2>. QED BY <1>2, <2>1, <2>2
  <1>11. ASSUME NEW n \in Newest(v), n # r
         PROVE  \/ Missed(n)
                \/ \E j \in 1..Len(reader.got) : reader.got[j].root = At(v, n)
                \/ \E i \in 1..Len(reader'.ids) : reader'.ids[i][1] = n
    <2>1. ASSUME NEW i \in 1..l, reader.ids[i][1] = n
          PROVE  \E k \in 1..Len(reader'.ids) : reader'.ids[k][1] = n
      <3>1. i # 1
        BY <1>11, <2>1
      <3>2. i - 1 \in 1..(l - 1) /\ (i - 1) + 1 = i
        BY <1>2, <3>1
      <3>. QED BY <1>2, <2>1, <3>2
    <2>. QED BY <2>1 DEF Listing
  <1>12. CASE FetchMessage(r, lost) = <<>>
    <2>1. Summary(t, lost) = <<>>
      BY <1>12 DEF Summary
    <2>2. reader'.got = reader.got
      <3>1. reader'.got = reader.got \o <<>>
        BY <1>2, <2>1
      <3>2. reader.got \o <<>> = reader.got
        BY <1>1, ConcatEmptySeq
      <3>. QED BY <3>1, <3>2
    <2>3. ASSUME NEW n, n = r PROVE Missed(n)'
      BY <2>3, <1>3, <1>4, <1>12 DEF FetchMessage, Missed
    <2>4. ASSUME NEW j \in 1..Len(reader'.got)
          PROVE  \E n \in Newest(v)' :
                    /\ reader'.got[j].root = At(v, n)'
                    /\ reader'.got[j].count = Cardinality(Class(v, n)')
                    /\ \A i \in 1..Len(reader'.ids) : reader'.ids[i][1] # n
      <3>1. PICK n \in Newest(v) :
               /\ reader.got[j].root = At(v, n)
               /\ reader.got[j].count = Cardinality(Class(v, n))
               /\ \A i \in 1..Len(reader'.ids) : reader'.ids[i][1] # n
        BY <1>10, <2>2
      <3>. QED BY <1>5, <1>6, <2>2, <3>1
    <2>5. ASSUME NEW n \in Newest(v)'
          PROVE  \/ Missed(n)'
                 \/ \E j \in 1..Len(reader'.got) : reader'.got[j].root = At(v, n)'
                 \/ \E i \in 1..Len(reader'.ids) : reader'.ids[i][1] = n
      <3>1. n \in Newest(v) /\ At(v, n)' = At(v, n) /\ (Missed(n) => Missed(n)')
        BY <1>5, <1>6
      <3>. QED BY <1>11, <2>2, <2>3, <3>1
    <2>6. /\ reader'.view \in Seq(1..Len(idOf'))
          /\ \A i, j \in 1..Len(reader'.view) : reader'.view[i] = reader'.view[j] => i = j
          /\ reader'.got \in Seq(Summaries)
          /\ \A i, j \in 1..Len(reader'.got) : i # j => reader'.got[i].root # reader'.got[j].root
      <3>1. /\ v \in Seq(1..Len(idOf)) /\ \A i, j \in 1..Len(v) : v[i] = v[j] => i = j
            /\ reader.got \in Seq(Summaries)
            /\ \A i, j \in 1..Len(reader.got) :
                  i # j => reader.got[i].root # reader.got[j].root
        BY DEF Listing
      <3>2. reader'.view = v /\ idOf' = idOf
        OBVIOUS
      <3>. QED BY ONLY <2>2, <3>1, <3>2
    <2>. QED BY <1>7, <2>4, <2>5, <2>6 DEF Listing
  <1>13. CASE FetchMessage(r, lost) # <<>>
    <2>. DEFINE s == [root |-> FetchMessage(t[1], lost)[1],
                      latest |-> (FetchMessage(t[Len(t)], lost) \o FetchMessage(t[1], lost))[1],
                      count |-> Len(t)]
                g == reader.got
    <2>1. Summary(t, lost) = <<s>>
      BY <1>13 DEF Summary
    <2>2. ASSUME NEW k PROVE FetchMessage(k, lost) = <<>> \/ \E x \in Mids \cup {NoId} : FetchMessage(k, lost) = <<x>>
      <3>1. ASSUME k \in DOMAIN v PROVE At(v, k) \in Mids \cup {NoId}
        BY <1>1, <1>4, <3>1 DEF At
      <3>. QED BY <3>1 DEF FetchMessage
    <2>3. FetchMessage(r, lost) = <<At(v, r)>> /\ At(v, r) \in Mids \cup {NoId}
      <3>1. FetchMessage(r, lost) = <<At(v, r)>>
        BY <1>13 DEF FetchMessage
      <3>2. r \in 1..Len(v) /\ v \in Seq(1..Len(idOf)) /\ idOf \in Seq(Mids \cup {NoId})
        BY <1>1, <1>3, <1>4
      <3>3. idOf[v[r]] \in Mids \cup {NoId}
        BY ONLY <3>2
      <3>. QED BY <3>1, <3>3 DEF At
    <2>4. (FetchMessage(t[Len(t)], lost) \o FetchMessage(t[1], lost))[1] \in Mids \cup {NoId}
      <3>1. FetchMessage(t[1], lost) = <<At(v, r)>>
        BY <2>3
      <3>2. CASE FetchMessage(t[Len(t)], lost) = <<>>
        BY <2>3, <3>1, <3>2
      <3>3. ASSUME NEW x \in Mids \cup {NoId}, FetchMessage(t[Len(t)], lost) = <<x>>
            PROVE  (FetchMessage(t[Len(t)], lost) \o FetchMessage(t[1], lost))[1] \in Mids \cup {NoId}
        <4>1. (<<x>> \o <<At(v, r)>>)[1] = x
          OBVIOUS
        <4>. QED BY <3>1, <3>3, <4>1
      <3>. QED BY <2>2, <3>2, <3>3
    <2>5. /\ s \in Summaries /\ s.root = At(v, r)
          /\ s.count = Cardinality(Class(v, r))
      BY <1>3, <2>3, <2>4 DEF Summaries
    <2>6. reader'.got = g \o <<s>> /\ g \in Seq(Summaries)
      BY <1>1, <1>2, <2>1
    <2>. HIDE DEF s, g
    <2>7. /\ Len(g) \in Nat /\ reader'.got \in Seq(Summaries) /\ Len(reader'.got) = Len(g) + 1
          /\ \A i \in 1..Len(g) : reader'.got[i] = g[i]
          /\ reader'.got[Len(g) + 1] = s
          /\ \A i \in 1..(Len(g) + 1) : i \in 1..Len(g) \/ i = Len(g) + 1
      <3>1. g \o <<s>> = Append(g, s)
        BY <2>5, <2>6, AppendIsConcat
      <3>2. /\ Append(g, s) \in Seq(Summaries) /\ Len(g) \in Nat
            /\ Len(Append(g, s)) = Len(g) + 1 /\ Append(g, s)[Len(g) + 1] = s
            /\ \A i \in 1..Len(g) : Append(g, s)[i] = g[i]
        BY <2>5, <2>6, AppendProperties
      <3>3. \A i \in 1..(Len(g) + 1) : i \in 1..Len(g) \/ i = Len(g) + 1
        BY <3>2
      <3>4. reader'.got = Append(g, s)
        BY <2>6, <3>1
      <3>. QED BY <3>2, <3>3, <3>4
    <2>8. ASSUME NEW j \in 1..Len(reader'.got)
          PROVE  \E n \in Newest(v)' :
                    /\ reader'.got[j].root = At(v, n)'
                    /\ reader'.got[j].count = Cardinality(Class(v, n)')
                    /\ \A i \in 1..Len(reader'.ids) : reader'.ids[i][1] # n
      <3>1. CASE j \in 1..Len(g)
        <4>1. PICK n \in Newest(v) :
                 /\ reader.got[j].root = At(v, n)
                 /\ reader.got[j].count = Cardinality(Class(v, n))
                 /\ \A i \in 1..Len(reader'.ids) : reader'.ids[i][1] # n
          BY <1>10, <3>1 DEF g
        <4>2. reader'.got[j] = reader.got[j]
          BY <2>7, <3>1 DEF g
        <4>. QED BY <1>5, <1>6, <4>1, <4>2
      <3>2. CASE j = Len(g) + 1
        <4>1. reader'.got[j] = s
          BY <2>7, <3>2
        <4>. QED BY <1>3, <1>5, <1>6, <1>9, <2>5, <4>1
      <3>. QED BY <2>7, <3>1, <3>2
    <2>9. ASSUME NEW i \in 1..Len(reader'.got), NEW j \in 1..Len(reader'.got), i # j
          PROVE  reader'.got[i].root # reader'.got[j].root
      <3>1. ASSUME NEW k \in 1..Len(g) PROVE reader'.got[k].root # At(v, r)
        <4>1. PICK n \in Newest(v) : reader.got[k].root = At(v, n) /\ n # r
          BY <1>10, <3>1 DEF g
        <4>. QED BY <1>3, <1>8, <2>7, <4>1 DEF g
      <3>2. ASSUME NEW a \in 1..Len(g), NEW b \in 1..Len(g), a # b
            PROVE  reader'.got[a].root # reader'.got[b].root
        <4>1. g[a].root # g[b].root
          BY <3>2 DEF Listing, g
        <4>. QED BY <2>7, <4>1
      <3>. QED BY <2>5, <2>7, <2>9, <3>1, <3>2
    <2>10. ASSUME NEW n \in Newest(v)'
           PROVE  \/ Missed(n)'
                  \/ \E j \in 1..Len(reader'.got) : reader'.got[j].root = At(v, n)'
                  \/ \E i \in 1..Len(reader'.ids) : reader'.ids[i][1] = n
      <3>1. n \in Newest(v) /\ At(v, n)' = At(v, n) /\ (Missed(n) => Missed(n)')
        BY <1>5, <1>6
      <3>2. CASE n = r
        <4>1. Len(g) + 1 \in 1..Len(reader'.got)
          BY ONLY <2>7
        <4>2. reader'.got[Len(g) + 1].root = At(v, n)
          BY <2>5, <2>7, <3>2
        <4>. QED BY <3>1, <4>1, <4>2
      <3>3. ASSUME NEW j \in 1..Len(g), reader.got[j].root = At(v, n)
            PROVE  \E k \in 1..Len(reader'.got) : reader'.got[k].root = At(v, n)
        <4>1. j \in 1..Len(reader'.got)
          BY ONLY <2>7, <3>3
        <4>2. reader'.got[j] = reader.got[j]
          BY <2>7 DEF g
        <4>. QED BY <3>3, <4>1, <4>2
      <3>. QED BY <1>11, <3>1, <3>2, <3>3 DEF g
    <2>11. /\ reader'.view \in Seq(1..Len(idOf'))
           /\ \A i, j \in 1..Len(reader'.view) : reader'.view[i] = reader'.view[j] => i = j
      BY DEF Listing
    <2>. QED BY <1>7, <2>7, <2>8, <2>9, <2>10, <2>11 DEF Listing
  <1>. QED BY <1>12, <1>13

(* An id that arrives was not given out.                                    *)
LEMMA ArrivesOnce ==
  ASSUME MailboxInv, OnceInv, NEW m, Arrive(m), \A i \in 1..Len(idOf) : idOf[i] # m,
         m \in Mids \cup {NoId}
  PROVE  OnceInv'
  <1>1. /\ idOf \in Seq(Mids \cup {NoId}) /\ inbox \in Seq(1..Len(idOf))
        /\ Len(idOf) \in Nat /\ Len(inbox) \in Nat
        /\ \A i \in 1..Len(inbox) : inbox[i] \in 1..Len(idOf)
    BY DEF MailboxInv
  <1>2. /\ Len(idOf') = Len(idOf) + 1 /\ idOf'[Len(idOf) + 1] = m
        /\ \A i \in 1..Len(idOf) : idOf'[i] = idOf[i]
    BY <1>1 DEF Arrive
  <1>3. /\ Len(inbox') = Len(inbox) + 1 /\ inbox'[Len(inbox) + 1] = Len(idOf) + 1
        /\ \A i \in 1..Len(inbox) : inbox'[i] = inbox[i]
    BY <1>1 DEF Arrive
  <1>4. /\ \A i \in 1..Len(idOf') : i \in 1..Len(idOf) \/ i = Len(idOf) + 1
        /\ \A i \in 1..Len(inbox') : i \in 1..Len(inbox) \/ i = Len(inbox) + 1
        /\ \A i \in 1..Len(inbox) : inbox[i] # Len(idOf) + 1
    BY <1>1, <1>2, <1>3
  <1>5. ASSUME NEW i \in 1..Len(idOf'), NEW j \in 1..Len(idOf'), idOf'[i] = idOf'[j]
        PROVE  i = j
    BY <1>2, <1>4, <1>5 DEF OnceInv
  <1>6. ASSUME NEW i \in 1..Len(inbox'), NEW j \in 1..Len(inbox'), inbox'[i] = inbox'[j]
        PROVE  i = j
    BY <1>3, <1>4, <1>6 DEF OnceInv
  <1>. QED BY <1>5, <1>6 DEF OnceInv

LEMMA OnceStep ==
  ASSUME MailboxInv, OnceInv, [Next]_vars
  PROVE  OnceInv'
  <1>0. /\ idOf \in Seq(Mids \cup {NoId}) /\ inbox \in Seq(1..Len(idOf))
        /\ Len(inbox) \in Nat /\ DOMAIN idOf = 1..Len(idOf)
    BY DEF MailboxInv
  <1>1. ASSUME UNCHANGED <<inbox, idOf>> PROVE OnceInv'
    BY <1>1 DEF OnceInv
  <1>2. ASSUME NEW m \in Mids, ReceiveOwn(m) PROVE OnceInv'
    <2>1. Arrive(m) /\ \A i \in 1..Len(idOf) : idOf[i] # m
      BY <1>0, <1>2 DEF ReceiveOwn
    <2>. QED BY <2>1, ArrivesOnce
  <1>3. ASSUME NEW m \in Mids, NEW parent \in Mids \cup {None}, ReceiveMail(m, parent)
        PROVE  OnceInv'
    <2>1. Arrive(m) /\ mail[m] = None
      BY <1>3 DEF ReceiveMail
    <2>2. \A i \in 1..Len(idOf) : idOf[i] # m
      BY <2>1, EmailAssumption DEF MailboxInv, Known
    <2>. QED BY <2>1, <2>2, ArrivesOnce
  <1>4. ASSUME ReceiveNameless PROVE OnceInv'
    <2>1. Arrive(NoId) /\ \A i \in 1..Len(idOf) : idOf[i] # NoId
      BY <1>0, <1>4 DEF ReceiveNameless
    <2>. QED BY <2>1, ArrivesOnce
  <1>5. ASSUME NEW n \in 1..MaxUids, Expunge(n) PROVE OnceInv'
    <2>1. n \in 1..Len(inbox) /\ inbox' = RemoveAt(inbox, n) /\ UNCHANGED idOf
      BY <1>0, <1>5 DEF Expunge
    <2>2. \A i \in 1..Len(inbox') :
             /\ (IF i < n THEN i ELSE i + 1) \in 1..Len(inbox)
             /\ inbox'[i] = inbox[IF i < n THEN i ELSE i + 1]
      <3>. DEFINE S == 1..Len(idOf)
      <3>1. inbox \in Seq(S)
        BY <1>0
      <3>. HIDE DEF S
      <3>2. \A i \in 1..Len(RemoveAt(inbox, n)) :
               /\ (IF i < n THEN i ELSE i + 1) \in 1..Len(inbox)
               /\ RemoveAt(inbox, n)[i] = inbox[IF i < n THEN i ELSE i + 1]
        BY <2>1, <3>1, RemovedAt
      <3>. QED BY <2>1, <3>2
    <2>3. Len(inbox') \in Nat
      <3>1. inbox' \in Seq(1..Len(idOf))
        <4>. DEFINE S == 1..Len(idOf)
        <4>1. inbox \in Seq(S)
          BY <1>0
        <4>. HIDE DEF S
        <4>2. RemoveAt(inbox, n) \in Seq(S)
          BY <2>1, <4>1, RemovedAt
        <4>. QED BY <2>1, <4>2 DEF S
      <3>. QED BY ONLY <3>1
    <2>4. ASSUME NEW i \in 1..Len(inbox'), NEW j \in 1..Len(inbox'), inbox'[i] = inbox'[j]
          PROVE  i = j
      <3>. DEFINE a == IF i < n THEN i ELSE i + 1
                  b == IF j < n THEN j ELSE j + 1
      <3>1. a \in 1..Len(inbox) /\ b \in 1..Len(inbox) /\ inbox[a] = inbox[b]
        BY <2>2, <2>4
      <3>2. a = b
        <4>. HIDE DEF a, b
        <4>. QED BY <3>1 DEF OnceInv
      <3>3. n \in Nat /\ i \in Nat /\ j \in Nat
        BY ONLY <2>1, <2>3, n \in 1..MaxUids, i \in 1..Len(inbox'), j \in 1..Len(inbox'), EmailAssumption
      <3>. QED BY ONLY <3>2, <3>3
    <2>. QED BY <2>1, <2>4 DEF OnceInv
  <1>6. ASSUME NEW w \in Workers, NEW m \in Mids, NEW parent \in Mids \cup {None},
               NEW to \in SUBSET Recipients, HandOver(w, m, parent, to)
        PROVE  OnceInv'
    BY <1>1, <1>6 DEF HandOver
  <1>. QED BY <1>1, <1>2, <1>3, <1>4, <1>5, <1>6, Frames
        DEF MailboxSteps

LEMMA ListStep ==
  ASSUME MailboxInv, SenderInv, ReaderInv, OnceInv, ListInv, [Next]_vars
  PROVE  ListInv'
  <1>0. /\ reader = [pc |-> reader.pc, kind |-> reader.kind, root |-> reader.root,
                     view |-> reader.view, ids |-> reader.ids, found |-> reader.found,
                     got |-> reader.got, lost |-> reader.lost, status |-> reader.status]
        /\ Grown
    BY MailboxStep DEF ReaderInv
  <1>1. ASSUME UNCHANGED reader
        PROVE  ListInv'
    <2>1. Listing => Listing'
      BY <1>0, <1>1, ListingStays
    <2>2. Answered("list")' = Answered("list")
      BY <1>1 DEF Answered
    <2>. QED BY <1>1, <2>1, <2>2 DEF ListInv
  <1>2. ASSUME NEW status \in {404, 500, 502}, Answer(status)
        PROVE  ListInv'
    <2>1. reader' = [pc |-> "done", kind |-> reader.kind, root |-> reader.root,
                     view |-> reader.view, ids |-> reader.ids, found |-> reader.found,
                     got |-> reader.got, lost |-> reader.lost, status |-> status]
      BY <1>0, <1>2 DEF Answer
    <2>. QED BY <2>1 DEF ListInv, Answered
  <1>3. ASSUME NEW a \in Accounts, ListThreads(a)
        PROVE  ListInv'
    <2>1. \/ reader' = NewRequest("list", None)
          \/ reader' = Refused("list", None, 502)
      BY <1>3 DEF ListThreads
    <2>2. \/ reader' = [pc |-> "connect", kind |-> "list", root |-> None, view |-> <<>>,
                        ids |-> <<>>, found |-> {}, got |-> <<>>, lost |-> {}, status |-> None]
          \/ reader' = [pc |-> "done", kind |-> "list", root |-> None, view |-> <<>>,
                        ids |-> <<>>, found |-> {}, got |-> <<>>, lost |-> {}, status |-> 502]
      <3>1. ASSUME reader' = NewRequest("list", None)
            PROVE  reader' = [pc |-> "connect", kind |-> "list", root |-> None, view |-> <<>>,
                              ids |-> <<>>, found |-> {}, got |-> <<>>, lost |-> {}, status |-> None]
        BY <3>1, Requests
      <3>2. ASSUME reader' = Refused("list", None, 502)
            PROVE  reader' = [pc |-> "done", kind |-> "list", root |-> None, view |-> <<>>,
                              ids |-> <<>>, found |-> {}, got |-> <<>>, lost |-> {}, status |-> 502]
        BY <3>2, Requests
      <3>. QED BY <2>1, <3>1, <3>2
    <2>3. /\ reader'.pc \in {"connect", "done"} /\ reader'.found = {} /\ reader'.got = <<>>
          /\ reader'.pc = "done" => reader'.status = 502
      BY <2>2
    <2>. QED BY <2>3 DEF ListInv, Answered
  <1>4. ASSUME NEW a \in Accounts, NEW m \in Mids \cup {NoId}, GetThread(a, m)
        PROVE  ListInv'
    <2>1. \/ reader' = NewRequest("detail", m)
          \/ \E status \in {400, 502} : reader' = Refused("detail", m, status)
      BY <1>4 DEF GetThread, DecodeThreadId
    <2>2. ASSUME NEW status \in {400, 502}, reader' = Refused("detail", m, status)
          PROVE  reader'.kind = "detail"
      <3>1. reader' = [pc |-> "done", kind |-> "detail", root |-> m, view |-> <<>>,
                       ids |-> <<>>, found |-> {}, got |-> <<>>, lost |-> {}, status |-> status]
        BY <2>2, Requests
      <3>. QED BY ONLY <3>1
    <2>3. ASSUME reader' = NewRequest("detail", m)
          PROVE  reader'.kind = "detail"
      <3>1. reader' = [pc |-> "connect", kind |-> "detail", root |-> m, view |-> <<>>,
                       ids |-> <<>>, found |-> {}, got |-> <<>>, lost |-> {}, status |-> None]
        BY <2>3, Requests
      <3>. QED BY ONLY <3>1
    <2>. QED BY <2>1, <2>2, <2>3 DEF ListInv, Answered
  <1>5. ASSUME AskThreads
        PROVE  ListInv'
    <2>. DEFINE newest ==
             FirstOf(Reverse(ParseThreadResponse(ThreadResponse(inbox))), Limit)
    <2>1. /\ reader' = [reader EXCEPT !.pc = "fetch", !.view = inbox, !.ids = newest]
          /\ reader.kind = "list" /\ reader.got = <<>> /\ UNCHANGED <<mail, inbox, idOf>>
      BY <1>5 DEF AskThreads, ReaderInv
    <2>. HIDE DEF newest
    <2>2. reader' = [pc |-> "fetch", kind |-> reader.kind, root |-> reader.root,
                     view |-> inbox, ids |-> newest, found |-> reader.found,
                     got |-> reader.got, lost |-> reader.lost, status |-> reader.status]
      BY <1>0, <2>1
    <2>3. reader'.view = inbox /\ reader'.got = reader.got /\ reader'.ids = newest
      BY <2>2
    <2>4. Listing'
      BY <2>1, <2>3, ListAsked DEF newest
    <2>. QED BY <2>2, <2>4 DEF ListInv, Answered
  <1>6. ASSUME SearchThread
        PROVE  ListInv'
    <2>1. Answer(404) \/ reader'.kind = "detail"
      <3>1. reader.kind = "detail"
        BY <1>6 DEF SearchThread
      <3>2. \/ Answer(404)
            \/ reader' = [reader EXCEPT !.pc = "fetch", !.view = inbox,
                                        !.found = FoundIn(inbox, reader.root)]
        BY <1>6 DEF SearchThread
      <3>3. ASSUME NEW found,
                   reader' = [reader EXCEPT !.pc = "fetch", !.view = inbox, !.found = found]
            PROVE  reader'.kind = "detail"
        <4>1. reader' = [pc |-> "fetch", kind |-> reader.kind, root |-> reader.root,
                         view |-> inbox, ids |-> reader.ids, found |-> found,
                         got |-> reader.got, lost |-> reader.lost, status |-> reader.status]
          BY <1>0, <3>3
        <4>. QED BY ONLY <3>1, <4>1
      <3>. QED BY <3>2, <3>3
    <2>. QED BY <1>2, <2>1 DEF ListInv, Answered
  <1>7. ASSUME NEW lost \in SUBSET (1..MaxUids), ReadThread(lost)
        PROVE  ListInv'
    <2>1. /\ reader' = [reader EXCEPT !.ids = Tail(@), !.lost = @ \cup lost,
                                      !.got = @ \o Summary(Head(reader.ids), lost)]
          /\ reader.pc = "fetch" /\ reader.ids # <<>> /\ UNCHANGED <<mail, inbox, idOf>>
      BY <1>7 DEF ReadThread
    <2>. DEFINE ids == Tail(reader.ids)
                got == reader.got \o Summary(Head(reader.ids), lost)
    <2>2. reader' = [reader EXCEPT !.ids = ids, !.got = got, !.lost = reader.lost \cup lost]
      BY <2>1
    <2>. HIDE DEF ids, got
    <2>3. reader' = [pc |-> reader.pc, kind |-> reader.kind, root |-> reader.root,
                     view |-> reader.view, ids |-> ids, found |-> reader.found,
                     got |-> got, lost |-> reader.lost \cup lost, status |-> reader.status]
      BY <1>0, <2>2
    <2>4. /\ reader'.view = reader.view /\ reader'.ids = ids /\ reader'.got = got
          /\ reader'.lost = reader.lost \cup lost
      BY <2>3
    <2>5. Listing => Listing'
      BY <2>1, <2>4, ThreadListed DEF ids, got
    <2>6. /\ reader'.pc = "fetch" /\ reader'.kind = reader.kind /\ reader'.found = reader.found
      BY <2>1, <2>3
    <2>. QED BY <2>1, <2>5, <2>6 DEF ListInv, Answered
  <1>8. ASSUME NEW lost \in SUBSET (1..MaxUids), NEW u \in 1..MaxUids, ReadMessage(u, lost)
        PROVE  ListInv'
    <2>1. /\ reader' = [reader EXCEPT !.found = @ \ {u}, !.got = @ \o FetchMessage(u, lost),
                                      !.lost = @ \cup lost]
          /\ u \in reader.found
      BY <1>8 DEF ReadMessage
    <2>2. reader'.kind = reader.kind /\ reader.kind # "list"
      BY <1>0, <2>1 DEF ListInv
    <2>. QED BY <2>2 DEF ListInv, Answered
  <1>9. ASSUME ReadDone
        PROVE  ListInv'
    <2>1. /\ reader.pc = "fetch" /\ reader.ids = <<>>
          /\ reader' = [reader EXCEPT !.pc = "done", !.status = 200]
      BY <1>9 DEF ReadDone, Answer
    <2>2. reader' = [pc |-> "done", kind |-> reader.kind, root |-> reader.root,
                     view |-> reader.view, ids |-> reader.ids, found |-> reader.found,
                     got |-> reader.got, lost |-> reader.lost, status |-> 200]
      BY <1>0, <2>1
    <2>3. /\ reader'.view = reader.view /\ reader'.ids = reader.ids
          /\ reader'.got = reader.got /\ reader'.lost = reader.lost
      BY <2>2
    <2>4. Listing => Listing'
      BY <1>0, <2>3, ListingStays
    <2>. QED BY <2>1, <2>2, <2>4 DEF ListInv, Answered
  <1>10. ASSUME NEW status \in {500, 502}, ImapFails(status)
         PROVE  ListInv'
    BY <1>2, <1>10 DEF ImapFails
  <1>11. BadCriteria => ListInv'
    BY <1>2 DEF BadCriteria
  <1>12. ASSUME ThreadRefused
         PROVE  ListInv'
    <2>1. /\ reader.kind = "list" /\ reader.found = {} /\ reader.got = <<>> /\ reader.ids = <<>>
          /\ reader' = [reader EXCEPT !.pc = "done", !.status = 200, !.view = inbox,
                                      !.lost = DOMAIN inbox]
          /\ UNCHANGED <<mail, inbox, idOf>>
      BY <1>12 DEF ThreadRefused, ListInv, ReaderInv
    <2>2. reader' = [pc |-> "done", kind |-> reader.kind, root |-> reader.root,
                     view |-> inbox, ids |-> reader.ids, found |-> reader.found,
                     got |-> reader.got, lost |-> DOMAIN inbox, status |-> 200]
      BY <1>0, <2>1
    <2>3. /\ reader'.view = inbox /\ reader'.ids = <<>> /\ reader'.got = <<>>
          /\ reader'.lost = DOMAIN inbox /\ reader'.found = {}
      BY <2>1, <2>2
    <2>4. Listing'
      BY <2>1, <2>3, ListRefused
    <2>. QED BY <2>3, <2>4 DEF ListInv, Answered
  <1>13. ASSUME BrokenOff
         PROVE  ListInv'
    <2>. DEFINE more == reader.lost \cup reader.found
                          \cup {reader.ids[i][1] : i \in DOMAIN reader.ids}
    <2>1. /\ reader.pc = "fetch"
          /\ reader' = [reader EXCEPT !.pc = "done", !.status = 200, !.ids = <<>>,
                                      !.found = {}, !.lost = more]
      BY <1>13 DEF BrokenOff
    <2>2. Listing => \A i \in 1..Len(reader.ids) : reader.ids[i][1] \in more
      <3>1. ASSUME Listing PROVE DOMAIN reader.ids = 1..Len(reader.ids)
        <4>1. reader.ids \in Seq(Seq(Nat))
          BY <3>1 DEF Listing, ToRead
        <4>. QED BY ONLY <4>1
      <3>. QED BY <3>1
    <2>3. reader.lost \subseteq more
      OBVIOUS
    <2>. HIDE DEF more
    <2>4. reader' = [pc |-> "done", kind |-> reader.kind, root |-> reader.root,
                     view |-> reader.view, ids |-> <<>>, found |-> {},
                     got |-> reader.got, lost |-> more, status |-> 200]
      BY <1>0, <2>1
    <2>5. /\ reader'.kind = reader.kind /\ reader'.view = reader.view /\ reader'.ids = <<>>
          /\ reader'.got = reader.got /\ reader'.lost = more /\ reader'.found = {}
      BY <2>4
    <2>6. Listing => Listing'
      BY <1>0, <2>2, <2>3, <2>5, ListBroken
    <2>. QED BY <2>1, <2>5, <2>6 DEF ListInv, Answered
  <1>. QED BY <1>1, <1>3, <1>4, <1>5, <1>6, <1>7, <1>8, <1>9, <1>10, <1>11, <1>12, <1>13, Frames
        DEF ReaderSteps

----------------------------------------------------------------------------
(* Theorems                                                                 *)

LEMMA EmailStart == Init => EmailInv
  <1>. SUFFICES ASSUME Init PROVE EmailInv
    OBVIOUS
  <1>1. Known = {}
    BY DEF Init, Known
  <1>2. MailboxInv
    <2>1. idOf = <<>> /\ inbox = <<>> /\ Len(idOf) = 0
      BY DEF Init
    <2>2. idOf \in Seq(Mids \cup {NoId}) /\ inbox \in Seq(1..Len(idOf))
      BY <2>1, EmptySeq
    <2>. QED BY <2>1, <2>2 DEF Init, MailboxInv
  <1>3. SenderInv
    BY DEF Init, SenderInv, NoSender, NoJob
  <1>4. CopiesAreConfirmed
    BY <1>1 DEF CopiesAreConfirmed
  <1>5. ReaderInv
    BY DEF Init, ReaderInv, Unread, Answered
  <1>. QED BY <1>2, <1>3, <1>4, <1>5 DEF EmailInv

(* The invariant behind the two: the mailbox holds messages that exist, a   *)
(* worker thread knows what it handed over, and a reader has read, or will  *)
(* still read, each member of its thread that is there.                     *)
THEOREM EmailInductive == Spec => []EmailInv
  <1>1. EmailInv /\ [Next]_vars => EmailInv'
    BY MailboxStep, SenderStep, ReaderStep DEF EmailInv
  <1>. QED BY <1>1, EmailStart, PTL DEF Spec

(* Every variable keeps its type; the ids that are found are given out.     *)
THEOREM EmailTypes == Spec => []TypeOK
  <1>1. Init => Bounded
    BY EmailAssumption DEF Init, Bounded, Unread
  <1>2. EmailInv /\ Bounded /\ [Next]_vars => Bounded'
    BY BoundedStep DEF EmailInv
  <1>3. EmailInv /\ Bounded => TypeOK
    <2>. SUFFICES ASSUME EmailInv, Bounded PROVE TypeOK
      OBVIOUS
    <2>1. inbox \in Seq(DOMAIN idOf)
      BY DEF EmailInv, MailboxInv
    <2>. QED BY <2>1 DEF TypeOK, EmailInv, MailboxInv, SenderInv, Bounded
  <1>. QED BY <1>1, <1>2, <1>3, EmailInductive, PTL DEF Spec

(* POST /v1/email/send: a copy that left is known to its caller, unless the *)
(* server's answer was lost or the caller had stopped waiting.              *)
THEOREM CopiesAreKnown == Spec => []CopiesAreConfirmed
  <1>1. EmailInv => CopiesAreConfirmed
    BY DEF EmailInv
  <1>. QED BY <1>1, EmailInductive, PTL

(* GET /v1/email/threads/{id}: while no deletion has made places and UIDs   *)
(* differ, the answer holds the thread, and nothing else, but for messages  *)
(* that were deleted since or whose FETCH failed.                           *)
THEOREM DetailIsTheThread == Spec => []DetailIsThread
  <1>1. EmailInv => DetailIsThread
    <2>. SUFFICES ASSUME EmailInv, Answered("detail"), Untouched
                  PROVE  /\ Got \subseteq {At(reader.view, n) : n \in Members}
                         /\ \A n \in Members : Missed(n) \/ At(reader.view, n) \in Got
      BY DEF DetailIsThread, Untouched, Members
    <2>1. Reading /\ reader.found = {}
      BY DEF EmailInv, ReaderInv, Answered
    <2>. QED BY <2>1 DEF Reading
  <1>. QED BY <1>1, EmailInductive, PTL

(* GET /v1/email/threads: the list shows the threads with the newest roots, *)
(* each once and with its number of messages, however the tree of the       *)
(* server branched; a thread is missing only when its root was deleted, or  *)
(* was not read because the server refused or the connection broke.         *)
THEOREM ListIsTheMailbox == Spec => []ListIsFaithful
  <1>1. Init => OnceInv /\ ListInv
    BY DEF Init, OnceInv, ListInv, Unread, Answered
  <1>2. EmailInv /\ OnceInv /\ ListInv /\ [Next]_vars => OnceInv' /\ ListInv'
    BY OnceStep, ListStep DEF EmailInv
  <1>3. OnceInv /\ ListInv => ListIsFaithful
    <2>. SUFFICES ASSUME OnceInv, ListInv, Answered("list")
                  PROVE  LET view == reader.view
                             newest == Newest(view) IN
                         /\ \A s \in Got : \E n \in newest :
                               s.root = At(view, n) /\ s.count = Cardinality(Class(view, n))
                         /\ \A n \in newest : Missed(n) \/ \E s \in Got : s.root = At(view, n)
                         /\ Cardinality(Got) = Len(reader.got)
      BY DEF ListIsFaithful, Newest
    <2>1. Listing /\ reader.ids = <<>> /\ Len(reader.ids) = 0
      BY DEF ListInv, Answered
    <2>2. DOMAIN reader.got = 1..Len(reader.got) /\ Len(reader.got) \in Nat
      BY <2>1 DEF Listing
    <2>3. \A s \in Got : \E j \in 1..Len(reader.got) : s = reader.got[j]
      BY <2>2 DEF Got
    <2>4. \A j \in 1..Len(reader.got) : reader.got[j] \in Got
      BY <2>2 DEF Got
    <2>5. ASSUME NEW s \in Got
          PROVE  \E n \in Newest(reader.view) :
                    /\ s.root = At(reader.view, n)
                    /\ s.count = Cardinality(Class(reader.view, n))
      BY <2>1, <2>3 DEF Listing
    <2>6. ASSUME NEW n \in Newest(reader.view)
          PROVE  Missed(n) \/ \E s \in Got : s.root = At(reader.view, n)
      BY <2>1, <2>4 DEF Listing
    <2>7. Cardinality(Got) = Len(reader.got)
      <3>. DEFINE h == [j \in 1..Len(reader.got) |-> reader.got[j]]
      <3>1. \A i, j \in 1..Len(reader.got) : i # j => reader.got[i] # reader.got[j]
        <4>1. \A i, j \in 1..Len(reader.got) :
                 i # j => reader.got[i].root # reader.got[j].root
          BY <2>1 DEF Listing
        <4>. QED BY ONLY <4>1
      <3>2. h \in Bijection(1..Len(reader.got), Got)
        BY <2>3, <2>4, <3>1 DEF Bijection, Injection, Surjection, IsInjective
      <3>3. ExistsBijection(1..Len(reader.got), Got)
        BY <3>2 DEF ExistsBijection
      <3>4. /\ IsFiniteSet(1..Len(reader.got))
            /\ Cardinality(1..Len(reader.got)) = Len(reader.got)
        BY <2>2, FS_Interval
      <3>. QED BY <3>3, <3>4, FS_Bijection
    <2>. QED BY <2>5, <2>6, <2>7
  <1>. QED BY <1>1, <1>2, <1>3, EmailInductive, PTL DEF Spec
=============================================================================
