---------------------------- MODULE Apple_proofs ----------------------------
(***************************************************************************)
(* What is proved of Apple, for any collections, items, requests and        *)
(* edits by the owner: what a caller may conclude from the answer of a      *)
(* write, and what a list holds.                                            *)
(***************************************************************************)
EXTENDS Apple, SequenceTheorems, FiniteSetTheorems, TLAPS

(* What is at rest in a variable.                                           *)
Texts == {"location", "notes", "due_date", "phones", "emails", "completed"}
Events == {"title", "start", "end", "location", "notes", "due_date", "completed",
           "delete", "make"}
Items == [id : Ids, has : SUBSET Texts]
Reads == [c : Collections, item : Items]
Todos == Seq(Collections)
Outs == Seq(Reads)
Refs == Nat \X Collections \X Ids
Scripts ==
    [pc : {"idle", "list", "make", "made", "look", "set", "done"},
     app : Apps \cup {None}, op : {None, "list", "create", "update", "delete"},
     id : Ids \cup {None}, new : Items \cup {None}, sets : SUBSET Events, fill : BOOLEAN,
     todo : Todos, refs : SUBSET Refs, out : Outs, shown : SUBSET Reads, full : BOOLEAN,
     status : {None, 200, 201, 400, 404, 502}]

Types ==
    /\ store \in [Collections -> Seq(Items)]
    /\ call \in [Calls -> Scripts]
    /\ effect \in [Calls -> [Collections -> SUBSET Events]]
    /\ refused \in [Calls -> SUBSET Collections]
    /\ steady \in [Calls -> SUBSET (Collections \X Ids)]

(* What the two properties say of one request.                              *)
Faithful(r) ==
    Lists200(r) /\ ~call[r].full =>
        \A e \in steady[r] \ Shown(r) :
            /\ call[r].out # <<>>
            /\ LET last == Last(call[r].out) IN
               e = <<last.c, last.item.id>> /\ Tail2(call[r].app)[2] \notin last.item.has

Fits(r) ==
    /\ Answered(r, 400) => \A c \in Collections : effect[r][c] = {}
    /\ Answered(r, 201) => \E c \in Collections : effect[r][c] = {"make"}
    /\ Answered(r, 200) /\ call[r].sets # {} =>
          Cardinality(Whole(r)) = 1 /\ Partial(r) \subseteq refused[r]
    /\ Answered(r, 404) =>
          /\ Whole(r) = {} /\ Partial(r) \subseteq refused[r]
          /\ \A e \in steady[r] : e[1] \in refused[r]
    /\ Answered(r, 502) => Cardinality(Whole(r) \cup (Partial(r) \ refused[r])) <= 1

(* A script asks for items, makes one, or looks for one to change.          *)
Stage(r) ==
    /\ call[r].pc \in {"list", "make", "made"} => call[r].sets = {}
    /\ call[r].pc = "list" => call[r].op = "list" /\ call[r].app \in Apps
    /\ call[r].pc \in {"make", "made"} =>
          call[r].op # "list" /\ call[r].todo # <<>> /\ call[r].new \in Items
    /\ call[r].pc \in {"look", "set"} =>
          /\ call[r].sets # {} /\ call[r].op # "list"
          /\ call[r].app \in Apps /\ call[r].id \in Ids
    /\ call[r].pc = "set" => call[r].todo # <<>>
    /\ call[r].pc = "done" /\ call[r].status = 200 /\ call[r].op = "list" =>
          call[r].app \in Apps

(* A collection has got nothing of the change, or less than the whole and   *)
(* then the application has refused the rest.                               *)
Short(r, c) == effect[r][c] = {} \/ (c \in refused[r] /\ effect[r][c] # call[r].sets)

(* The collections behind the script's place, and the one it is at.         *)
Progress(r) ==
    /\ call[r].pc \in {"list", "make"} => \A c \in Collections : effect[r][c] = {}
    /\ call[r].pc = "made" =>
          \A c \in Collections : effect[r][c] = IF c = Here(r) THEN {"make"} ELSE {}
    /\ call[r].pc = "look" => \A c \in Collections : Short(r, c)
    /\ call[r].pc = "set" => \A c \in Collections : c = Here(r) \/ Short(r, c)
    /\ call[r].pc \in {"look", "set"} =>
          \A c \in Collections : effect[r][c] \subseteq call[r].sets

(* An item that was there all along is there, and the script has not passed *)
(* it unless its collection has refused the change ...                      *)
There(c, i) == \E n \in DOMAIN store[c] : store[c][n].id = i
Ahead(r, c) == \E n \in DOMAIN call[r].todo : call[r].todo[n] = c

Search(r) ==
    call[r].pc \in {"look", "set"} =>
        \A e \in steady[r] :
            /\ e[2] = call[r].id /\ There(e[1], e[2])
            /\ e[1] \in refused[r] \/ Ahead(r, e[1])

(* ... or, when a list asks for it, is still to be named, named, or read.   *)
Listing(r) ==
    call[r].pc = "list" /\ ~call[r].full =>
        \A e \in steady[r] :
            \/ /\ Ahead(r, e[1])
               /\ \E n \in DOMAIN store[e[1]] :
                     /\ store[e[1]][n].id = e[2]
                     /\ Wanted(call[r].app, call[r].fill, store[e[1]][n])
            \/ \E ref \in call[r].refs : ref[2] = e[1] /\ ref[3] = e[2]
            \/ \E n \in DOMAIN call[r].out :
                  call[r].out[n].c = e[1] /\ call[r].out[n].item.id = e[2]

(* There is one address book: a search that was cut off has no more to do.  *)
CutOff(r) ==
    call[r].pc = "list" =>
        /\ call[r].full => call[r].todo = <<>>
        /\ call[r].app = "contacts" => call[r].todo \in {<<>>, <<AddressBook>>}

RequestInv(r) ==
    /\ Stage(r) /\ Progress(r) /\ Search(r) /\ Listing(r) /\ CutOff(r)
    /\ Fits(r) /\ Faithful(r)

AppleInv == Types /\ \A r \in Calls : RequestInv(r)

----------------------------------------------------------------------------
(* The forms a script takes                                                 *)

LEMMA Empty == <<>> \in Todos /\ <<>> \in Outs
  BY EmptySeq DEF Todos, Outs

LEMMA Blank ==
  /\ NoCall \in Scripts
  /\ NoCall.pc = "idle" /\ NoCall.op = None /\ NoCall.id = None /\ NoCall.new = None
  /\ NoCall.sets = {} /\ NoCall.fill = FALSE /\ NoCall.todo = <<>> /\ NoCall.full = FALSE
  /\ NoCall.status = None
  BY Empty DEF NoCall, Scripts

Shaped(q) ==
    q = [pc |-> q.pc, app |-> q.app, op |-> q.op, id |-> q.id, new |-> q.new,
         sets |-> q.sets, fill |-> q.fill, todo |-> q.todo, refs |-> q.refs,
         out |-> q.out, shown |-> q.shown, full |-> q.full, status |-> q.status]

LEMMA Shape ==
  ASSUME NEW q \in Scripts
  PROVE  /\ Shaped(q)
         /\ q.todo \in Todos /\ q.refs \in SUBSET Refs /\ q.out \in Outs
         /\ q.shown \in SUBSET Reads /\ q.full \in BOOLEAN
         /\ q.status \in {None, 200, 201, 400, 404, 502}
  BY DEF Scripts, Shaped

(* When its request begins.                                                 *)
Begun(q, pc, app, op, id, new, sets, fill, todo, status) ==
    [pc |-> pc, app |-> app, op |-> op, id |-> id, new |-> new, sets |-> sets,
     fill |-> fill, todo |-> todo, refs |-> q.refs, out |-> q.out, shown |-> q.shown,
     full |-> q.full, status |-> status]

LEMMA BegunIs ==
  ASSUME NEW q \in Scripts,
         NEW pc \in {"list", "make", "look", "done"}, NEW app \in Apps,
         NEW op \in {None, "list", "create", "update", "delete"},
         NEW id \in Ids \cup {None}, NEW new \in Items \cup {None},
         NEW sets \in SUBSET Events, NEW fill \in BOOLEAN, NEW todo \in Todos,
         NEW status \in {None, 200, 400}, NEW p,
         p = Begun(q, pc, app, op, id, new, sets, fill, todo, status)
  PROVE  /\ p \in Scripts
         /\ p.pc = pc /\ p.app = app /\ p.op = op /\ p.id = id /\ p.new = new
         /\ p.sets = sets /\ p.fill = fill /\ p.todo = todo /\ p.status = status
         /\ p.full = q.full
  <1>1. p \in Scripts
    BY DEF Begun, Scripts
  <1>. QED BY <1>1 DEF Begun

(* After a step of it: what was asked for stays.                            *)
Moved(q, pc, todo, refs, out, shown, full, status) ==
    [pc |-> pc, app |-> q.app, op |-> q.op, id |-> q.id, new |-> q.new, sets |-> q.sets,
     fill |-> q.fill, todo |-> todo, refs |-> refs, out |-> out, shown |-> shown,
     full |-> full, status |-> status]

Kin(p, q) ==
    p.app = q.app /\ p.op = q.op /\ p.id = q.id /\ p.new = q.new /\ p.sets = q.sets
    /\ p.fill = q.fill

LEMMA MovedIs ==
  ASSUME NEW q \in Scripts, NEW pc \in {"list", "made", "look", "set", "done"},
         NEW todo \in Todos, NEW refs \in SUBSET Refs, NEW out \in Outs,
         NEW shown \in SUBSET Reads, NEW full \in BOOLEAN,
         NEW status \in {None, 200, 201, 400, 404, 502}, NEW p,
         p = Moved(q, pc, todo, refs, out, shown, full, status)
  PROVE  /\ p \in Scripts /\ Kin(p, q)
         /\ p.pc = pc /\ p.todo = todo /\ p.refs = refs /\ p.out = out
         /\ p.shown = shown /\ p.full = full /\ p.status = status
  <1>1. p \in Scripts
    BY DEF Moved, Scripts
  <1>. QED BY <1>1 DEF Moved, Kin

----------------------------------------------------------------------------
(* What is there                                                            *)

(* What is no longer in a collection is not called steady any more.         *)
Stays ==
    \A c \in Collections : \A n \in DOMAIN store[c] :
        \/ \E m \in DOMAIN store'[c] : store'[c][m] = store[c][n]
        \/ \A r \in Calls : <<c, store[c][n].id>> \notin steady'[r]

Same(r) ==
    /\ call'[r] = call[r] /\ effect'[r] = effect[r] /\ refused'[r] = refused[r]
    /\ steady'[r] \subseteq steady[r]

LEMMA AtIs ==
  ASSUME Types, NEW c \in Collections, NEW i \in IdsIn(c)
  PROVE  /\ At(c, i) \in 1..Len(store[c]) /\ store[c][At(c, i)].id = i
         /\ store[c][At(c, i)] \in Items
  <1>1. store[c] \in Seq(Items)
    BY DEF Types
  <1>2. \E k \in DOMAIN store[c] : store[c][k].id = i
    BY DEF IdsIn, ToSet
  <1>3. At(c, i) \in DOMAIN store[c] /\ store[c][At(c, i)].id = i
    BY <1>2 DEF At
  <1>. QED BY <1>1, <1>3

LEMMA RemovedAt ==
  ASSUME NEW S, NEW s \in Seq(S), NEW n \in 1..Len(s)
  PROVE  /\ RemoveAt(s, n) \in Seq(S)
         /\ \A k \in 1..Len(s) : k # n =>
               \E m \in 1..Len(RemoveAt(s, n)) : RemoveAt(s, n)[m] = s[k]
  <1>. DEFINE a == SubSeq(s, 1, n - 1)
              b == SubSeq(s, n + 1, Len(s))
  <1>0. Len(s) \in Nat /\ \A i \in 1..Len(s) : s[i] \in S
    OBVIOUS
  <1>1. /\ a \in Seq(S) /\ Len(a) = n - 1
        /\ \A i \in 1..(n - 1) : a[i] = s[i]
    <2>1. \A i \in 1..(n - 1) : s[i] \in S
      BY <1>0
    <2>. QED BY <2>1, SubSeqProperties
  <1>2. /\ b \in Seq(S) /\ Len(b) = Len(s) - n
        /\ \A i \in 1..(Len(s) - n) : b[i] = s[n + i]
    <2>1. \A i \in (n + 1)..Len(s) : s[i] \in S
      BY <1>0
    <2>2. /\ b \in Seq(S) /\ Len(b) = IF n + 1 <= Len(s) THEN Len(s) - (n + 1) + 1 ELSE 0
          /\ \A i \in 1..(Len(s) - (n + 1) + 1) : b[i] = s[n + 1 + i - 1]
      BY <1>0, <2>1, SubSeqProperties
    <2>. QED BY <1>0, <2>2
  <1>3. RemoveAt(s, n) = a \o b
    BY DEF RemoveAt
  <1>. HIDE DEF a, b
  <1>4. /\ a \o b \in Seq(S) /\ Len(a \o b) = Len(a) + Len(b)
        /\ \A i \in 1..(Len(a) + Len(b)) :
              (a \o b)[i] = IF i <= Len(a) THEN a[i] ELSE b[i - Len(a)]
    BY <1>1, <1>2, ConcatProperties
  <1>5. ASSUME NEW k \in 1..Len(s), k # n
        PROVE  \E m \in 1..Len(a \o b) : (a \o b)[m] = s[k]
    <2>1. CASE k < n
      <3>1. k \in 1..Len(a \o b) /\ (a \o b)[k] = s[k]
        BY <1>0, <1>1, <1>2, <1>4, <2>1
      <3>. QED BY <3>1
    <2>2. CASE k > n
      <3>1. k - 1 \in 1..Len(a \o b) /\ k - n \in 1..Len(b) /\ ~(k - 1 <= Len(a))
            /\ k - 1 - Len(a) = k - n /\ n + (k - n) = k
        BY <1>0, <1>1, <1>2, <1>4, <2>2
      <3>2. (a \o b)[k - 1] = b[k - n] /\ b[k - n] = s[k]
        BY <1>1, <1>2, <1>4, <3>1
      <3>. QED BY <3>1, <3>2
    <2>. QED BY <1>0, <1>5, <2>1, <2>2
  <1>. QED BY <1>3, <1>4, <1>5

(* The three ways a collection changes.                                     *)
LEMMA StoreGrows ==
  ASSUME Types, NEW c \in Collections, NEW item \in Items, Puts(c, Append(store[c], item))
  PROVE  store' \in [Collections -> Seq(Items)] /\ Stays
  <1>1. store \in [Collections -> Seq(Items)] /\ store[c] \in Seq(Items)
    BY DEF Types
  <1>. DEFINE s == Append(store[c], item)
  <1>2. /\ s \in Seq(Items) /\ Len(s) = Len(store[c]) + 1 /\ Len(store[c]) \in Nat
        /\ \A n \in 1..Len(store[c]) : s[n] = store[c][n]
    <2>. DEFINE t == store[c]
                I == Items
    <2>1. t \in Seq(I) /\ item \in I
      BY <1>1
    <2>. HIDE DEF t, I
    <2>2. /\ Append(t, item) \in Seq(I) /\ Len(Append(t, item)) = Len(t) + 1 /\ Len(t) \in Nat
          /\ \A n \in 1..Len(t) : Append(t, item)[n] = t[n]
      BY <2>1
    <2>. QED BY <2>2 DEF t, I
  <1>3. store' = [store EXCEPT ![c] = s]
    BY DEF Puts
  <1>. HIDE DEF s
  <1>4. store' \in [Collections -> Seq(Items)]
    BY <1>1, <1>2, <1>3
  <1>5. ASSUME NEW d \in Collections, NEW n \in DOMAIN store[d]
        PROVE  \E m \in DOMAIN store'[d] : store'[d][m] = store[d][n]
    <2>1. CASE d # c
      BY <1>1, <1>3, <2>1
    <2>2. CASE d = c
      <3>1. store'[d] = s /\ DOMAIN s = 1..Len(s) /\ DOMAIN store[d] = 1..Len(store[c])
        BY <1>1, <1>2, <1>3, <2>2
      <3>2. n \in DOMAIN s /\ s[n] = store[d][n]
        BY <1>2, <2>2, <3>1
      <3>. QED BY <3>1, <3>2
    <2>. QED BY <2>1, <2>2
  <1>. QED BY <1>4, <1>5 DEF Stays

LEMMA StoreLoses ==
  ASSUME Types, NEW c \in Collections, NEW i \in IdsIn(c), NEW s,
         Puts(c, s), Touched(c, i),
         \/ s = RemoveAt(store[c], At(c, i))
         \/ \E x \in Items : s = [store[c] EXCEPT ![At(c, i)] = x]
  PROVE  /\ store' \in [Collections -> Seq(Items)] /\ Stays
         /\ steady' \in [Calls -> SUBSET (Collections \X Ids)]
         /\ \A r \in Calls : steady'[r] = steady[r] \ {<<c, i>>}
  <1>1. store \in [Collections -> Seq(Items)] /\ store[c] \in Seq(Items)
        /\ steady \in [Calls -> SUBSET (Collections \X Ids)]
    BY DEF Types
  <1>2. At(c, i) \in 1..Len(store[c]) /\ store[c][At(c, i)].id = i
    BY AtIs
  <1>3. /\ s \in Seq(Items)
        /\ \A k \in 1..Len(store[c]) : k # At(c, i) =>
              \E m \in 1..Len(s) : s[m] = store[c][k]
    <2>1. CASE s = RemoveAt(store[c], At(c, i))
      BY <1>1, <1>2, <2>1, RemovedAt
    <2>2. ASSUME NEW x \in Items, s = [store[c] EXCEPT ![At(c, i)] = x]
          PROVE  /\ s \in Seq(Items)
                 /\ \A k \in 1..Len(store[c]) : k # At(c, i) =>
                       \E m \in 1..Len(s) : s[m] = store[c][k]
      <3>. DEFINE t == store[c]
                  I == Items
                  k == At(c, i)
      <3>1. t \in Seq(I) /\ x \in I /\ k \in 1..Len(t) /\ s = [t EXCEPT ![k] = x]
        BY <1>1, <1>2, <2>2
      <3>. HIDE DEF t, I, k
      <3>2. /\ s \in Seq(I) /\ Len(s) = Len(t)
            /\ \A m \in 1..Len(t) : m # k => s[m] = t[m]
        BY <3>1
      <3>. QED BY <3>2 DEF t, I, k
    <2>. QED BY <2>1, <2>2
  <1>4. store' = [store EXCEPT ![c] = s]
    BY DEF Puts
  <1>5. /\ store' \in [Collections -> Seq(Items)] /\ store'[c] = s
        /\ \A d \in Collections : d # c => store'[d] = store[d]
    BY <1>1, <1>3, <1>4
  <1>6. steady' \in [Calls -> SUBSET (Collections \X Ids)]
        /\ \A r \in Calls : steady'[r] = steady[r] \ {<<c, i>>}
    BY <1>1 DEF Touched
  <1>7. ASSUME NEW d \in Collections, NEW n \in DOMAIN store[d]
        PROVE  \/ \E m \in DOMAIN store'[d] : store'[d][m] = store[d][n]
               \/ \A r \in Calls : <<d, store[d][n].id>> \notin steady'[r]
    <2>1. CASE d # c
      BY <1>5, <2>1
    <2>2. CASE d = c /\ n = At(c, i)
      BY <1>2, <1>6, <2>2
    <2>3. CASE d = c /\ n # At(c, i)
      <3>1. n \in 1..Len(store[c]) /\ DOMAIN s = 1..Len(s)
        BY <1>1, <1>3, <2>3
      <3>. QED BY <1>3, <1>5, <2>3, <3>1
    <2>. QED BY <2>1, <2>2, <2>3
  <1>. QED BY <1>5, <1>6, <1>7 DEF Stays

(* A step that moves one script only.                                       *)
LEMMA OneGoes ==
  ASSUME Types, NEW r \in Calls, NEW p \in Scripts, Goes(r, p)
  PROVE  /\ call' \in [Calls -> Scripts] /\ call'[r] = p
         /\ \A o \in Calls : o # r => call'[o] = call[o]
  BY DEF Types, Goes

LEMMA Plain ==
  ASSUME Types, NEW r \in Calls, NEW p \in Scripts, Goes(r, p),
         UNCHANGED <<store, effect, refused, steady>>
  PROVE  Types' /\ Stays /\ call'[r] = p /\ \A o \in Calls : o # r => Same(o)
  <1>1. /\ call' \in [Calls -> Scripts] /\ call'[r] = p
        /\ \A o \in Calls : o # r => call'[o] = call[o]
    BY OneGoes
  <1>2. Stays
    BY DEF Stays
  <1>3. Types'
    BY <1>1 DEF Types
  <1>. QED BY <1>1, <1>2, <1>3 DEF Same

(* Whoever does not move keeps what the invariant says of it.               *)
LEMMA Others ==
  ASSUME Types, Types', NEW r \in Calls, Same(r), Stays, RequestInv(r)
  PROVE  RequestInv(r)'
  <1>1. /\ call'[r] = call[r] /\ effect'[r] = effect[r] /\ refused'[r] = refused[r]
        /\ steady'[r] \subseteq steady[r]
        /\ \A e \in steady[r] : e[1] \in Collections /\ e = <<e[1], e[2]>>
    BY DEF Same, Types
  <1>2. Stage(r)' /\ Progress(r)' /\ CutOff(r)'
    BY <1>1 DEF RequestInv, Stage, Progress, CutOff, Short, Here
  <1>3. ASSUME NEW e \in steady'[r], NEW n \in DOMAIN store[e[1]], store[e[1]][n].id = e[2]
        PROVE  \E m \in DOMAIN store'[e[1]] : store'[e[1]][m] = store[e[1]][n]
    BY <1>1, <1>3 DEF Stays
  <1>4. Search(r)'
    <2>1. \A e \in steady'[r] : There(e[1], e[2]) => There(e[1], e[2])'
      BY <1>3 DEF There
    <2>. QED BY <1>1, <2>1 DEF RequestInv, Search, Ahead
  <1>5. Listing(r)'
    <2>1. ASSUME NEW e \in steady'[r], NEW n \in DOMAIN store[e[1]], store[e[1]][n].id = e[2],
                 Wanted(call[r].app, call[r].fill, store[e[1]][n])
          PROVE  \E m \in DOMAIN store'[e[1]] :
                    /\ store'[e[1]][m].id = e[2]
                    /\ Wanted(call[r].app, call[r].fill, store'[e[1]][m])
      BY <1>3, <2>1
    <2>. QED BY <1>1, <2>1 DEF RequestInv, Listing, Ahead
  <1>6. Fits(r)'
    BY <1>1 DEF RequestInv, Fits, Answered, Whole, Partial
  <1>7. Faithful(r)'
    BY <1>1 DEF RequestInv, Faithful, Lists200, Answered, Shown
  <1>. QED BY <1>2, <1>4, <1>5, <1>6, <1>7 DEF RequestInv

----------------------------------------------------------------------------
(* A request begins                                                         *)

LEMMA NamesAre ==
  ASSUME NEW app \in Apps
  PROVE  Names(app) \in Todos /\ ToSet(Names(app)) \subseteq Collections
  <1>1. ToSet(Names(app)) \subseteq Collections
    BY DEF Collections
  <1>2. Names(app) \in Seq(ToSet(Names(app)))
    BY AppleAssumption
  <1>. QED BY <1>1, <1>2, SeqMonotonic DEF Todos

LEMMA HeadTail ==
  ASSUME NEW todo \in Todos, todo # <<>>
  PROVE  /\ Head(todo) \in Collections /\ Tail(todo) \in Todos
         /\ \E n \in DOMAIN todo : todo[n] = Head(todo)
         /\ \A n \in DOMAIN todo :
               todo[n] = Head(todo) \/ \E m \in DOMAIN Tail(todo) : Tail(todo)[m] = todo[n]
  <1>1. todo \in Seq(Collections) /\ Len(todo) \in Nat /\ Len(todo) # 0
    BY DEF Todos
  <1>2. /\ Head(todo) = todo[1] /\ todo[1] \in Collections /\ Tail(todo) \in Seq(Collections)
        /\ Len(Tail(todo)) = Len(todo) - 1 /\ DOMAIN todo = 1..Len(todo)
        /\ DOMAIN Tail(todo) = 1..Len(Tail(todo))
        /\ \A m \in 1..(Len(todo) - 1) : Tail(todo)[m] = todo[m + 1]
    BY <1>1
  <1>3. ASSUME NEW n \in DOMAIN todo, n # 1
        PROVE  \E m \in DOMAIN Tail(todo) : Tail(todo)[m] = todo[n]
    <2>1. n - 1 \in 1..(Len(todo) - 1) /\ n - 1 \in DOMAIN Tail(todo) /\ (n - 1) + 1 = n
      BY <1>1, <1>2, <1>3
    <2>2. Tail(todo)[n - 1] = todo[(n - 1) + 1]
      BY <1>2, <2>1
    <2>. QED BY <2>1, <2>2
  <1>4. 1 \in DOMAIN todo
    BY <1>1, <1>2
  <1>. QED BY <1>2, <1>3, <1>4 DEF Todos

(* What a step of r has to show.                                            *)
Acted(r) ==
    /\ Types' /\ Stays /\ RequestInv(r)'
    /\ \A o \in Calls : o # r => Same(o)

LEMMA Begins ==
  ASSUME Types, NEW r \in Calls, NEW p \in Scripts,
         NEW there \in SUBSET (Collections \X Ids), Begin(r, p, there)
  PROVE  /\ Types' /\ Stays /\ \A o \in Calls : o # r => Same(o)
         /\ store' = store /\ call'[r] = p /\ refused'[r] = {} /\ steady'[r] = there
         /\ \A c \in Collections : effect'[r][c] = {}
  <1>. DEFINE none == [c \in Collections |-> {}]
  <1>1. /\ call' \in [Calls -> Scripts] /\ call'[r] = p
        /\ \A o \in Calls : o # r => call'[o] = call[o]
    BY OneGoes DEF Begin
  <1>2. none \in [Collections -> SUBSET Events] /\ \A c \in Collections : none[c] = {}
    OBVIOUS
  <1>3. /\ effect' = [effect EXCEPT ![r] = none] /\ refused' = [refused EXCEPT ![r] = {}]
        /\ steady' = [steady EXCEPT ![r] = there] /\ store' = store
    BY DEF Begin
  <1>. HIDE DEF none
  <1>4. /\ effect' \in [Calls -> [Collections -> SUBSET Events]] /\ effect'[r] = none
        /\ refused' \in [Calls -> SUBSET Collections] /\ refused'[r] = {}
        /\ steady' \in [Calls -> SUBSET (Collections \X Ids)] /\ steady'[r] = there
        /\ \A o \in Calls : o # r => /\ effect'[o] = effect[o] /\ refused'[o] = refused[o]
                                     /\ steady'[o] = steady[o]
    BY <1>2, <1>3 DEF Types
  <1>5. Types'
    BY <1>1, <1>3, <1>4 DEF Types
  <1>6. Stays
    BY <1>3 DEF Stays
  <1>. QED BY <1>1, <1>2, <1>3, <1>4, <1>5, <1>6 DEF Same

LEMMA UnquotableActs ==
  ASSUME Types, NEW r \in Calls, NEW app \in Apps, Unquotable(r, app)
  PROVE  Acted(r)
  <1>. DEFINE q == NoCall
              status == 400
              p == [q EXCEPT !.pc = "done", !.app = app, !.status = status]
  <1>2. Begin(r, p, {}) /\ status = 400
    BY DEF Unquotable
  <1>. HIDE DEF status
  <1>0. /\ q \in Scripts /\ Shaped(q) /\ q.sets = {} /\ q.op = None
        /\ p = [q EXCEPT !.pc = "done", !.app = app, !.status = status]
    BY Blank, Shape
  <1>. HIDE DEF p, q
  <1>20. p = Begun(q, "done", app, q.op, q.id, q.new, q.sets, q.fill, q.todo, status)
    BY <1>0 DEF Begun, Shaped
  <1>1. p \in Scripts /\ p.pc = "done" /\ p.status = 400 /\ p.sets = {} /\ p.op = None
    BY <1>0, <1>2, <1>20 DEF Begun, Scripts
  <1>3. /\ Types' /\ Stays /\ \A o \in Calls : o # r => Same(o)
        /\ call'[r] = p /\ \A c \in Collections : effect'[r][c] = {}
    BY <1>1, <1>2, Begins
  <1>4. Stage(r)' /\ Progress(r)' /\ Search(r)' /\ Listing(r)' /\ CutOff(r)'
    BY <1>1, <1>3 DEF Stage, Progress, Search, Listing, CutOff
  <1>5. Fits(r)' /\ Faithful(r)'
    BY <1>1, <1>3 DEF Fits, Faithful, Lists200, Answered
  <1>. QED BY <1>3, <1>4, <1>5 DEF Acted, RequestInv

LEMMA ListActs ==
  ASSUME Types, NEW r \in Calls, NEW app \in Apps, NEW done \in BOOLEAN,
         NEW only \in ToSet(Names(app)) \cup {None}, app = "contacts" => only = None,
         List(r, app, only, done)
  PROVE  Acted(r)
  <1>. DEFINE q == NoCall
              todo == IF only = None THEN Names(app) ELSE <<only>>
              p == [q EXCEPT !.pc = "list", !.app = app, !.op = "list",
                             !.todo = todo, !.fill = done]
              there == Asked(app, todo, done)
  <1>1. todo \in Todos
    BY NamesAre DEF Todos
  <1>2. Begin(r, p, there)
    BY DEF List
  <1>3. app = "contacts" => todo = <<AddressBook>>
    BY DEF Names
  <1>4. /\ there \subseteq Collections \X Ids
        /\ \A e \in there :
              /\ \E n \in DOMAIN todo : todo[n] = e[1]
              /\ \E n \in DOMAIN store[e[1]] :
                    store[e[1]][n].id = e[2] /\ Wanted(app, done, store[e[1]][n])
    <2>. SUFFICES ASSUME NEW e \in there
                  PROVE  /\ e \in Collections \X Ids
                         /\ \E n \in DOMAIN todo : todo[n] = e[1]
                         /\ \E n \in DOMAIN store[e[1]] :
                               store[e[1]][n].id = e[2] /\ Wanted(app, done, store[e[1]][n])
      OBVIOUS
    <2>. HIDE DEF q, todo, p
    <2>1. PICK c \in ToSet(todo) : \E x \in ToSet(store[c]) :
             e = <<c, x.id>> /\ Wanted(app, done, x)
      BY DEF Asked
    <2>2. c \in Collections /\ \E n \in DOMAIN todo : todo[n] = c
      BY <1>1 DEF Todos, ToSet
    <2>0. PICK x \in ToSet(store[c]) : e = <<c, x.id>> /\ Wanted(app, done, x)
      BY <2>1
    <2>3. PICK n \in DOMAIN store[c] : store[c][n] = x
      BY DEF ToSet
    <2>4. x \in Items
      BY <2>2, <2>3 DEF Types
    <2>5. e[1] = c /\ e[2] = x.id /\ x.id \in Ids
      BY <2>0, <2>4 DEF Items
    <2>. QED BY <2>0, <2>2, <2>3, <2>5
  <1>0. /\ q \in Scripts /\ Shaped(q) /\ q.sets = {} /\ q.full = FALSE
        /\ p = [q EXCEPT !.pc = "list", !.app = app, !.op = "list",
                         !.todo = todo, !.fill = done]
    BY Blank, Shape
  <1>. HIDE DEF q, todo, there, p
  <1>20. p = Begun(q, "list", app, "list", q.id, q.new, q.sets, done, todo, q.status)
    BY <1>0 DEF Begun, Shaped
  <1>5. /\ p \in Scripts
        /\ p.pc = "list" /\ p.app = app /\ p.op = "list" /\ p.sets = {}
        /\ p.todo = todo /\ p.fill = done /\ p.full = FALSE
    BY <1>0, <1>1, <1>20 DEF Begun, Scripts
  <1>6. /\ Types' /\ Stays /\ \A o \in Calls : o # r => Same(o)
        /\ store' = store /\ call'[r] = p /\ steady'[r] = there
        /\ \A c \in Collections : effect'[r][c] = {}
    BY <1>2, <1>4, <1>5, Begins
  <1>7. Stage(r)' /\ Progress(r)' /\ Search(r)' /\ CutOff(r)'
    BY <1>3, <1>5, <1>6 DEF Stage, Progress, Search, CutOff
  <1>8. Listing(r)'
    BY <1>4, <1>5, <1>6 DEF Listing, Ahead
  <1>9. Fits(r)' /\ Faithful(r)'
    BY <1>5, <1>6 DEF Fits, Faithful, Lists200, Answered
  <1>. QED BY <1>6, <1>7, <1>8, <1>9 DEF Acted, RequestInv

LEMMA CreateActs ==
  ASSUME Types, NEW r \in Calls, NEW app \in Apps, NEW c \in Collections, NEW i \in Ids,
         NEW has \in SUBSET Texts, Create(r, app, c, i, has)
  PROVE  Acted(r)
  <1>. DEFINE q == NoCall
              todo == <<c>>
              item == Item(i, has)
              p == [q EXCEPT !.pc = "make", !.app = app, !.op = "create",
                             !.id = i, !.todo = todo, !.new = item]
  <1>1. todo \in Todos /\ todo # <<>> /\ item \in Items
    BY DEF Todos, Item, Items
  <1>2. Begin(r, p, {})
    BY DEF Create
  <1>0. /\ q \in Scripts /\ Shaped(q) /\ q.sets = {}
        /\ p = [q EXCEPT !.pc = "make", !.app = app, !.op = "create",
                         !.id = i, !.todo = todo, !.new = item]
    BY Blank, Shape
  <1>. HIDE DEF q, todo, item, p
  <1>20. p = Begun(q, "make", app, "create", i, item, q.sets, q.fill, todo, q.status)
    BY <1>0 DEF Begun, Shaped
  <1>3. /\ p \in Scripts
        /\ p.pc = "make" /\ p.op = "create" /\ p.sets = {} /\ p.todo = todo /\ p.new = item
    BY <1>0, <1>1, <1>20 DEF Begun, Scripts
  <1>4. /\ Types' /\ Stays /\ \A o \in Calls : o # r => Same(o)
        /\ call'[r] = p /\ \A d \in Collections : effect'[r][d] = {}
    BY <1>2, <1>3, Begins
  <1>5. Stage(r)' /\ Progress(r)' /\ Search(r)' /\ Listing(r)' /\ CutOff(r)'
    BY <1>1, <1>3, <1>4 DEF Stage, Progress, Search, Listing, CutOff
  <1>6. Fits(r)' /\ Faithful(r)'
    BY <1>3, <1>4 DEF Fits, Faithful, Lists200, Answered
  <1>. QED BY <1>4, <1>5, <1>6 DEF Acted, RequestInv

(* A change or a deletion starts to look; one that asks for nothing is      *)
(* answered.                                                                *)
LEMMA LookBegins ==
  ASSUME Types, NEW r \in Calls, NEW app \in Apps, NEW i \in Ids, NEW p \in Scripts,
         Begin(r, p, Present(app, i)), p.op # "list",
         \/ p.pc = "done" /\ p.sets = {} /\ p.status = 200
         \/ p.pc = "look" /\ p.sets # {} /\ p.app = app /\ p.id = i /\ p.todo = Names(app)
  PROVE  Acted(r)
  <1>1. /\ Present(app, i) \subseteq Collections \X Ids
        /\ \A e \in Present(app, i) :
              /\ e[2] = i /\ \E n \in DOMAIN Names(app) : Names(app)[n] = e[1]
              /\ There(e[1], e[2])
    <2>. SUFFICES ASSUME NEW e \in Present(app, i)
                  PROVE  /\ e \in Collections \X Ids /\ e[2] = i
                         /\ \E n \in DOMAIN Names(app) : Names(app)[n] = e[1]
                         /\ There(e[1], e[2])
      OBVIOUS
    <2>1. PICK c \in ToSet(Names(app)) : i \in IdsIn(c) /\ e = <<c, i>>
      BY DEF Present
    <2>2. c \in Collections
      BY NamesAre
    <2>3. \E n \in DOMAIN store[c] : store[c][n].id = i
      BY <2>1 DEF IdsIn, ToSet
    <2>. QED BY <2>1, <2>2, <2>3 DEF There, ToSet
  <1>2. /\ Types' /\ Stays /\ \A o \in Calls : o # r => Same(o)
        /\ store' = store /\ call'[r] = p /\ steady'[r] = Present(app, i)
        /\ \A d \in Collections : effect'[r][d] = {}
    BY <1>1, Begins
  <1>3. Stage(r)' /\ Progress(r)' /\ Listing(r)' /\ CutOff(r)'
    BY <1>2 DEF Stage, Progress, Short, Listing, CutOff
  <1>4. Search(r)'
    BY <1>1, <1>2 DEF Search, Ahead, There
  <1>5. Fits(r)' /\ Faithful(r)'
    BY <1>2 DEF Fits, Faithful, Lists200, Answered
  <1>. QED BY <1>2, <1>3, <1>4, <1>5 DEF Acted, RequestInv

LEMMA SettersAre ==
  ASSUME NEW app \in Apps
  PROVE  ToSet(Setters(app)) \subseteq Events
  BY DEF Apps, Setters, CalendarSetters, ReminderSetters, ToSet, Events

LEMMA UpdateActs ==
  ASSUME Types, NEW r \in Calls, NEW app \in Apps, NEW i \in Ids, NEW fill \in BOOLEAN,
         NEW named, Update(r, app, i, named, fill)
  PROVE  Acted(r)
  <1>. DEFINE sets == named \cap ToSet(Setters(app))
              pc == IF sets = {} THEN "done" ELSE "look"
              status == IF sets = {} THEN 200 ELSE None
              todo == Names(app)
              q == NoCall
              p == [q EXCEPT !.pc = pc, !.status = status,
                             !.app = app, !.op = "update", !.id = i, !.sets = sets,
                             !.fill = fill, !.todo = todo]
  <1>1. Begin(r, p, Present(app, i))
    BY DEF Update
  <1>2. /\ sets \in SUBSET Events /\ pc \in {"done", "look"} /\ status \in {None, 200}
        /\ todo \in Todos /\ pc = (IF sets = {} THEN "done" ELSE "look")
        /\ status = (IF sets = {} THEN 200 ELSE None) /\ todo = Names(app)
    BY SettersAre, NamesAre
  <1>0. /\ q \in Scripts /\ Shaped(q)
        /\ p = [q EXCEPT !.pc = pc, !.status = status,
                         !.app = app, !.op = "update", !.id = i, !.sets = sets,
                         !.fill = fill, !.todo = todo]
    BY Blank, Shape
  <1>. HIDE DEF q, sets, pc, status, todo, p
  <1>20. p = Begun(q, pc, app, "update", i, q.new, sets, fill, todo, status)
    BY <1>0 DEF Begun, Shaped
  <1>3. p \in Scripts
    <2>1. q.new \in Items \cup {None}
      BY <1>0 DEF Scripts
    <2>. QED BY <1>0, <1>2, <1>20, <2>1, BegunIs
  <1>4. /\ p.pc = pc /\ p.status = status /\ p.app = app /\ p.id = i
        /\ p.op = "update" /\ p.sets = sets /\ p.todo = todo
    BY <1>20 DEF Begun
  <1>. QED BY <1>1, <1>2, <1>3, <1>4, LookBegins

LEMMA DeleteActs ==
  ASSUME Types, NEW r \in Calls, NEW app \in Apps, NEW i \in Ids, Delete(r, app, i)
  PROVE  Acted(r)
  <1>. DEFINE sets == {"delete"}
              todo == Names(app)
              q == NoCall
              p == [q EXCEPT !.pc = "look", !.app = app, !.op = "delete", !.id = i,
                             !.sets = sets, !.todo = todo]
  <1>1. Begin(r, p, Present(app, i))
    BY DEF Delete
  <1>2. sets \in SUBSET Events /\ sets # {} /\ todo \in Todos /\ todo = Names(app)
    BY NamesAre DEF Events
  <1>0. /\ q \in Scripts /\ Shaped(q)
        /\ p = [q EXCEPT !.pc = "look", !.app = app, !.op = "delete", !.id = i,
                         !.sets = sets, !.todo = todo]
    BY Blank, Shape
  <1>. HIDE DEF q, sets, todo, p
  <1>20. p = Begun(q, "look", app, "delete", i, q.new, sets, q.fill, todo, q.status)
    BY <1>0 DEF Begun, Shaped
  <1>3. /\ p \in Scripts /\ p.pc = "look" /\ p.app = app /\ p.id = i /\ p.op = "delete"
        /\ p.sets = sets /\ p.todo = todo
    BY <1>0, <1>2, <1>20 DEF Begun, Scripts
  <1>. QED BY <1>1, <1>2, <1>3, LookBegins

----------------------------------------------------------------------------
(* The script of a list                                                     *)

LEMMA Known ==
  ASSUME Types, NEW r \in Calls
  PROVE  /\ call[r] \in Scripts /\ Shaped(call[r])
         /\ call[r].todo \in Todos /\ call[r].refs \in SUBSET Refs /\ call[r].out \in Outs
         /\ call[r].shown \in SUBSET Reads /\ call[r].full \in BOOLEAN
         /\ call[r].status \in {None, 200, 201, 400, 404, 502}
         /\ call[r].sets \in SUBSET Events
  <1>1. call[r] \in Scripts
    BY DEF Types
  <1>2. call[r].sets \in SUBSET Events
    BY <1>1 DEF Scripts
  <1>. QED BY <1>1, <1>2, Shape

LEMMA HereIs ==
  ASSUME Types, NEW r \in Calls, call[r].todo # <<>>
  PROVE  /\ Here(r) \in Collections
         /\ \A c : Ahead(r, c) =>
               c = Here(r) \/ \E m \in DOMAIN Tail(call[r].todo) : Tail(call[r].todo)[m] = c
         /\ Tail(call[r].todo) \in Todos
  BY Known, HeadTail DEF Here, Ahead

LEMMA CollectActs ==
  ASSUME Types, NEW r \in Calls, RequestInv(r), Collect(r)
  PROVE  Acted(r)
  <1>. DEFINE q == call[r]
              c == Here(r)
              places == {k \in DOMAIN store[c] : Wanted(q.app, q.fill, store[c][k])}
              asked == {k \in places : q.app = "contacts" =>
                           Cardinality({j \in places : j < k}) < Limit}
              refs == {<<k, c, store[c][k].id>> : k \in asked}
              full == asked # places
              todo == Tail(q.todo)
              p == [q EXCEPT !.refs = refs, !.full = full, !.todo = todo]
  <1>1. /\ Goes(r, p) /\ UNCHANGED <<store, effect, refused, steady>>
        /\ q.pc = "list" /\ q.refs = {} /\ q.todo # <<>>
    BY DEF Collect
  <1>2. /\ q \in Scripts /\ Shaped(q) /\ q.out \in Outs /\ q.shown \in SUBSET Reads
        /\ q.status \in {None, 200, 201, 400, 404, 502} /\ q.todo \in Todos
    BY Known
  <1>3. c \in Collections /\ todo \in Todos
    BY <1>1, HereIs
  <1>4. store[c] \in Seq(Items)
    BY <1>3 DEF Types
  <1>5. refs \in SUBSET Refs
    <2>1. \A k \in DOMAIN store[c] : k \in Nat /\ store[c][k].id \in Ids
      <3>. DEFINE s == store[c]
                  I == Items
      <3>1. s \in Seq(I)
        BY <1>4
      <3>. HIDE DEF s, I
      <3>2. \A k \in DOMAIN s : k \in Nat /\ s[k] \in I
        BY <3>1
      <3>. QED BY <3>2 DEF s, I, Items
    <2>2. asked \subseteq DOMAIN store[c]
      OBVIOUS
    <2>. HIDE DEF asked
    <2>. QED BY <1>3, <2>1, <2>2 DEF Refs
  <1>6. full \in BOOLEAN /\ (~full => asked = places) /\ (full => q.app = "contacts")
    OBVIOUS
  <1>7. \A k \in asked : <<k, c, store[c][k].id>> \in refs
    OBVIOUS
  <1>8. \A k \in DOMAIN store[c] : Wanted(q.app, q.fill, store[c][k]) => k \in places
    OBVIOUS
  <1>9. p = [q EXCEPT !.refs = refs, !.full = full, !.todo = todo]
    OBVIOUS
  <1>10. /\ q.full => q.todo = <<>>
         /\ q.app = "contacts" => q.todo \in {<<>>, <<AddressBook>>}
         /\ q.sets = {} /\ q.op = "list" /\ q.app \in Apps
         /\ \A d \in Collections : effect[r][d] = {}
    BY <1>1 DEF RequestInv, CutOff, Stage, Progress
  <1>11. q.app = "contacts" => todo = <<>>
    <2>1. q.app = "contacts" => q.todo = <<AddressBook>>
      BY <1>1, <1>10
    <2>2. Tail(<<AddressBook>>) = <<>>
      OBVIOUS
    <2>. QED BY <2>1, <2>2
  <1>12. q.todo = call[r].todo /\ todo = Tail(call[r].todo) /\ c = Here(r) /\ q = call[r]
    OBVIOUS
  <1>. HIDE DEF q, c, places, asked, refs, full, todo, p
  <1>13. p = Moved(q, q.pc, todo, refs, q.out, q.shown, full, q.status)
    BY <1>2, <1>9 DEF Shaped, Moved
  <1>14. /\ p \in Scripts /\ Kin(p, q)
         /\ p.pc = "list" /\ p.refs = refs /\ p.full = full /\ p.todo = todo /\ p.out = q.out
    BY <1>1, <1>2, <1>3, <1>5, <1>6, <1>13, MovedIs
  <1>15. /\ Types' /\ Stays /\ \A o \in Calls : o # r => Same(o)
         /\ call'[r] = p
    BY <1>1, <1>14, Plain
  <1>16. Stage(r)' /\ Progress(r)' /\ Search(r)' /\ CutOff(r)'
    BY <1>1, <1>6, <1>10, <1>11, <1>14, <1>15 DEF Stage, Progress, Search, CutOff, Kin
  <1>17. Listing(r)'
    <2>. SUFFICES ASSUME ~full, NEW e \in steady[r]
                  PROVE  \/ /\ \E n \in DOMAIN todo : todo[n] = e[1]
                            /\ \E n \in DOMAIN store[e[1]] :
                                  /\ store[e[1]][n].id = e[2]
                                  /\ Wanted(q.app, q.fill, store[e[1]][n])
                         \/ \E ref \in refs : ref[2] = e[1] /\ ref[3] = e[2]
                         \/ \E n \in DOMAIN q.out :
                               q.out[n].c = e[1] /\ q.out[n].item.id = e[2]
      BY <1>1, <1>14, <1>15 DEF Listing, Ahead, Kin
    <2>1. CASE \E n \in DOMAIN q.out : q.out[n].c = e[1] /\ q.out[n].item.id = e[2]
      BY <2>1
    <2>2. CASE /\ Ahead(r, e[1])
               /\ \E n \in DOMAIN store[e[1]] :
                     /\ store[e[1]][n].id = e[2]
                     /\ Wanted(q.app, q.fill, store[e[1]][n])
      <3>1. CASE e[1] # c
        <4>1. \E n \in DOMAIN todo : todo[n] = e[1]
          BY <1>1, <1>12, <2>2, <3>1, HereIs
        <4>. QED BY <2>2, <4>1
      <3>2. CASE e[1] = c
        <4>1. PICK n \in DOMAIN store[c] :
                 store[c][n].id = e[2] /\ Wanted(q.app, q.fill, store[c][n])
          BY <2>2, <3>2
        <4>2. <<n, c, store[c][n].id>> \in refs
          BY <1>6, <1>7, <1>8, <4>1
        <4>3. <<n, c, store[c][n].id>>[2] = e[1] /\ <<n, c, store[c][n].id>>[3] = e[2]
          BY <3>2, <4>1
        <4>. QED BY <4>2, <4>3
      <3>. QED BY <3>1, <3>2
    <2>3. ~q.full /\ q.refs = {}
      BY <1>1, <1>10
    <2>4. Listing(r) /\ q.pc = "list"
      BY <1>1 DEF RequestInv
    <2>. QED BY <1>12, <2>1, <2>2, <2>3, <2>4 DEF Listing
  <1>18. Fits(r)' /\ Faithful(r)'
    BY <1>14, <1>15 DEF Fits, Faithful, Lists200, Answered
  <1>. QED BY <1>15, <1>16, <1>17, <1>18 DEF Acted, RequestInv

(* A script that fails has changed at most the copy it was at.              *)
LEMMA OneAtMost ==
  ASSUME Types, NEW r \in Calls, Stage(r), Progress(r), Running(r)
  PROVE  Cardinality(Whole(r) \cup (Partial(r) \ refused[r])) <= 1
  <1>. DEFINE changed == Whole(r) \cup (Partial(r) \ refused[r])
  <1>1. changed \subseteq {Here(r)}
    <2>. SUFFICES ASSUME NEW c \in Collections, c # Here(r)
                  PROVE  c \notin changed
      BY DEF Whole, Partial
    <2>1. CASE call[r].pc \in {"list", "make", "made"}
      BY <2>1 DEF Stage, Progress, Whole, Partial
    <2>2. CASE call[r].pc \in {"look", "set"}
      <3>1. Short(r, c) /\ call[r].sets # {}
        BY <2>2 DEF Stage, Progress
      <3>. QED BY <3>1 DEF Short, Whole, Partial
    <2>. QED BY <2>1, <2>2 DEF Running
  <1>2. IsFiniteSet({Here(r)}) /\ Cardinality({Here(r)}) = 1
    BY FS_Singleton
  <1>. HIDE DEF changed
  <1>3. IsFiniteSet(changed) /\ Cardinality(changed) <= 1
    BY <1>1, <1>2, FS_Subset
  <1>. QED BY <1>3 DEF changed

LEMMA FailActs ==
  ASSUME Types, NEW r \in Calls, RequestInv(r), Running(r), Fail(r),
         UNCHANGED <<store, effect, refused, steady>>
  PROVE  Acted(r)
  <1>. DEFINE q == call[r]
              status == 502
              refs == {}
              out == <<>>
              p == [q EXCEPT !.pc = "done", !.status = status, !.refs = refs, !.out = out]
  <1>1. Goes(r, p) /\ status = 502 /\ refs \in SUBSET Refs /\ out \in Outs
    BY Empty DEF Fail
  <1>. HIDE DEF status, refs, out
  <1>2. /\ p = [q EXCEPT !.pc = "done", !.status = status, !.refs = refs, !.out = out]
        /\ q = call[r]
    OBVIOUS
  <1>3. /\ q \in Scripts /\ Shaped(q) /\ q.todo \in Todos /\ q.shown \in SUBSET Reads
        /\ q.full \in BOOLEAN
    BY Known
  <1>. HIDE DEF p, q
  <1>4. p = Moved(q, "done", q.todo, refs, out, q.shown, q.full, status)
    BY <1>2, <1>3 DEF Shaped, Moved
  <1>5. p \in Scripts /\ Kin(p, q) /\ p.pc = "done" /\ p.status = 502
    BY <1>1, <1>3, <1>4, MovedIs
  <1>6. Types' /\ Stays /\ call'[r] = p /\ \A o \in Calls : o # r => Same(o)
    BY <1>1, <1>5, Plain
  <1>7. Stage(r)' /\ Progress(r)' /\ Search(r)' /\ Listing(r)' /\ CutOff(r)'
    BY <1>5, <1>6 DEF Stage, Progress, Search, Listing, CutOff
  <1>8. Cardinality(Whole(r)' \cup (Partial(r)' \ refused'[r])) <= 1
    <2>1. Cardinality(Whole(r) \cup (Partial(r) \ refused[r])) <= 1
      BY OneAtMost DEF RequestInv
    <2>2. Whole(r)' = Whole(r) /\ Partial(r)' = Partial(r)
      BY <1>2, <1>5, <1>6 DEF Whole, Partial, Kin
    <2>. QED BY <2>1, <2>2
  <1>9. Fits(r)' /\ Faithful(r)'
    BY <1>5, <1>6, <1>8 DEF Fits, Faithful, Lists200, Answered
  <1>. QED BY <1>6, <1>7, <1>9 DEF Acted, RequestInv

LEMMA ReadItemActs ==
  ASSUME Types, NEW r \in Calls, RequestInv(r), ReadItem(r)
  PROVE  Acted(r)
  <1>1. PICK ref \in call[r].refs :
           IF ref[3] \in IdsIn(ref[2])
           THEN Goes(r, [call[r] EXCEPT !.refs = @ \ {ref},
                           !.out = Append(@, [c |-> ref[2],
                                              item |-> store[ref[2]][At(ref[2], ref[3])]])])
           ELSE Fail(r)
    BY DEF ReadItem
  <1>2. call[r].pc = "list" /\ UNCHANGED <<store, effect, refused, steady>>
    BY DEF ReadItem
  <1>3. CASE ref[3] \notin IdsIn(ref[2])
    BY <1>1, <1>2, <1>3, FailActs DEF Running
  <1>4. CASE ref[3] \in IdsIn(ref[2])
    <2>. DEFINE q == call[r]
                c == ref[2]
                i == ref[3]
                read == [c |-> c, item |-> store[c][At(c, i)]]
                refs == q.refs \ {ref}
                out == Append(q.out, read)
                p == [q EXCEPT !.refs = refs, !.out = out]
    <2>1. /\ q \in Scripts /\ Shaped(q) /\ q.todo \in Todos /\ q.refs \in SUBSET Refs
          /\ q.shown \in SUBSET Reads /\ q.full \in BOOLEAN /\ q.out \in Outs
          /\ q.status \in {None, 200, 201, 400, 404, 502}
      BY Known
    <2>2. c \in Collections /\ i \in IdsIn(c)
      BY <1>4, <2>1 DEF Refs
    <2>3. read \in Reads /\ read.c = c /\ read.item.id = i
      BY <2>2, AtIs DEF Reads
    <2>4. /\ Goes(r, p) /\ p = [q EXCEPT !.refs = refs, !.out = out]
          /\ q = call[r] /\ refs \in SUBSET Refs
          /\ \A x \in q.refs : x \in refs \/ x = ref
      BY <1>1, <1>4, <2>1
    <2>0. p = [q EXCEPT !.refs = refs, !.out = out] /\ Shaped(q)
      BY <2>1, <2>4
    <2>. HIDE DEF q, read
    <2>5. /\ out \in Outs /\ \A n \in DOMAIN q.out : n \in DOMAIN out /\ out[n] = q.out[n]
          /\ \E n \in DOMAIN out : out[n] = read
      <3>. DEFINE s == q.out
                  R == Reads
      <3>1. s \in Seq(R) /\ read \in R
        BY <2>1, <2>3 DEF Outs
      <3>. HIDE DEF s, R
      <3>2. /\ Append(s, read) \in Seq(R) /\ Len(s) \in Nat
            /\ DOMAIN s = 1..Len(s) /\ DOMAIN Append(s, read) = 1..(Len(s) + 1)
            /\ \A n \in 1..Len(s) : Append(s, read)[n] = s[n]
            /\ Append(s, read)[Len(s) + 1] = read
        BY <3>1
      <3>3. /\ Len(s) + 1 \in DOMAIN Append(s, read)
            /\ \A n \in DOMAIN s : n \in DOMAIN Append(s, read)
        BY <3>2
      <3>. QED BY <3>2, <3>3 DEF s, R, Outs
    <2>. HIDE DEF c, i, refs, out, p
    <2>6. p = Moved(q, q.pc, q.todo, refs, out, q.shown, q.full, q.status)
      BY <2>0 DEF Shaped, Moved
    <2>7. /\ p \in Scripts /\ Kin(p, q)
          /\ p.pc = "list" /\ p.refs = refs /\ p.full = q.full /\ p.todo = q.todo /\ p.out = out
      BY <1>2, <2>1, <2>4, <2>5, <2>6, MovedIs
    <2>8. Types' /\ Stays /\ call'[r] = p /\ \A o \in Calls : o # r => Same(o)
      BY <1>2, <2>4, <2>7, Plain
    <2>9. Stage(r)' /\ Progress(r)' /\ Search(r)' /\ CutOff(r)'
      BY <1>2, <2>4, <2>7, <2>8 DEF RequestInv, Stage, Progress, Search, CutOff, Kin
    <2>10. Listing(r)'
      <3>. SUFFICES ASSUME ~q.full, NEW e \in steady[r]
                    PROVE  \/ /\ Ahead(r, e[1])
                              /\ \E n \in DOMAIN store[e[1]] :
                                    /\ store[e[1]][n].id = e[2]
                                    /\ Wanted(q.app, q.fill, store[e[1]][n])
                           \/ \E x \in refs : x[2] = e[1] /\ x[3] = e[2]
                           \/ \E n \in DOMAIN out : out[n].c = e[1] /\ out[n].item.id = e[2]
        BY <1>2, <2>4, <2>7, <2>8 DEF Listing, Ahead, Kin
      <3>1. Listing(r) /\ q.pc = "list"
        BY <1>2, <2>4 DEF RequestInv
      <3>2. CASE \E x \in q.refs : x[2] = e[1] /\ x[3] = e[2]
        <4>1. CASE ref[2] = e[1] /\ ref[3] = e[2]
          BY <2>3, <2>5, <4>1 DEF c, i
        <4>. QED BY <2>4, <3>2, <4>1
      <3>3. CASE \E n \in DOMAIN q.out : q.out[n].c = e[1] /\ q.out[n].item.id = e[2]
        BY <2>5, <3>3
      <3>. QED BY <2>4, <3>1, <3>2, <3>3 DEF Listing
    <2>11. Fits(r)' /\ Faithful(r)'
      BY <2>7, <2>8 DEF Fits, Faithful, Lists200, Answered
    <2>. QED BY <2>8, <2>9, <2>10, <2>11 DEF Acted, RequestInv
  <1>. QED BY <1>3, <1>4

LEMMA ListAnswersActs ==
  ASSUME Types, NEW r \in Calls, RequestInv(r), ListAnswers(r)
  PROVE  Acted(r)
  <1>. DEFINE q == call[r]
              shown == ParseTsv(q.app, q.out)
              status == 200
              p == [q EXCEPT !.pc = "done", !.status = status, !.shown = shown]
  <1>1. /\ Goes(r, p) /\ UNCHANGED <<store, effect, refused, steady>>
        /\ q.pc = "list" /\ q.refs = {} /\ q.todo = <<>>
    BY DEF ListAnswers
  <1>2. /\ q \in Scripts /\ Shaped(q) /\ q.todo \in Todos /\ q.refs \in SUBSET Refs
        /\ q.full \in BOOLEAN /\ q.out \in Outs
    BY Known
  <1>3. \A n \in DOMAIN q.out : n \in Nat /\ Len(q.out) \in Nat /\ n <= Len(q.out)
                                /\ q.out[n] \in Reads /\ q.out # <<>>
    <2>. DEFINE s == q.out
                R == Reads
    <2>1. s \in Seq(R)
      BY <1>2 DEF Outs
    <2>. HIDE DEF s, R
    <2>2. \A n \in DOMAIN s : n \in Nat /\ Len(s) \in Nat /\ n <= Len(s) /\ s[n] \in R /\ s # <<>>
      BY <2>1
    <2>. QED BY <2>2 DEF s, R
  <1>4. shown \in SUBSET Reads
    BY <1>3 DEF ParseTsv
  <1>5. q = call[r] /\ status = 200
    OBVIOUS
  <1>0. p = [q EXCEPT !.pc = "done", !.status = status, !.shown = shown] /\ Shaped(q)
    BY <1>2
  <1>6. \A n \in DOMAIN q.out : q.out[n] \in shown \/ FieldsShort(q.app, q.out, n) # 0
    BY DEF ParseTsv
  <1>. HIDE DEF q, shown, status, p
  <1>7. p = Moved(q, "done", q.todo, q.refs, q.out, shown, q.full, status)
    BY <1>0 DEF Shaped, Moved
  <1>8. /\ p \in Scripts /\ Kin(p, q)
        /\ p.pc = "done" /\ p.status = 200 /\ p.shown = shown /\ p.out = q.out
        /\ p.full = q.full
    BY <1>2, <1>4, <1>5, <1>7, MovedIs
  <1>9. Types' /\ Stays /\ call'[r] = p /\ \A o \in Calls : o # r => Same(o)
    BY <1>1, <1>8, Plain
  <1>10. Stage(r)' /\ Progress(r)' /\ Search(r)' /\ Listing(r)' /\ CutOff(r)'
    BY <1>1, <1>5, <1>8, <1>9
       DEF RequestInv, Stage, Progress, Search, Listing, CutOff, Kin
  <1>11. Fits(r)'
    <2>1. p.sets = {}
      BY <1>1, <1>5, <1>8 DEF RequestInv, Stage, Kin
    <2>. QED BY <1>8, <1>9, <2>1 DEF Fits, Answered
  <1>12. Faithful(r)'
    <2>. SUFFICES ASSUME ~q.full, NEW e \in steady[r],
                         e \notin {<<x.c, x.item.id>> : x \in shown}
                  PROVE  /\ q.out # <<>>
                         /\ e = <<Last(q.out).c, Last(q.out).item.id>>
                         /\ Tail2(q.app)[2] \notin Last(q.out).item.has
      BY <1>1, <1>8, <1>9 DEF Faithful, Shown, Kin
    <2>1. ~Ahead(r, e[1])
      BY <1>1, <1>5 DEF Ahead
    <2>2. PICK n \in DOMAIN q.out : q.out[n].c = e[1] /\ q.out[n].item.id = e[2]
      BY <1>1, <1>5, <2>1 DEF RequestInv, Listing
    <2>3. e = <<e[1], e[2]>>
      BY DEF Types
    <2>4. q.out[n] \notin shown
      BY <2>2, <2>3
    <2>5. FieldsShort(q.app, q.out, n) # 0
      BY <1>6, <2>4
    <2>6. ~(n < Len(q.out)) /\ Tail2(q.app)[2] \notin q.out[n].item.has
      BY <2>5 DEF FieldsShort
    <2>7. n = Len(q.out)
      BY <1>3, <2>6
    <2>. QED BY <1>3, <2>2, <2>3, <2>6, <2>7 DEF Last
  <1>. QED BY <1>9, <1>10, <1>11, <1>12 DEF Acted, RequestInv

----------------------------------------------------------------------------
(* The script of a creation                                                 *)

LEMMA MakeActs ==
  ASSUME Types, NEW r \in Calls, RequestInv(r), Make(r)
  PROVE  Acted(r)
  <1>. DEFINE q == call[r]
              c == Here(r)
              p == [q EXCEPT !.pc = "made"]
  <1>1. /\ Goes(r, p) /\ q.pc = "make" /\ Puts(c, Append(store[c], q.new))
        /\ effect' = [effect EXCEPT ![r][c] = {"make"}]
        /\ UNCHANGED <<refused, steady>>
    BY DEF Make
  <1>2. /\ q \in Scripts /\ Shaped(q) /\ q.todo \in Todos /\ q.refs \in SUBSET Refs
        /\ q.out \in Outs /\ q.shown \in SUBSET Reads /\ q.full \in BOOLEAN
        /\ q.status \in {None, 200, 201, 400, 404, 502}
    BY Known
  <1>3. /\ q.todo # <<>> /\ q.new \in Items /\ q.sets = {} /\ q.op # "list"
        /\ \A d \in Collections : effect[r][d] = {}
    BY <1>1 DEF RequestInv, Stage, Progress
  <1>4. c \in Collections
    BY <1>3, HereIs
  <1>5. p = [q EXCEPT !.pc = "made"] /\ Shaped(q) /\ q = call[r] /\ c = Head(q.todo)
    BY <1>2 DEF Here
  <1>. HIDE DEF q, c, p
  <1>6. p = Moved(q, "made", q.todo, q.refs, q.out, q.shown, q.full, q.status)
    BY <1>5 DEF Shaped, Moved
  <1>7. p \in Scripts /\ Kin(p, q) /\ p.pc = "made" /\ p.todo = q.todo
    BY <1>2, <1>6, MovedIs
  <1>8. /\ call' \in [Calls -> Scripts] /\ call'[r] = p
        /\ \A o \in Calls : o # r => call'[o] = call[o]
    BY <1>1, <1>7, OneGoes
  <1>9. store' \in [Collections -> Seq(Items)] /\ Stays
    BY <1>1, <1>3, <1>4, StoreGrows
  <1>10. /\ effect' \in [Calls -> [Collections -> SUBSET Events]]
         /\ \A o \in Calls : o # r => effect'[o] = effect[o]
         /\ \A d \in Collections : effect'[r][d] = IF d = c THEN {"make"} ELSE {}
    <2>. DEFINE mine == [effect[r] EXCEPT ![c] = {"make"}]
    <2>1. effect' = [effect EXCEPT ![r] = mine]
      BY <1>1
    <2>2. effect \in [Calls -> [Collections -> SUBSET Events]]
      BY DEF Types
    <2>3. /\ mine \in [Collections -> SUBSET Events]
          /\ \A d \in Collections : mine[d] = IF d = c THEN {"make"} ELSE {}
      BY <1>3, <1>4, <2>2 DEF Events
    <2>. HIDE DEF mine
    <2>. QED BY <2>1, <2>2, <2>3
  <1>11. Types'
    BY <1>1, <1>8, <1>9, <1>10 DEF Types
  <1>12. \A o \in Calls : o # r => Same(o)
    BY <1>1, <1>8, <1>10 DEF Same
  <1>13. Stage(r)' /\ Search(r)' /\ Listing(r)' /\ CutOff(r)'
    BY <1>3, <1>7, <1>8 DEF Stage, Search, Listing, CutOff, Kin
  <1>15. Progress(r)'
    BY <1>5, <1>7, <1>8, <1>10 DEF Progress, Here
  <1>14. Fits(r)' /\ Faithful(r)'
    BY <1>7, <1>8 DEF Fits, Faithful, Lists200, Answered
  <1>. QED BY <1>9, <1>11, <1>12, <1>13, <1>14, <1>15 DEF Acted, RequestInv

(* A script that has its answer.                                            *)
Ends(r, status) == Goes(r, [call[r] EXCEPT !.pc = "done", !.status = status])

LEMMA Ended ==
  ASSUME Types, NEW r \in Calls, NEW status \in {200, 201, 404},
         Ends(r, status),
         UNCHANGED <<store, effect, refused, steady>>
  PROVE  /\ Types' /\ Stays /\ \A o \in Calls : o # r => Same(o)
         /\ call'[r].pc = "done" /\ call'[r].status = status /\ call'[r].op = call[r].op
         /\ call'[r].app = call[r].app
         /\ call'[r].sets = call[r].sets /\ call'[r].id = call[r].id
  <1>. DEFINE q == call[r]
              p == [q EXCEPT !.pc = "done", !.status = status]
  <1>1. Goes(r, p)
    BY DEF Ends
  <1>2. /\ q \in Scripts /\ Shaped(q) /\ q.todo \in Todos /\ q.refs \in SUBSET Refs
        /\ q.out \in Outs /\ q.shown \in SUBSET Reads /\ q.full \in BOOLEAN
    BY Known
  <1>3. p = [q EXCEPT !.pc = "done", !.status = status] /\ Shaped(q)
    BY <1>2
  <1>4. q = call[r]
    OBVIOUS
  <1>. HIDE DEF p, q
  <1>5. p = Moved(q, "done", q.todo, q.refs, q.out, q.shown, q.full, status)
    BY <1>3 DEF Shaped, Moved
  <1>6. p \in Scripts /\ Kin(p, q) /\ p.pc = "done" /\ p.status = status
    BY <1>2, <1>5, MovedIs
  <1>7. Types' /\ Stays /\ call'[r] = p /\ \A o \in Calls : o # r => Same(o)
    BY <1>1, <1>6, Plain
  <1>. QED BY <1>4, <1>6, <1>7 DEF Kin

LEMMA EndActs ==
  ASSUME Types, NEW r \in Calls, NEW status \in {200, 201, 404}, NEW q, q = call[r],
         Ends(r, status),
         UNCHANGED <<store, effect, refused, steady>>, q.op # "list",
         status = 200 /\ q.sets # {} =>
            Cardinality(Whole(r)) = 1 /\ Partial(r) \subseteq refused[r],
         status = 201 => \E c \in Collections : effect[r][c] = {"make"},
         status = 404 =>
            /\ Whole(r) = {} /\ Partial(r) \subseteq refused[r]
            /\ \A e \in steady[r] : e[1] \in refused[r]
  PROVE  Acted(r)
  <1>1. /\ Types' /\ Stays /\ \A o \in Calls : o # r => Same(o)
        /\ call'[r].pc = "done" /\ call'[r].status = status /\ call'[r].op = q.op
        /\ call'[r].app = q.app /\ call'[r].sets = q.sets
    BY Ended
  <1>2. status # 400 /\ status # 502
    OBVIOUS
  <1>3. Stage(r)' /\ Progress(r)' /\ Search(r)' /\ Listing(r)' /\ CutOff(r)'
    BY <1>1 DEF Stage, Progress, Search, Listing, CutOff
  <1>4. Whole(r)' = Whole(r) /\ Partial(r)' = Partial(r)
    BY <1>1 DEF Whole, Partial
  <1>5. Fits(r)'
    BY <1>1, <1>2, <1>4 DEF Fits, Answered
  <1>6. Faithful(r)'
    BY <1>1 DEF Faithful, Lists200, Answered
  <1>. QED BY <1>1, <1>3, <1>5, <1>6 DEF Acted, RequestInv

LEMMA MakeAnswersActs ==
  ASSUME Types, NEW r \in Calls, RequestInv(r), MakeAnswers(r)
  PROVE  Acted(r)
  <1>1. /\ call[r].pc = "made" /\ UNCHANGED <<store, effect, refused, steady>>
        /\ Ends(r, 201)
    BY DEF MakeAnswers, Ends
  <1>2. /\ call[r].op # "list"
        /\ \E c \in Collections : effect[r][c] = {"make"}
    BY <1>1, HereIs DEF RequestInv, Stage, Progress
  <1>. QED BY <1>1, <1>2, EndActs

----------------------------------------------------------------------------
(* The script of a change                                                   *)

(* It goes on with this collection, or with the next one.                   *)
LEMMA Proceeds ==
  ASSUME Types, NEW r \in Calls, NEW pc \in {"look", "set"}, NEW todo \in Todos, NEW p,
         p = Moved(call[r], pc, todo, call[r].refs, call[r].out, call[r].shown,
                   call[r].full, call[r].status),
         Goes(r, p)
  PROVE  /\ call' \in [Calls -> Scripts] /\ \A o \in Calls : o # r => call'[o] = call[o]
         /\ call'[r].pc = pc /\ call'[r].todo = todo /\ Kin(call'[r], call[r])
  <1>. DEFINE q == call[r]
  <1>1. /\ q \in Scripts /\ q.refs \in SUBSET Refs
        /\ q.out \in Outs /\ q.shown \in SUBSET Reads /\ q.full \in BOOLEAN
        /\ q.status \in {None, 200, 201, 400, 404, 502}
        /\ p = Moved(q, pc, todo, q.refs, q.out, q.shown, q.full, q.status)
    BY Known
  <1>2. q = call[r]
    OBVIOUS
  <1>. HIDE DEF q
  <1>3. p \in Scripts /\ p.pc = pc /\ p.todo = todo /\ Kin(p, q)
    BY <1>1, MovedIs
  <1>4. /\ call' \in [Calls -> Scripts] /\ call'[r] = p
        /\ \A o \in Calls : o # r => call'[o] = call[o]
    BY <1>3, OneGoes
  <1>. QED BY <1>2, <1>3, <1>4

LEMMA LookActs ==
  ASSUME Types, NEW r \in Calls, RequestInv(r), Look(r)
  PROVE  Acted(r)
  <1>1. /\ call[r].pc = "look" /\ UNCHANGED <<store, effect, refused, steady>>
        /\ call[r].todo = <<>> => Ends(r, 404)
    BY DEF Look, Ends
  <1>2. /\ call[r].op # "list" /\ call[r].sets # {}
        /\ call[r].app \in Apps /\ call[r].id \in Ids
        /\ \A c \in Collections : Short(r, c) /\ effect[r][c] \subseteq call[r].sets
        /\ \A e \in steady[r] :
              /\ e[2] = call[r].id /\ There(e[1], e[2]) /\ e[1] \in Collections
              /\ e[1] \in refused[r] \/ Ahead(r, e[1])
    BY <1>1 DEF RequestInv, Stage, Progress, Search, Types
  <1>3. Stays
    BY <1>1 DEF Stays
  <1>5. CASE call[r].todo = <<>>
    <2>1. \A e \in steady[r] : e[1] \in refused[r]
      BY <1>2, <1>5 DEF Ahead
    <2>2. Whole(r) = {} /\ Partial(r) \subseteq refused[r]
      BY <1>2 DEF Whole, Partial, Short
    <2>. QED BY <1>1, <1>2, <1>5, <2>1, <2>2, EndActs
  <1>6. ASSUME call[r].todo # <<>>, NEW pc \in {"look", "set"}, NEW todo \in Todos, NEW p,
               p = Moved(call[r], pc, todo, call[r].refs, call[r].out, call[r].shown,
                         call[r].full, call[r].status),
               Goes(r, p), pc = "set" => todo # <<>>,
               \A e \in steady[r] :
                  e[1] \in refused[r] \/ \E n \in DOMAIN todo : todo[n] = e[1]
        PROVE  Acted(r)
    <2>1. /\ call' \in [Calls -> Scripts] /\ \A o \in Calls : o # r => call'[o] = call[o]
          /\ call'[r].pc = pc /\ call'[r].todo = todo /\ Kin(call'[r], call[r])
      BY <1>6, Proceeds
    <2>2. Types'
      BY <1>1, <2>1 DEF Types
    <2>3. \A o \in Calls : o # r => Same(o)
      BY <1>1, <2>1 DEF Same
    <2>4. Stage(r)' /\ Listing(r)' /\ CutOff(r)'
      BY <1>2, <1>6, <2>1 DEF Stage, Listing, CutOff, Kin
    <2>5. Progress(r)'
      BY <1>1, <1>2, <2>1 DEF Progress, Short, Kin
    <2>6. Search(r)'
      BY <1>1, <1>2, <1>6, <2>1 DEF Search, There, Ahead, Kin
    <2>7. Fits(r)' /\ Faithful(r)'
      BY <2>1 DEF Fits, Faithful, Lists200, Answered
    <2>. QED BY <1>3, <2>2, <2>3, <2>4, <2>5, <2>6, <2>7 DEF Acted, RequestInv
  <1>7. CASE call[r].todo # <<>> /\ call[r].id \in IdsIn(Here(r))
    <2>. DEFINE q == call[r]
                p == [q EXCEPT !.pc = "set"]
    <2>1. Goes(r, p)
      BY <1>7 DEF Look
    <2>2. p = [q EXCEPT !.pc = "set"] /\ Shaped(q)
      BY Known
    <2>3. q = call[r] /\ q.todo \in Todos
      BY Known
    <2>. HIDE DEF p, q
    <2>4. p = Moved(q, "set", q.todo, q.refs, q.out, q.shown, q.full, q.status)
      BY <2>2 DEF Shaped, Moved
    <2>5. \A e \in steady[r] :
             e[1] \in refused[r] \/ \E n \in DOMAIN q.todo : q.todo[n] = e[1]
      BY <1>2, <2>3 DEF Ahead
    <2>. QED BY <1>6, <1>7, <2>1, <2>3, <2>4, <2>5
  <1>8. CASE call[r].todo # <<>> /\ call[r].id \notin IdsIn(Here(r))
    <2>. DEFINE q == call[r]
                todo == Tail(q.todo)
                p == [q EXCEPT !.todo = todo]
    <2>1. Goes(r, p)
      BY <1>8 DEF Look
    <2>2. p = [q EXCEPT !.todo = todo] /\ Shaped(q)
      BY Known
    <2>3. q = call[r] /\ todo = Tail(call[r].todo) /\ todo \in Todos
      BY <1>8, HereIs
    <2>. HIDE DEF p, q, todo
    <2>4. p = Moved(q, q.pc, todo, q.refs, q.out, q.shown, q.full, q.status)
      BY <2>2 DEF Shaped, Moved
    <2>5. \A e \in steady[r] :
             e[1] \in refused[r] \/ \E n \in DOMAIN todo : todo[n] = e[1]
      <3>. SUFFICES ASSUME NEW e \in steady[r], e[1] \notin refused[r]
                    PROVE  \E n \in DOMAIN todo : todo[n] = e[1]
        OBVIOUS
      <3>1. Ahead(r, e[1]) /\ There(e[1], call[r].id)
        BY <1>2
      <3>2. e[1] # Here(r)
        BY <1>8, <3>1 DEF There, IdsIn, ToSet
      <3>. QED BY <1>8, <2>3, <3>1, <3>2, HereIs
    <2>6. q.pc = "look"
      BY <1>1, <2>3
    <2>. QED BY <1>6, <1>8, <2>1, <2>3, <2>4, <2>5, <2>6
  <1>. QED BY <1>5, <1>7, <1>8

LEMMA SetAnswersActs ==
  ASSUME Types, NEW r \in Calls, RequestInv(r), SetAnswers(r)
  PROVE  Acted(r)
  <1>1. /\ call[r].pc = "set" /\ UNCHANGED <<store, effect, refused, steady>>
        /\ Ends(r, 200) /\ Due(r) = {}
    BY DEF SetAnswers, Ends
  <1>2. /\ call[r].op # "list" /\ call[r].sets # {} /\ call[r].todo # <<>>
        /\ \A c \in Collections :
              (c = Here(r) \/ Short(r, c)) /\ effect[r][c] \subseteq call[r].sets
    BY <1>1 DEF RequestInv, Stage, Progress
  <1>3. Here(r) \in Collections
    BY <1>2, HereIs
  <1>4. effect[r][Here(r)] = call[r].sets
    BY <1>1, <1>2, <1>3 DEF Due
  <1>5. Whole(r) = {Here(r)} /\ Partial(r) \subseteq refused[r]
    BY <1>2, <1>3, <1>4 DEF Whole, Partial, Short
  <1>6. Cardinality(Whole(r)) = 1
    BY <1>5, FS_Singleton
  <1>. QED BY <1>1, <1>2, <1>5, <1>6, EndActs

LEMMA SwallowActs ==
  ASSUME Types, NEW r \in Calls, RequestInv(r), Swallow(r)
  PROVE  Acted(r)
  <1>. DEFINE q == call[r]
              todo == Tail(q.todo)
              p == [q EXCEPT !.pc = "look", !.todo = todo]
  <1>1. /\ q.pc = "set" /\ Due(r) # {} /\ Goes(r, p)
        /\ refused' = [refused EXCEPT ![r] = @ \cup {Here(r)}]
        /\ UNCHANGED <<store, effect, steady>>
    BY DEF Swallow
  <1>2. /\ q.op # "list" /\ q.sets # {} /\ q.todo # <<>> /\ q.app \in Apps /\ q.id \in Ids
        /\ \A c \in Collections :
              (c = Here(r) \/ Short(r, c)) /\ effect[r][c] \subseteq q.sets
        /\ \A e \in steady[r] :
              /\ e[2] = q.id /\ There(e[1], e[2])
              /\ e[1] \in refused[r] \/ Ahead(r, e[1])
    BY <1>1 DEF RequestInv, Stage, Progress, Search
  <1>3. /\ Here(r) \in Collections /\ todo \in Todos
        /\ \A c : Ahead(r, c) => c = Here(r) \/ \E n \in DOMAIN todo : todo[n] = c
    BY <1>2, HereIs
  <1>4. p = [q EXCEPT !.pc = "look", !.todo = todo] /\ Shaped(q)
    BY Known
  <1>5. q = call[r] /\ Due(r) = q.sets \ effect[r][Here(r)]
    BY DEF Due
  <1>. HIDE DEF q, todo, p
  <1>6. p = Moved(q, "look", todo, q.refs, q.out, q.shown, q.full, q.status)
    BY <1>4 DEF Shaped, Moved
  <1>7. /\ call' \in [Calls -> Scripts] /\ \A o \in Calls : o # r => call'[o] = call[o]
        /\ call'[r].pc = "look" /\ call'[r].todo = todo /\ Kin(call'[r], q)
    BY <1>1, <1>3, <1>5, <1>6, Proceeds
  <1>8. /\ refused' \in [Calls -> SUBSET Collections]
        /\ refused'[r] = refused[r] \cup {Here(r)}
        /\ \A o \in Calls : o # r => refused'[o] = refused[o]
    BY <1>1, <1>3 DEF Types
  <1>9. Types'
    BY <1>1, <1>7, <1>8 DEF Types
  <1>10. Stays /\ \A o \in Calls : o # r => Same(o)
    BY <1>1, <1>7, <1>8 DEF Same, Stays
  <1>11. Stage(r)' /\ Listing(r)' /\ CutOff(r)'
    BY <1>2, <1>7 DEF Stage, Listing, CutOff, Kin
  <1>12. Progress(r)'
    <2>1. \A c \in Collections : Short(r, c)'
      <3>. SUFFICES ASSUME NEW c \in Collections
                    PROVE  Short(r, c)'
        OBVIOUS
      <3>1. CASE c = Here(r)
        BY <1>1, <1>5, <1>7, <1>8, <3>1 DEF Short, Kin
      <3>2. CASE c # Here(r)
        BY <1>1, <1>2, <1>5, <1>7, <1>8, <3>2 DEF Short, Kin
      <3>. QED BY <3>1, <3>2
    <2>. QED BY <1>1, <1>2, <1>7, <2>1 DEF Progress, Kin
  <1>13. Search(r)'
    BY <1>1, <1>2, <1>3, <1>7, <1>8 DEF Search, There, Ahead, Kin
  <1>14. Fits(r)' /\ Faithful(r)'
    BY <1>7 DEF Fits, Faithful, Lists200, Answered
  <1>. QED BY <1>9, <1>10, <1>11, <1>12, <1>13, <1>14 DEF Acted, RequestInv

LEMMA KeptAre ==
  ASSUME NEW app \in Apps
  PROVE  Kept(app) \subseteq Texts
  BY DEF Apps, Kept, Tail2, ToSet, Texts

LEMMA ApplyEventActs ==
  ASSUME Types, NEW r \in Calls, RequestInv(r), NEW f \in call[r].sets, ApplyEvent(r, f)
  PROVE  Acted(r)
  <1>. DEFINE c == Here(r)
              i == call[r].id
              k == At(c, i)
              has == Has(call[r].app, store[c][k].has, f, call[r].fill)
              x == [store[c][k] EXCEPT !.has = has]
              s == IF f = "delete" THEN RemoveAt(store[c], k) ELSE [store[c] EXCEPT ![k] = x]
  <1>1. /\ call[r].pc = "set" /\ i \in IdsIn(c) /\ Puts(c, s) /\ Touched(c, i)
        /\ effect' = [effect EXCEPT ![r][c] = @ \cup {f}]
        /\ UNCHANGED <<call, refused>>
    BY DEF ApplyEvent
  <1>2. /\ call[r].op # "list" /\ call[r].sets # {} /\ call[r].todo # <<>>
        /\ call[r].app \in Apps
        /\ \A d \in Collections :
              (d = c \/ Short(r, d)) /\ effect[r][d] \subseteq call[r].sets
        /\ \A e \in steady[r] :
              /\ e[2] = i /\ There(e[1], e[2])
              /\ e[1] \in refused[r] \/ Ahead(r, e[1])
    BY <1>1 DEF RequestInv, Stage, Progress, Search
  <1>3. c \in Collections /\ call[r].sets \in SUBSET Events
    BY <1>2, HereIs, Known
  <1>4. k \in 1..Len(store[c]) /\ store[c][k] \in Items
    BY <1>1, <1>3, AtIs
  <1>5. has \in SUBSET Texts
    BY <1>2, <1>4, KeptAre DEF Has, Items
  <1>6. x \in Items
    BY <1>4, <1>5 DEF Items
  <1>7. s = RemoveAt(store[c], At(c, i)) \/ \E y \in Items : s = [store[c] EXCEPT ![At(c, i)] = y]
    BY <1>6
  <1>8. c = Here(r) /\ i = call[r].id
    OBVIOUS
  <1>. HIDE DEF c, i, k, has, x, s
  <1>9. /\ store' \in [Collections -> Seq(Items)] /\ Stays
        /\ steady' \in [Calls -> SUBSET (Collections \X Ids)]
        /\ \A o \in Calls : steady'[o] = steady[o] \ {<<c, i>>}
    BY <1>1, <1>3, <1>7, StoreLoses
  <1>10. /\ effect' \in [Calls -> [Collections -> SUBSET Events]]
         /\ \A o \in Calls : o # r => effect'[o] = effect[o]
         /\ \A d \in Collections : effect'[r][d] =
               IF d = c THEN effect[r][d] \cup {f} ELSE effect[r][d]
    <2>. DEFINE mine == [effect[r] EXCEPT ![c] = @ \cup {f}]
    <2>1. effect' = [effect EXCEPT ![r] = mine]
      BY <1>1
    <2>2. effect \in [Calls -> [Collections -> SUBSET Events]]
      BY DEF Types
    <2>3. /\ mine \in [Collections -> SUBSET Events]
          /\ \A d \in Collections : mine[d] =
                IF d = c THEN effect[r][d] \cup {f} ELSE effect[r][d]
      BY <1>3, <2>2
    <2>. HIDE DEF mine
    <2>. QED BY <2>1, <2>2, <2>3
  <1>11. Types'
    BY <1>1, <1>9, <1>10 DEF Types
  <1>12. \A o \in Calls : o # r => Same(o)
    BY <1>1, <1>9, <1>10 DEF Same
  <1>13. Stage(r)' /\ Listing(r)' /\ CutOff(r)'
    BY <1>1 DEF RequestInv, Stage, Listing, CutOff
  <1>14. Progress(r)'
    <2>1. Here(r)' = c
      BY <1>1, <1>8 DEF Here
    <2>2. \A d \in Collections : d # c => Short(r, d)'
      BY <1>1, <1>2, <1>10 DEF Short
    <2>. QED BY <1>1, <1>2, <1>10, <2>1, <2>2 DEF Progress
  <1>15. Search(r)'
    <2>. SUFFICES ASSUME NEW e \in steady'[r]
                  PROVE  /\ e[2] = i /\ There(e[1], e[2])'
                         /\ e[1] \in refused[r] \/ Ahead(r, e[1])
      BY <1>1, <1>8 DEF Search, Ahead
    <2>1. e \in steady[r] /\ e[1] \in Collections /\ e = <<e[1], e[2]>>
      BY <1>9 DEF Types
    <2>2. PICK n \in DOMAIN store[e[1]] : store[e[1]][n].id = e[2]
      BY <1>2, <2>1 DEF There
    <2>3. \E m \in DOMAIN store'[e[1]] : store'[e[1]][m] = store[e[1]][n]
      <3>1. <<e[1], store[e[1]][n].id>> = e
        BY <2>1, <2>2
      <3>2. <<e[1], store[e[1]][n].id>> \in steady'[r]
        BY <3>1
      <3>. QED BY <1>9, <2>1, <2>2, <3>2 DEF Stays
    <2>. QED BY <1>2, <2>1, <2>2, <2>3 DEF There
  <1>16. Fits(r)' /\ Faithful(r)'
    BY <1>1 DEF Fits, Faithful, Lists200, Answered
  <1>. QED BY <1>9, <1>11, <1>12, <1>13, <1>14, <1>15, <1>16 DEF Acted, RequestInv

----------------------------------------------------------------------------
(* Every step                                                               *)

LEMMA ScriptActs ==
  ASSUME Types, NEW r \in Calls, RequestInv(r), ScriptStep(r) \/ Timeout(r)
  PROVE  Acted(r)
  <1>1. CASE Collect(r)
    BY <1>1, CollectActs
  <1>2. CASE ReadItem(r)
    BY <1>2, ReadItemActs
  <1>3. CASE ListAnswers(r)
    BY <1>3, ListAnswersActs
  <1>4. CASE Make(r)
    BY <1>4, MakeActs
  <1>5. CASE MakeAnswers(r)
    BY <1>5, MakeAnswersActs
  <1>6. CASE Look(r)
    BY <1>6, LookActs
  <1>7. CASE SetAnswers(r)
    BY <1>7, SetAnswersActs
  <1>8. CASE \E f \in call[r].sets : ApplyEvent(r, f)
    BY <1>8, ApplyEventActs
  <1>9. CASE EventRefused(r) \/ ItemIsGone(r)
    BY <1>9, SwallowActs DEF EventRefused, ItemIsGone
  <1>10. CASE ScriptFails(r)
    BY <1>10, FailActs DEF ScriptFails, Running
  <1>11. CASE Timeout(r)
    BY <1>11, FailActs DEF Timeout
  <1>. QED BY <1>1, <1>2, <1>3, <1>4, <1>5, <1>6, <1>7, <1>8, <1>9, <1>10, <1>11
           DEF ScriptStep

LEMMA RequestActs ==
  ASSUME Types, NEW r \in Calls, Request(r)
  PROVE  Acted(r)
  <1>0. /\ "calendar" \in Apps /\ "reminders" \in Apps /\ "contacts" \in Apps
        /\ Names("calendar") = Calendars /\ Names("reminders") = Lists
    BY DEF Apps, Names
  <1>1. ToSet(Calendars) \subseteq Collections /\ ToSet(Lists) \subseteq Collections
    BY <1>0, NamesAre
  <1>2. \A app \in Apps : Filled(app) \subseteq SUBSET Texts
    BY KeptAre DEF Filled
  <1>3. CASE \E app \in Apps : Unquotable(r, app)
    BY <1>3, UnquotableActs
  <1>4. CASE \E c \in ToSet(Calendars) \cup {None} : ListEvents(r, c)
    BY <1>0, <1>4, ListActs DEF ListEvents
  <1>5. CASE \E c \in ToSet(Lists) \cup {None}, done \in BOOLEAN : ListReminders(r, c, done)
    BY <1>0, <1>5, ListActs DEF ListReminders
  <1>6. CASE SearchContacts(r)
    BY <1>0, <1>6, ListActs DEF SearchContacts
  <1>7. ASSUME NEW i \in Ids,
               \/ \E c \in ToSet(Calendars), has \in Filled("calendar") :
                     CreateEvent(r, c, i, has)
               \/ \E c \in ToSet(Lists), has \in Filled("reminders") :
                     CreateReminder(r, c, i, has)
        PROVE  Acted(r)
    BY <1>0, <1>1, <1>2, <1>7, CreateActs DEF CreateEvent, CreateReminder
  <1>8. ASSUME NEW i \in Ids,
               \E named \in Patches, fill \in BOOLEAN :
                  UpdateEvent(r, i, named, fill) \/ UpdateReminder(r, i, named, fill)
        PROVE  Acted(r)
    BY <1>0, <1>8, UpdateActs DEF UpdateEvent, UpdateReminder
  <1>9. ASSUME NEW i \in Ids, DeleteEvent(r, i) \/ DeleteReminder(r, i)
        PROVE  Acted(r)
    BY <1>0, <1>9, DeleteActs DEF DeleteEvent, DeleteReminder
  <1>. QED BY <1>3, <1>4, <1>5, <1>6, <1>7, <1>8, <1>9 DEF Request

(* The owner moves nothing but the items.                                   *)
LEMMA OwnerActs ==
  ASSUME Types, Owner
  PROVE  Types' /\ Stays /\ \A o \in Calls : Same(o)
  <1>1. CASE \E app \in Apps, i \in Ids : \E c \in ToSet(Names(app)), has \in Filled(app) :
                UserAdds(app, c, i, has)
    <2>0. PICK app \in Apps, i \in Ids : \E c \in ToSet(Names(app)), has \in Filled(app) :
             UserAdds(app, c, i, has)
      BY <1>1
    <2>1. PICK c \in ToSet(Names(app)), has \in Filled(app) : UserAdds(app, c, i, has)
      BY <2>0
    <2>2. c \in Collections /\ Item(i, has) \in Items
      BY NamesAre, KeptAre DEF Filled, Item, Items
    <2>3. /\ Puts(c, Append(store[c], Item(i, has)))
          /\ UNCHANGED <<call, effect, refused, steady>>
      BY <2>1 DEF UserAdds
    <2>4. store' \in [Collections -> Seq(Items)] /\ Stays
      BY <2>2, <2>3, StoreGrows
    <2>. QED BY <2>3, <2>4 DEF Types, Same
  <1>2. CASE \E c, d \in ToSet(Calendars), i \in Ids : UserCopies(c, d, i)
    <2>1. PICK c \in ToSet(Calendars), d \in ToSet(Calendars), i \in Ids : UserCopies(c, d, i)
      BY <1>2
    <2>2. ToSet(Calendars) \subseteq Collections
      <3>1. "calendar" \in Apps /\ Names("calendar") = Calendars
        BY DEF Apps, Names
      <3>. QED BY <3>1, NamesAre
    <2>3. /\ Puts(d, Append(store[d], store[c][At(c, i)])) /\ i \in IdsIn(c)
          /\ UNCHANGED <<call, effect, refused, steady>>
      BY <2>1 DEF UserCopies
    <2>4. c \in Collections /\ d \in Collections /\ store[c][At(c, i)] \in Items
      BY <2>2, <2>3, AtIs
    <2>5. store' \in [Collections -> Seq(Items)] /\ Stays
      BY <2>3, <2>4, StoreGrows
    <2>. QED BY <2>3, <2>5 DEF Types, Same
  <1>3. CASE \E c \in Collections, i \in Ids : UserRemoves(c, i)
    <2>1. PICK c \in Collections, i \in Ids : UserRemoves(c, i)
      BY <1>3
    <2>2. /\ Puts(c, RemoveAt(store[c], At(c, i))) /\ i \in IdsIn(c) /\ Touched(c, i)
          /\ UNCHANGED <<call, effect, refused>>
      BY <2>1 DEF UserRemoves
    <2>3. /\ store' \in [Collections -> Seq(Items)] /\ Stays
          /\ steady' \in [Calls -> SUBSET (Collections \X Ids)]
          /\ \A r \in Calls : steady'[r] = steady[r] \ {<<c, i>>}
      BY <2>2, StoreLoses
    <2>. QED BY <2>2, <2>3 DEF Types, Same
  <1>. QED BY <1>1, <1>2, <1>3 DEF Owner

LEMMA AppleStart ==
  ASSUME Init
  PROVE  AppleInv
  <1>1. Types
    <2>1. \A c \in Collections : <<>> \in Seq(Items)
      BY EmptySeq
    <2>. QED BY <2>1, Blank DEF Init, Types
  <1>2. ASSUME NEW r \in Calls
        PROVE  RequestInv(r)
    <2>1. call[r].pc = "idle"
      BY Blank DEF Init
    <2>. QED BY <2>1 DEF RequestInv, Stage, Progress, Search, Listing, CutOff, Fits, Faithful,
                         Lists200, Answered
  <1>. QED BY <1>1, <1>2 DEF AppleInv

LEMMA AppleStep ==
  ASSUME AppleInv, [Next]_vars
  PROVE  AppleInv'
  <1>0. Types /\ \A r \in Calls : RequestInv(r)
    BY DEF AppleInv
  <1>1. ASSUME NEW r \in Calls, Acted(r)
        PROVE  AppleInv'
    BY <1>0, <1>1, Others DEF Acted, AppleInv
  <1>2. ASSUME Types', Stays, \A o \in Calls : Same(o)
        PROVE  AppleInv'
    BY <1>0, <1>2, Others DEF AppleInv
  <1>3. CASE Owner
    BY <1>0, <1>2, <1>3, OwnerActs
  <1>4. ASSUME NEW r \in Calls, Request(r) \/ ScriptStep(r) \/ Timeout(r)
        PROVE  AppleInv'
    BY <1>0, <1>1, <1>4, ScriptActs, RequestActs
  <1>5. CASE UNCHANGED vars
    <2>1. Types' /\ Stays /\ \A o \in Calls : Same(o)
      BY <1>0, <1>5 DEF vars, Types, Stays, Same
    <2>. QED BY <1>2, <2>1
  <1>. QED BY <1>3, <1>4, <1>5 DEF Next

(* The stage of every request, what its script has done in each collection, *)
(* and where the items that were there all along are with respect to it.    *)
THEOREM AppleInductive == Spec => []AppleInv
  <1>1. Init => AppleInv
    BY AppleStart
  <1>2. AppleInv /\ [Next]_vars => AppleInv'
    BY AppleStep
  <1>. QED BY <1>1, <1>2, PTL DEF Spec

(* Whatever the owner, the applications and other requests do between two   *)
(* Apple events of a script, the status of a write says what it has done:   *)
(* 200 is one whole copy, 404 is none, 502 is at most one.                  *)
THEOREM AnswersFit == Spec => []AnswerFitsEffect
  <1>1. AppleInv => AnswerFitsEffect
    BY DEF AppleInv, RequestInv, Fits, AnswerFitsEffect
  <1>. QED BY <1>1, AppleInductive, PTL

(* A list that was not cut off by its limit shows every item that was there *)
(* and asked for all along, but for a last one that the parser drops.       *)
THEOREM ListsAreFaithful == Spec => []ListIsFaithful
  <1>1. AppleInv => ListIsFaithful
    BY DEF AppleInv, RequestInv, Faithful, ListIsFaithful
  <1>. QED BY <1>1, AppleInductive, PTL
=============================================================================
