-------------------------- MODULE TokenStore_proofs --------------------------
(***************************************************************************)
(* What is proved of TokenStore, for any actors, tokens, tools and lookups, *)
(* any time to live, grace and patience and any number of kills: the bridge *)
(* is not wrong for longer than the bound, and a token that was shown can   *)
(* be found.                                                                *)
(***************************************************************************)
EXTENDS TokenStore, TLAPS

(* The types the invariants rest on.                                        *)
StoreTypes ==
    /\ keychain \in [Actors -> Items \cup {None}]
    /\ tool \in [Tools -> [pc : {"idle", "store", "read", "write"},
                           actor : Actors \cup {None}, token : Tokens \cup {None},
                           seen : SUBSET Actors, previous : Tokens \cup {None}]]
    /\ \A t \in Tools : tool[t].pc # "idle" => tool[t].actor \in Actors /\ tool[t].token \in Tokens
    /\ owner \in [Tokens -> Actors \cup {None}]
    /\ manifest \subseteq Actors /\ printed \subseteq Tokens

(* A token belongs to one actor and one tool, and is shown by that tool     *)
(* when it is done.                                                         *)
TokensHaveOwners ==
    /\ \A t \in Tools : tool[t].pc # "idle" => owner[tool[t].token] = tool[t].actor
    /\ \A a \in Actors : keychain[a] # None => owner[keychain[a].token] = a
    /\ \A k \in printed : owner[k] # None
    /\ \A t \in Tools : tool[t].pc # "idle" => tool[t].token \notin printed
    /\ \A t, u \in Tools :
          tool[t].pc # "idle" /\ tool[u].pc # "idle" /\ tool[t].token = tool[u].token => t = u

ListedInv == StoreTypes /\ TokensHaveOwners /\ ShownIsListed

(* The map of the bridge is what the Keychain says, but for tokens that      *)
(* changed since the lookup began whose refresh built it.                   *)
Todos == SUBSET Actors
Copies == [Actors -> Items \cup {None}]
Spans == 0..Patience
Lookups == [pc : {"idle", "list", "read", "stamp", "answer"}, todo : Todos, read : Copies,
            spent : Spans]

MapTypes ==
    /\ age \in Nat /\ lag \in 0..Cap /\ since \in [Tokens -> 0..Cap]
    /\ lookup \in [Callers -> Lookups]

MapIsRecent == \A k \in Tokens : (k \in records <=> k \in Valid) \/ since[k] <= lag

(* What a refresh has read is what the Keychain says, but for tokens that   *)
(* changed since its lookup began: an item that names the token is a copy,  *)
(* and an actor who honours it is listed if it was read or will be.         *)
Copied(l, k) ==
    \A a \in Actors :
        l.read[a] # None /\ (k \in TokensOf(keychain[a]) \/ k \in TokensOf(l.read[a])) =>
            l.read[a] = keychain[a]

Covered(l, k) ==
    \A a \in Actors : Honours(a, k) => (a \in manifest <=> (a \in l.todo \/ l.read[a] # None))

ReadsAreRecent ==
    \A c \in Callers :
        /\ lookup[c].pc = "list" => \A a \in Actors : lookup[c].read[a] = None
        /\ \A a \in lookup[c].todo : lookup[c].read[a] = None
        /\ lookup[c].pc = "read" =>
              \A k \in Tokens :
                  since[k] <= lookup[c].spent \/ (Copied(lookup[c], k) /\ Covered(lookup[c], k))

(* How old the map can be: when its stamp is young, when it is about to be  *)
(* stamped, and when it is about to be used.                                *)
MapIsYoung ==
    /\ age <= RefreshTTL => lag <= age + Patience + Patience
    /\ \A c \in Callers :
          /\ lookup[c].pc = "stamp" => lag <= Patience + lookup[c].spent
          /\ lookup[c].pc = "answer" =>
                lag <= RefreshTTL + Patience + Patience + lookup[c].spent

MapInv == MapTypes /\ MapIsRecent /\ ReadsAreRecent /\ MapIsYoung

----------------------------------------------------------------------------
(* Types and owners                                                         *)

LEMMA StoreStart == Init => ListedInv /\ MapInv
  <1>. SUFFICES ASSUME Init PROVE ListedInv /\ MapInv
    OBVIOUS
  <1>. USE TokenStoreAssumption DEF Init, Idle
  <1>1. StoreTypes /\ TokensHaveOwners /\ ShownIsListed
    BY DEF StoreTypes, TokensHaveOwners, ShownIsListed
  <1>2. MapInv
    BY DEF MapInv, MapTypes, MapIsRecent, ReadsAreRecent, MapIsYoung, Free, Lookups, Todos, Copies,
           Spans, Cap, Bound, Expired
  <1>. QED BY <1>1, <1>2 DEF ListedInv, MapInv

(* A tool is given a token nobody has had.                                  *)
NewToken(t, a, k) ==
    /\ tool[t].pc = "idle" /\ owner[k] = None
    /\ owner' = [owner EXCEPT ![k] = a]
    /\ \E given \in [pc : {"store"}, actor : {a}, token : {k}, seen : {{}},
                     previous : Tokens \cup {None}] : tool' = [tool EXCEPT ![t] = given]
    /\ UNCHANGED <<keychain, manifest, printed, dropped, bridge, since>>

LEMMA MintOrRotate ==
  ASSUME StoreTypes, NEW t \in Tools, NEW a \in Actors, NEW k \in Tokens, Mint(t, a, k) \/ Rotate(t, a, k)
  PROVE  NewToken(t, a, k)
  <1>. DEFINE Given == [pc : {"store"}, actor : {a}, token : {k}, seen : {{}},
                        previous : Tokens \cup {None}]
  <1>1. CASE Mint(t, a, k)
    <2>1. [Idle EXCEPT !.pc = "store", !.actor = a, !.token = k] \in Given
      BY DEF Idle
    <2>. QED BY <1>1, <2>1 DEF Mint, NewToken, keys, bridge
  <1>2. CASE Rotate(t, a, k)
    <2>1. keychain[a].token \in Tokens
      BY <1>2 DEF Rotate, StoreTypes, Items
    <2>2. [Idle EXCEPT !.pc = "store", !.actor = a, !.token = k, !.previous = keychain[a].token] \in Given
      BY <2>1 DEF Idle
    <2>. QED BY <1>2, <2>2 DEF Rotate, NewToken, keys, bridge
  <1>. QED BY <1>1, <1>2

(* The step in which a tool ends and shows its token.                       *)
Ends(t) ==
    /\ tool[t].pc \in {"read", "write"}
    /\ tool' = [tool EXCEPT ![t] = Idle] /\ printed' = printed \cup {tool[t].token}
    /\ UNCHANGED <<keychain, owner>>

LEMMA EndKeeps ==
  ASSUME ListedInv, NEW t \in Tools, Ends(t), manifest' \subseteq Actors,
         tool[t].actor \in manifest',
         \A a \in Actors : a \in manifest \/ a \in dropped => a \in manifest' \/ a \in dropped'
  PROVE  ListedInv'
  <1>. USE TokenStoreAssumption DEF ListedInv, Ends, Idle
  <1>0. tool[t].token \in Tokens /\ owner[tool[t].token] = tool[t].actor /\ tool[t].actor \in Actors
    BY DEF StoreTypes, TokensHaveOwners
  <1>1. \A u \in Tools : tool'[u].pc # "idle" => u # t /\ tool'[u] = tool[u]
    BY DEF StoreTypes
  <1>2. StoreTypes'
    BY <1>0 DEF StoreTypes
  <1>3. TokensHaveOwners'
    BY <1>0, <1>1 DEF StoreTypes, TokensHaveOwners
  <1>4. ShownIsListed'
    BY <1>0 DEF StoreTypes, TokensHaveOwners, ShownIsListed
  <1>. QED BY <1>2, <1>3, <1>4

LEMMA ListedStep == ListedInv /\ [Next]_vars => ListedInv'
  <1>. SUFFICES ASSUME ListedInv, [Next]_vars PROVE ListedInv'
    OBVIOUS
  <1>. USE TokenStoreAssumption DEF keys, bridge
  <1>0. StoreTypes /\ TokensHaveOwners /\ ShownIsListed
    BY DEF ListedInv
  <1>1. ASSUME NEW t \in Tools, NEW a \in Actors, NEW k \in Tokens, Mint(t, a, k) \/ Rotate(t, a, k)
        PROVE  ListedInv'
    <2>1. NewToken(t, a, k)
      BY <1>0, <1>1, MintOrRotate
    <2>2. /\ tool'[t].pc = "store" /\ tool'[t].actor = a /\ tool'[t].token = k
          /\ \A u \in Tools : u # t => tool'[u] = tool[u]
          /\ \A j \in Tokens : owner'[j] = IF j = k THEN a ELSE owner[j]
      BY <1>0, <2>1 DEF NewToken, StoreTypes
    <2>3. StoreTypes'
      BY <1>0, <2>1, <2>2 DEF NewToken, StoreTypes
    <2>4. TokensHaveOwners'
      BY <1>0, <2>1, <2>2 DEF NewToken, StoreTypes, TokensHaveOwners
    <2>5. ShownIsListed'
      BY <1>0, <2>1 DEF NewToken, ShownIsListed
    <2>. QED BY <2>3, <2>4, <2>5 DEF ListedInv
  <1>2. ASSUME NEW t \in Tools, StoreItem(t) PROVE ListedInv'
    <2>. DEFINE item == Item(t)
    <2>1. /\ tool[t].pc = "store" /\ tool[t].actor \in Actors /\ tool[t].token \in Tokens
          /\ item \in Items
          /\ owner[tool[t].token] = tool[t].actor /\ tool[t].token \notin printed
      BY <1>0, <1>2 DEF StoreItem, StoreTypes, TokensHaveOwners, Item, Items
    <2>2. /\ keychain' = [keychain EXCEPT ![tool[t].actor] = item]
          /\ tool' = [tool EXCEPT ![t].pc = "read"] /\ UNCHANGED <<manifest, owner, printed, dropped>>
      BY <1>2 DEF StoreItem
    <2>3. \A u \in Tools : /\ tool'[u].token = tool[u].token /\ tool'[u].actor = tool[u].actor
                           /\ tool'[u].pc # "idle" => tool[u].pc # "idle"
      BY <1>0, <2>1, <2>2 DEF StoreTypes
    <2>4. item.token = tool[t].token
      BY DEF Item
    <2>. HIDE DEF item
    <2>5. StoreTypes'
      BY <1>0, <2>1, <2>2 DEF StoreTypes
    <2>6. TokensHaveOwners'
      BY <1>0, <2>1, <2>2, <2>3, <2>4 DEF StoreTypes, TokensHaveOwners
    <2>7. ShownIsListed'
      BY <1>0, <2>1, <2>2, <2>4 DEF StoreTypes, ShownIsListed
    <2>. QED BY <2>5, <2>6, <2>7 DEF ListedInv
  <1>3. ASSUME NEW t \in Tools, ReadManifest(t) PROVE ListedInv'
    <2>1. CASE Listed(t)
      BY <1>0, <1>3, <2>1, EndKeeps DEF ReadManifest, Listed, Done, Ends, StoreTypes
    <2>2. CASE ~Listed(t)
      <3>1. /\ tool' = [tool EXCEPT ![t].pc = "write", ![t].seen = manifest] /\ tool[t].pc = "read"
            /\ UNCHANGED <<keychain, manifest, owner, printed, dropped>>
        BY <1>3, <2>2 DEF ReadManifest
      <3>2. \A u \in Tools : /\ tool'[u].token = tool[u].token /\ tool'[u].actor = tool[u].actor
                             /\ tool'[u].pc # "idle" => tool[u].pc # "idle"
        BY <1>0, <3>1 DEF StoreTypes
      <3>3. tool' \in [Tools -> [pc : {"idle", "store", "read", "write"}, actor : Actors \cup {None},
                                 token : Tokens \cup {None}, seen : SUBSET Actors,
                                 previous : Tokens \cup {None}]]
        <4>. DEFINE Seen == SUBSET Actors
                    Owners == Actors \cup {None}
                    Held == Tokens \cup {None}
        <4>1. /\ manifest \in Seen
              /\ tool \in [Tools -> [pc : {"idle", "store", "read", "write"}, actor : Owners,
                                     token : Held, seen : Seen, previous : Held]]
          BY <1>0 DEF StoreTypes
        <4>2. tool' = [tool EXCEPT ![t].pc = "write", ![t].seen = manifest]
          BY <3>1
        <4>. HIDE DEF Seen, Owners, Held
        <4>3. tool' \in [Tools -> [pc : {"idle", "store", "read", "write"}, actor : Owners,
                                   token : Held, seen : Seen, previous : Held]]
          BY ONLY <4>1, <4>2, t \in Tools
        <4>. QED BY <4>3 DEF Seen, Owners, Held
      <3>4. UNCHANGED <<keychain, manifest, owner, printed, dropped>>
        BY <3>1
      <3>5. StoreTypes'
        BY <1>0, <3>2, <3>3, <3>4 DEF StoreTypes
      <3>6. TokensHaveOwners'
        BY <1>0, <3>2, <3>4 DEF TokensHaveOwners
      <3>7. ShownIsListed'
        BY <1>0, <3>4 DEF ShownIsListed
      <3>. QED BY <3>5, <3>6, <3>7 DEF ListedInv
    <2>. QED BY <2>1, <2>2
  <1>4. ASSUME NEW t \in Tools, WriteManifest(t) PROVE ListedInv'
    <2>1. tool[t].actor \in Actors /\ tool[t].seen \subseteq Actors
      BY <1>0, <1>4 DEF WriteManifest, StoreTypes
    <2>. QED BY <1>0, <1>4, <2>1, EndKeeps DEF WriteManifest, Done, Ends, StoreTypes
  <1>5. ASSUME NEW t \in Tools, ToolKilled(t) PROVE ListedInv'
    <2>1. /\ tool' = [tool EXCEPT ![t] = Idle] /\ UNCHANGED <<keychain, manifest, owner, printed, dropped>>
      BY <1>5 DEF ToolKilled
    <2>2. \A u \in Tools : tool'[u].pc # "idle" => u # t /\ tool'[u] = tool[u]
      BY <1>0, <2>1 DEF StoreTypes, Idle
    <2>3. StoreTypes'
      BY <1>0, <2>1 DEF StoreTypes, Idle
    <2>4. TokensHaveOwners' /\ ShownIsListed'
      BY <1>0, <2>1, <2>2 DEF TokensHaveOwners, ShownIsListed
    <2>. QED BY <2>3, <2>4 DEF ListedInv
  <1>6. ASSUME UNCHANGED <<keychain, manifest, tool, owner, printed, dropped>> PROVE ListedInv'
    BY <1>0, <1>6 DEF ListedInv, StoreTypes, TokensHaveOwners, ShownIsListed
  <1>7. CASE Tick
    <2>1. /\ UNCHANGED <<manifest, tool, owner, printed, dropped>>
          /\ keychain' = [a \in Actors |-> Aging(keychain[a])]
      BY <1>7 DEF Tick, tools
    <2>2. \A a \in Actors :
            /\ keychain'[a] \in Items \cup {None}
            /\ keychain'[a] # None => keychain[a] # None /\ keychain'[a].token = keychain[a].token
      BY <1>0, <2>1 DEF StoreTypes, Aging, Items
    <2>3. StoreTypes'
      BY <1>0, <2>1, <2>2 DEF StoreTypes
    <2>4. TokensHaveOwners' /\ ShownIsListed'
      BY <1>0, <2>1, <2>2 DEF TokensHaveOwners, ShownIsListed
    <2>. QED BY <2>3, <2>4 DEF ListedInv
  <1>8. CASE (\E c \in Callers : Lookup(c) \/ Refresh(c) \/ Answer(c)) \/ BridgeRestart \/ UNCHANGED vars
    BY <1>6, <1>8 DEF Lookup, Refresh, ListActors, ReadItem, Install, Stamp, RefreshFails, Answer,
                      BridgeRestart, tools, vars
  <1>. QED BY <1>1, <1>2, <1>3, <1>4, <1>5, <1>7, <1>8 DEF Next

----------------------------------------------------------------------------
(* The map of the bridge                                                    *)

(* What a lookup is made of.                                                *)
LEMMA LookupFields ==
  ASSUME MapTypes, NEW c \in Callers
  PROVE  /\ lookup[c] \in Lookups
         /\ lookup[c].pc \in {"idle", "list", "read", "stamp", "answer"}
         /\ lookup[c].todo \in SUBSET Actors /\ lookup[c].read \in Copies
         /\ lookup[c].read \in [Actors -> Items \cup {None}] /\ lookup[c].spent \in Nat /\ lookup[c].spent <= Patience
  BY TokenStoreAssumption DEF MapTypes, Lookups, Todos, Copies, Spans

(* A token of which nothing changed now is as old as it was, and units      *)
(* older.                                                                   *)
LEMMA AgedSince ==
  ASSUME MapTypes, NEW units \in {0, 1}, NEW touched, Aged(units, touched)
  PROVE  /\ since' \in [Tokens -> 0..Cap]
         /\ \A k \in Tokens : \/ since'[k] = 0
                              \/ /\ (k \in Valid) <=> (k \in Valid')
                                 /\ k \notin touched
                                 /\ since'[k] <= since[k] + units
  BY TokenStoreAssumption DEF MapTypes, Aged, Min, Cap, Bound

(* The Keychain or the clock changes and the map does not.                  *)
LEMMA MapStaysRecent ==
  ASSUME MapTypes, MapIsRecent, NEW units \in {0, 1}, NEW touched, Aged(units, touched),
         UNCHANGED records, lag' = Min(Cap, lag + units)
  PROVE  MapIsRecent'
  <1>1. lag \in 0..Cap /\ since \in [Tokens -> 0..Cap] /\ Cap \in Nat
    BY TokenStoreAssumption DEF MapTypes, Cap, Bound
  <1>2. lag' \in 0..Cap /\ (lag' = lag + units \/ lag' = Cap)
    BY <1>1 DEF Min
  <1>3. /\ since' \in [Tokens -> 0..Cap]
        /\ \A k \in Tokens : \/ since'[k] = 0
                             \/ /\ (k \in Valid) <=> (k \in Valid')
                                /\ since'[k] <= since[k] + units
    BY AgedSince
  <1>4. ASSUME NEW k \in Tokens PROVE (k \in records' <=> k \in Valid') \/ since'[k] <= lag'
    <2>1. since[k] \in Nat /\ since'[k] \in 0..Cap /\ lag \in Nat
      BY <1>1, <1>3
    <2>2. CASE since'[k] = 0
      BY <1>2, <2>2
    <2>3. CASE since'[k] <= since[k] + units /\ since[k] <= lag
      <3>1. since'[k] <= lag'
        BY ONLY <1>1, <1>2, <2>1, <2>3, units \in {0, 1}
      <3>. QED BY <3>1
    <2>4. CASE ((k \in Valid) <=> (k \in Valid')) /\ (k \in records <=> k \in Valid)
      BY <2>4
    <2>. QED BY <1>3, <2>2, <2>3, <2>4 DEF MapIsRecent
  <1>. QED BY <1>4 DEF MapIsRecent

(* A tool overwrites an item.                                               *)
LEMMA StoreKeepsReads ==
  ASSUME StoreTypes, MapInv, NEW t \in Tools, StoreItem(t), StoreTypes'
  PROVE  ReadsAreRecent'
  <1>. DEFINE b == tool[t].actor
              touched == TokensOf(keychain[b]) \cup TokensOf(Item(t))
  <1>1. /\ UNCHANGED <<manifest, lookup>> /\ Aged(0, touched) /\ b \in Actors
        /\ keychain' = [keychain EXCEPT ![b] = Item(t)]
    BY DEF StoreItem, StoreTypes, bridge
  <1>2. /\ keychain'[b] = Item(t)
        /\ \A a \in Actors : a # b => keychain'[a] = keychain[a]
    BY <1>1 DEF StoreTypes
  <1>3. \A k \in Tokens : since'[k] = 0 \/ (k \notin touched /\ since'[k] <= since[k])
    <2>1. \A k \in Tokens : since'[k] = 0 \/ (k \notin touched /\ since'[k] <= since[k] + 0)
      BY <1>1, AgedSince DEF MapInv
    <2>2. \A k \in Tokens : since[k] \in Nat
      BY DEF MapInv, MapTypes
    <2>. HIDE DEF touched
    <2>. QED BY <2>1, <2>2
  <1>4. ASSUME NEW c \in Callers, NEW k \in Tokens, k \notin touched, Copied(lookup[c], k)
        PROVE  Copied(lookup[c], k)'
    BY <1>1, <1>2, <1>4 DEF Copied
  <1>5. ASSUME NEW c \in Callers, NEW k \in Tokens, k \notin touched, Covered(lookup[c], k)
        PROVE  Covered(lookup[c], k)'
    <2>1. ASSUME NEW a \in Actors, Honours(a, k)' PROVE Honours(a, k)
      <3>1. a # b
        BY <1>2, <1>5, <2>1, TokenStoreAssumption DEF Honours, TokensOf
      <3>. QED BY <1>2, <2>1, <3>1 DEF Honours
    <2>. QED BY <1>1, <1>5, <2>1 DEF Covered
  <1>6. \A c \in Callers : lookup[c].spent \in Nat
    BY LookupFields DEF MapInv
  <1>. HIDE DEF touched
  <1>7. ASSUME NEW c \in Callers, NEW k \in Tokens, lookup[c].pc = "read"
        PROVE  since'[k] <= lookup[c].spent \/ (Copied(lookup[c], k)' /\ Covered(lookup[c], k)')
    <2>1. since[k] <= lookup[c].spent \/ (Copied(lookup[c], k) /\ Covered(lookup[c], k))
      BY <1>7 DEF MapInv, ReadsAreRecent
    <2>2. since[k] \in Nat /\ since' \in [Tokens -> 0..Cap]
      BY <1>1, AgedSince DEF MapInv, MapTypes
    <2>. QED BY <1>3, <1>4, <1>5, <1>6, <2>1, <2>2
  <1>. QED BY <1>1, <1>7 DEF MapInv, ReadsAreRecent

(* A tool writes the manifest.                                              *)
LEMMA WriteKeepsReads ==
  ASSUME StoreTypes, MapInv, NEW t \in Tools, WriteManifest(t)
  PROVE  ReadsAreRecent'
  <1>. DEFINE moved == (manifest \ manifest') \cup (manifest' \ manifest)
              touched == UNION {TokensOf(keychain[a]) : a \in moved}
  <1>1. UNCHANGED <<keychain, lookup>> /\ Aged(0, touched)
    BY DEF WriteManifest, bridge
  <1>2. \A k \in Tokens : since'[k] = 0 \/ (k \notin touched /\ since'[k] <= since[k] + 0)
    BY <1>1, AgedSince DEF MapInv
  <1>3. ASSUME NEW c \in Callers, NEW k \in Tokens, k \notin touched, Covered(lookup[c], k)
        PROVE  Covered(lookup[c], k)'
    <2>1. ASSUME NEW a \in Actors, Honours(a, k) PROVE a \in manifest <=> a \in manifest'
      <3>1. k \in TokensOf(keychain[a])
        BY <2>1, TokenStoreAssumption DEF Honours, TokensOf
      <3>. QED BY <1>3, <3>1
    <2>2. \A a \in Actors : Honours(a, k)' <=> Honours(a, k)
      BY <1>1 DEF Honours
    <2>. QED BY <1>1, <1>3, <2>1, <2>2 DEF Covered
  <1>4. \A c \in Callers, k \in Tokens : Copied(lookup[c], k) => Copied(lookup[c], k)'
    BY <1>1 DEF Copied
  <1>. HIDE DEF touched
  <1>5. ASSUME NEW c \in Callers, NEW k \in Tokens, lookup[c].pc = "read"
        PROVE  since'[k] <= lookup[c].spent \/ (Copied(lookup[c], k)' /\ Covered(lookup[c], k)')
    <2>1. since[k] <= lookup[c].spent \/ (Copied(lookup[c], k) /\ Covered(lookup[c], k))
      BY <1>5 DEF MapInv, ReadsAreRecent
    <2>2. since[k] \in Nat /\ since' \in [Tokens -> 0..Cap] /\ lookup[c].spent \in Nat
      BY <1>1, AgedSince, LookupFields DEF MapInv, MapTypes
    <2>. QED BY <1>2, <1>3, <1>4, <2>1, <2>2
  <1>. QED BY <1>1, <1>5 DEF MapInv, ReadsAreRecent

(* Time passes: every clock that does not stop moves on.                    *)
LEMMA AgedItem ==
  ASSUME NEW item, item \in Items \cup {None}
  PROVE  /\ TokensOf(Aging(item)) = TokensOf(item)
         /\ Aging(item) = None <=> item = None
         /\ Aging(item) \in Items \cup {None}
         /\ item # None => /\ Aging(item).token = item.token
                           /\ Aging(item).previous = item.previous
                           /\ Aging(item).left > 0 => item.left > 0
  <1>1. CASE item = None
    BY <1>1 DEF Aging
  <1>2. CASE item # None
    <2>1. item \in Items
      BY <1>2
    <2>2. item.left > 0 => item.left - 1 \in 0..Grace
      BY <2>1, TokenStoreAssumption DEF Items
    <2>3. Aging(item) = item \/ (item.left > 0 /\ Aging(item) = [item EXCEPT !.left = item.left - 1])
      BY <1>2 DEF Aging
    <2>4. /\ Aging(item) \in Items
          /\ Aging(item).token = item.token /\ Aging(item).previous = item.previous
          /\ Aging(item).left > 0 => item.left > 0
      BY <2>1, <2>2, <2>3 DEF Items
    <2>5. Aging(item) # None
      BY <2>4, TokenStoreAssumption
    <2>. QED BY <1>2, <2>4, <2>5 DEF TokensOf
  <1>. QED BY <1>1, <1>2

LEMMA LaterLookup ==
  ASSUME MapTypes, NEW c \in Callers, Tick
  PROVE  /\ lookup'[c].pc = lookup[c].pc /\ lookup'[c].todo = lookup[c].todo
         /\ lookup'[c].read = [a \in Actors |-> Aging(lookup[c].read[a])]
         /\ lookup[c].pc # "idle" => lookup'[c].spent = lookup[c].spent + 1
         /\ lookup'[c].spent \in 0..Patience
  <1>1. lookup'[c] = Later(lookup[c])
    BY DEF Tick
  <1>2. lookup[c].pc # "idle" => lookup[c].spent + 1 \in 0..Patience
    BY LookupFields, TokenStoreAssumption DEF Tick
  <1>. QED BY <1>1, <1>2, TokenStoreAssumption DEF Later, MapTypes

LEMMA TickKeepsTypes ==
  ASSUME StoreTypes, MapTypes, Tick
  PROVE  MapTypes'
  <1>1. age' \in Nat /\ lag' \in 0..Cap
    BY TokenStoreAssumption DEF Tick, MapTypes, Min, Expired, Cap, Bound
  <1>2. since' \in [Tokens -> 0..Cap]
    BY AgedSince DEF Tick
  <1>3. ASSUME NEW c \in Callers PROVE lookup'[c] \in Lookups
    <2>1. \A a \in Actors : Aging(lookup[c].read[a]) \in Items \cup {None}
      BY LookupFields, AgedItem
    <2>2. lookup'[c] = Later(lookup[c])
      BY DEF Tick
    <2>3. lookup[c].pc # "idle" => lookup[c].spent \in Nat /\ lookup[c].spent < Patience
      BY LookupFields DEF Tick
    <2>. DEFINE read == [a \in Actors |-> Aging(lookup[c].read[a])]
                spent == IF lookup[c].pc = "idle" THEN 0 ELSE lookup[c].spent + 1
    <2>5. read \in Copies /\ spent \in Spans
      BY <2>1, <2>3, TokenStoreAssumption DEF Copies, Spans, Tick
    <2>6. lookup'[c] = [lookup[c] EXCEPT !.read = read, !.spent = spent]
      BY <2>2, LookupFields DEF Later, Lookups
    <2>. HIDE DEF read, spent
    <2>7. lookup[c] \in Lookups
      BY LookupFields
    <2>. QED BY <2>5, <2>6, <2>7 DEF Lookups
  <1>4. lookup' = [c \in Callers |-> Later(lookup[c])]
    BY DEF Tick
  <1>. QED BY <1>1, <1>2, <1>3, <1>4 DEF MapTypes

LEMMA TickKeepsReads ==
  ASSUME StoreTypes, MapInv, Tick
  PROVE  ReadsAreRecent'
  <1>1. /\ Aged(1, {}) /\ manifest' = manifest
        /\ \A a \in Actors : keychain'[a] = Aging(keychain[a]) /\ keychain[a] \in Items \cup {None}
    BY DEF Tick, StoreTypes
  <1>2. \A k \in Tokens : since'[k] = 0 \/ since'[k] <= since[k] + 1
    BY <1>1, AgedSince DEF MapInv
  <1>3. ASSUME NEW c \in Callers
        PROVE  /\ lookup'[c].pc = lookup[c].pc /\ lookup'[c].todo = lookup[c].todo
               /\ \A a \in Actors : /\ lookup'[c].read[a] = Aging(lookup[c].read[a])
                                    /\ lookup[c].read[a] \in Items \cup {None}
               /\ lookup[c].pc # "idle" => lookup'[c].spent = lookup[c].spent + 1
    BY LaterLookup, LookupFields DEF MapInv
  <1>4. ASSUME NEW c \in Callers, NEW a \in Actors
        PROVE  /\ lookup'[c].read[a] = None <=> lookup[c].read[a] = None
               /\ TokensOf(lookup'[c].read[a]) = TokensOf(lookup[c].read[a])
               /\ TokensOf(keychain'[a]) = TokensOf(keychain[a])
               /\ lookup[c].read[a] = keychain[a] => lookup'[c].read[a] = keychain'[a]
    BY <1>1, <1>3, AgedItem
  <1>5. \A a \in Actors, k \in Tokens : Honours(a, k)' => Honours(a, k)
    <2>1. ASSUME NEW a \in Actors
          PROVE  /\ keychain'[a] = None <=> keychain[a] = None
                 /\ keychain[a] # None => /\ keychain'[a].token = keychain[a].token
                                          /\ keychain'[a].previous = keychain[a].previous
                                          /\ keychain'[a].left > 0 => keychain[a].left > 0
      BY <1>1, AgedItem
    <2>. QED BY <2>1 DEF Honours
  <1>6. ASSUME NEW c \in Callers, NEW k \in Tokens
        PROVE  /\ Copied(lookup[c], k) => Copied(lookup[c], k)'
               /\ Covered(lookup[c], k) => Covered(lookup[c], k)'
    <2>1. Copied(lookup[c], k) => Copied(lookup[c], k)'
      BY <1>4 DEF Copied
    <2>2. Covered(lookup[c], k) => Covered(lookup[c], k)'
      BY <1>1, <1>3, <1>4, <1>5 DEF Covered
    <2>. QED BY <2>1, <2>2
  <1>7. ASSUME NEW c \in Callers, NEW k \in Tokens, lookup[c].pc = "read"
        PROVE  since'[k] <= lookup'[c].spent \/ (Copied(lookup[c], k)' /\ Covered(lookup[c], k)')
    <2>1. since[k] <= lookup[c].spent \/ (Copied(lookup[c], k) /\ Covered(lookup[c], k))
      BY <1>7 DEF MapInv, ReadsAreRecent
    <2>2. since[k] \in Nat /\ since' \in [Tokens -> 0..Cap] /\ lookup[c].spent \in Nat
      BY <1>1, AgedSince, LookupFields DEF MapInv, MapTypes
    <2>3. lookup'[c].spent = lookup[c].spent + 1
      BY <1>3, <1>7
    <2>4. CASE since[k] <= lookup[c].spent
      <3>1. since'[k] \in Nat
        BY <2>2
      <3>2. since'[k] <= lookup'[c].spent
        BY ONLY <1>2, <2>2, <2>3, <2>4, <3>1
      <3>. QED BY <3>2
    <2>. QED BY <1>6, <2>1, <2>4
  <1>8. \A c \in Callers : \A a \in lookup[c].todo : a \in Actors
    BY LookupFields DEF MapInv
  <1>. QED BY <1>3, <1>4, <1>7, <1>8 DEF MapInv, ReadsAreRecent

LEMMA TickKeepsYouth ==
  ASSUME StoreTypes, MapTypes, MapIsYoung, Tick
  PROVE  MapIsYoung'
  <1>1. /\ age \in Nat /\ lag \in Nat /\ RefreshTTL \in Nat /\ Patience \in Nat
        /\ lag' <= lag + 1 /\ (age' = age + 1 \/ age' > RefreshTTL)
    BY TokenStoreAssumption DEF Tick, MapTypes, Min, Expired, Cap, Bound
  <1>2. ASSUME NEW c \in Callers
        PROVE  /\ lookup'[c].pc = lookup[c].pc /\ lookup[c].spent \in Nat
               /\ lookup[c].pc # "idle" => lookup'[c].spent = lookup[c].spent + 1
    BY LaterLookup, LookupFields
  <1>3. lag' \in Nat
    BY TickKeepsTypes, TokenStoreAssumption DEF Tick, MapTypes, Min, Cap, Bound
  <1>4. age' <= RefreshTTL => lag' <= age' + Patience + Patience
    <2>1. age <= RefreshTTL => lag <= age + Patience + Patience
      BY DEF MapIsYoung
    <2>2. CASE age' = age + 1
      BY <1>1, <1>3, <2>1, <2>2
    <2>3. age' \in Nat
      BY TickKeepsTypes DEF MapTypes
    <2>. QED BY <1>1, <2>2, <2>3
  <1>5. ASSUME NEW c \in Callers, lookup'[c].pc = "stamp"
        PROVE  lag' <= Patience + lookup'[c].spent
    <2>1. lag <= Patience + lookup[c].spent
      BY <1>2, <1>5 DEF MapIsYoung
    <2>. QED BY <1>1, <1>2, <1>3, <1>5, <2>1
  <1>6. ASSUME NEW c \in Callers, lookup'[c].pc = "answer"
        PROVE  lag' <= RefreshTTL + Patience + Patience + lookup'[c].spent
    <2>1. lag <= RefreshTTL + Patience + Patience + lookup[c].spent
      BY <1>2, <1>6 DEF MapIsYoung
    <2>. QED BY <1>1, <1>2, <1>3, <1>6, <2>1
  <1>. QED BY <1>4, <1>5, <1>6 DEF MapIsYoung

----------------------------------------------------------------------------
(* The steps of a lookup                                                    *)

(* A map that is installed is right about every token of which nothing has  *)
(* changed since its lookup began.                                          *)
LEMMA InstalledIsRecent ==
  ASSUME StoreTypes, MapTypes, ReadsAreRecent, NEW c \in Callers, Install(c)
  PROVE  MapIsRecent'
  <1>1. ASSUME NEW k \in Tokens, Copied(lookup[c], k), Covered(lookup[c], k)
        PROVE  k \in records' <=> k \in Valid
    <2>1. k \in records' <=> \E a \in Actors : k \in HonouredOf(lookup[c].read[a])
      BY DEF Install
    <2>2. ASSUME NEW a \in Actors
          PROVE  k \in HonouredOf(keychain[a]) <=> Honours(a, k)
      BY TokenStoreAssumption DEF HonouredOf, Honours, StoreTypes
    <2>3. ASSUME NEW item PROVE HonouredOf(item) \subseteq TokensOf(item) \cup {None}
      BY DEF HonouredOf, TokensOf
    <2>4. k # None
      BY TokenStoreAssumption
    <2>5. ASSUME NEW a \in Actors
          PROVE  k \in HonouredOf(lookup[c].read[a]) <=> (a \in manifest /\ Honours(a, k))
      <3>1. lookup[c].todo = {}
        BY DEF Install
      <3>2. ASSUME k \in HonouredOf(lookup[c].read[a]) PROVE a \in manifest /\ Honours(a, k)
        <4>1. lookup[c].read[a] # None /\ k \in TokensOf(lookup[c].read[a])
          BY <2>3, <2>4, <3>2 DEF HonouredOf
        <4>2. lookup[c].read[a] = keychain[a]
          BY <1>1, <4>1 DEF Copied
        <4>3. Honours(a, k)
          BY <2>2, <3>2, <4>2
        <4>. QED BY <1>1, <4>1, <4>3 DEF Covered
      <3>3. ASSUME a \in manifest, Honours(a, k) PROVE k \in HonouredOf(lookup[c].read[a])
        <4>1. lookup[c].read[a] # None
          BY <1>1, <3>1, <3>3 DEF Covered
        <4>2. k \in TokensOf(keychain[a])
          BY <2>4, <3>3 DEF Honours, TokensOf
        <4>3. lookup[c].read[a] = keychain[a]
          BY <1>1, <4>1, <4>2 DEF Copied
        <4>. QED BY <2>2, <3>3, <4>3
      <3>. QED BY <3>2, <3>3
    <2>. QED BY <2>1, <2>5 DEF Valid, StoreTypes
  <1>2. Valid' = Valid /\ since' = since /\ lag' = lookup[c].spent /\ lookup[c].pc = "read"
    BY DEF Install, keys, Valid, Honours
  <1>3. ASSUME NEW k \in Tokens PROVE (k \in records' <=> k \in Valid) \/ since[k] <= lookup[c].spent
    BY <1>1, <1>2 DEF ReadsAreRecent
  <1>. QED BY <1>2, <1>3 DEF MapIsRecent

(* No step of one lookup touches another one.                               *)
Steps(c) ==
    /\ UNCHANGED <<keychain, manifest, since>>
    /\ \A d \in Callers : d # c => lookup'[d] = lookup[d]

LEMMA TypesStay ==
  ASSUME MapTypes, NEW c \in Callers, Steps(c), age' \in Nat, lag' \in 0..Cap,
         NEW m \in Lookups, lookup' = [lookup EXCEPT ![c] = m]
  PROVE  MapTypes'
  BY DEF MapTypes, Steps

LEMMA ReadStep ==
  ASSUME StoreTypes, MapInv, NEW c \in Callers, Steps(c), MapTypes',
         lookup'[c].pc = "list" => \A a \in Actors : lookup'[c].read[a] = None,
         \A a \in lookup'[c].todo : lookup'[c].read[a] = None,
         \A k \in Tokens : lookup'[c].pc = "read" =>
             since[k] <= lookup'[c].spent \/ (Copied(lookup'[c], k) /\ Covered(lookup'[c], k))
  PROVE  ReadsAreRecent'
  <1>1. \A l, k : /\ Copied(l, k) => Copied(l, k)'
                  /\ Covered(l, k) => Covered(l, k)'
    BY DEF Steps, Copied, Covered, Honours
  <1>. QED BY <1>1 DEF Steps, MapInv, ReadsAreRecent

LEMMA MapStays ==
  ASSUME MapIsRecent, UNCHANGED <<keychain, manifest, since, records, lag>>
  PROVE  MapIsRecent'
  BY DEF MapIsRecent, Valid, Honours

LEMMA FreeStep ==
  ASSUME StoreTypes, MapInv, NEW c \in Callers, Steps(c), UNCHANGED <<records, age, lag>>,
         NEW to \in {"idle", "list", "answer"},
         lookup' = [lookup EXCEPT ![c] = [Free EXCEPT !.pc = to]],
         to = "answer" => age <= RefreshTTL
  PROVE  MapInv'
  <1>0. MapTypes /\ MapIsRecent /\ ReadsAreRecent /\ MapIsYoung /\ age \in Nat /\ lag \in Nat
    BY DEF MapInv, MapTypes, Cap, Bound
  <1>1. /\ lookup'[c].pc = to /\ lookup'[c].todo = {} /\ lookup'[c].spent = 0
        /\ \A a \in Actors : lookup'[c].read[a] = None
    BY <1>0 DEF MapTypes, Free
  <1>2. MapTypes'
    <2>1. [Free EXCEPT !.pc = to] \in Lookups
      BY TokenStoreAssumption DEF Free, Lookups, Todos, Copies, Spans
    <2>. QED BY <1>0, <2>1, TypesStay DEF MapTypes
  <1>3. MapIsRecent'
    BY <1>0, MapStays DEF Steps
  <1>4. ReadsAreRecent'
    BY <1>1, <1>2, ReadStep
  <1>5. MapIsYoung'
    <2>1. to = "answer" => lag <= RefreshTTL + Patience + Patience + 0
      BY <1>0, TokenStoreAssumption DEF MapIsYoung
    <2>2. ASSUME NEW d \in Callers
          PROVE  /\ lookup'[d].pc = "stamp" => lag <= Patience + lookup'[d].spent
                 /\ lookup'[d].pc = "answer" =>
                       lag <= RefreshTTL + Patience + Patience + lookup'[d].spent
      BY <1>0, <1>1, <2>1 DEF Steps, MapIsYoung
    <2>. QED BY <1>0, <2>2 DEF MapIsYoung
  <1>. QED BY <1>2, <1>3, <1>4, <1>5 DEF MapInv

LEMMA ListStep ==
  ASSUME StoreTypes, MapInv, NEW c \in Callers, ListActors(c)
  PROVE  MapInv'
  <1>0. MapTypes /\ MapIsRecent /\ ReadsAreRecent /\ MapIsYoung
    BY DEF MapInv
  <1>1. Steps(c) /\ UNCHANGED <<records, age, lag>>
    BY <1>0 DEF ListActors, Steps, keys, MapTypes
  <1>2. /\ lookup'[c].pc = "read" /\ lookup'[c].todo = manifest
        /\ \A a \in Actors : lookup'[c].read[a] = None
    BY <1>0 DEF ListActors, MapTypes, ReadsAreRecent
  <1>3. MapTypes'
    <2>. DEFINE m == [lookup[c] EXCEPT !.pc = "read", !.todo = manifest]
    <2>1. lookup[c] \in Lookups /\ manifest \in Todos
      BY <1>0, LookupFields DEF StoreTypes, Todos
    <2>2. m \in Lookups
      BY <2>1 DEF Lookups
    <2>3. lookup' = [lookup EXCEPT ![c] = m]
      BY <1>0 DEF ListActors, MapTypes
    <2>. HIDE DEF m
    <2>. QED BY <1>0, <1>1, <2>2, <2>3, TypesStay DEF MapTypes
  <1>4. MapIsRecent'
    BY <1>0, <1>1, MapStays DEF Steps
  <1>5. ReadsAreRecent'
    <2>1. \A k \in Tokens : Copied(lookup'[c], k) /\ Covered(lookup'[c], k)
      BY <1>2 DEF Copied, Covered
    <2>2. \A a \in lookup'[c].todo : lookup'[c].read[a] = None
      BY <1>2 DEF StoreTypes
    <2>. QED BY <1>1, <1>2, <1>3, <2>1, <2>2, ReadStep
  <1>6. MapIsYoung'
    BY <1>0, <1>1, <1>2 DEF MapIsYoung, Steps
  <1>. QED BY <1>3, <1>4, <1>5, <1>6 DEF MapInv

LEMMA ItemStep ==
  ASSUME StoreTypes, MapInv, NEW c \in Callers, NEW a \in Actors, ReadItem(c, a)
  PROVE  MapInv'
  <1>0. MapTypes /\ MapIsRecent /\ ReadsAreRecent /\ MapIsYoung
    BY DEF MapInv
  <1>1. Steps(c) /\ UNCHANGED <<records, age, lag>>
    BY <1>0 DEF ReadItem, Steps, keys, MapTypes
  <1>2. /\ lookup[c].pc = "read" /\ a \in lookup[c].todo
        /\ lookup'[c].pc = "read" /\ lookup'[c].todo = lookup[c].todo \ {a}
        /\ lookup'[c].spent = lookup[c].spent
        /\ lookup'[c].read[a] = keychain[a]
        /\ \A b \in Actors : b # a => lookup'[c].read[b] = lookup[c].read[b]
    <2>1. lookup'[c] = [lookup[c] EXCEPT !.todo = @ \ {a}, !.read[a] = keychain[a]]
      BY <1>0 DEF ReadItem, MapTypes
    <2>2. lookup[c].pc = "read" /\ a \in lookup[c].todo
      BY DEF ReadItem
    <2>3. lookup[c] \in Lookups /\ lookup[c].read \in [Actors -> Items \cup {None}]
      BY <1>0, LookupFields
    <2>. QED BY <2>1, <2>2, <2>3 DEF Lookups
  <1>3. MapTypes'
    <2>. DEFINE todo == lookup[c].todo \ {a}
                read == [lookup[c].read EXCEPT ![a] = keychain[a]]
                m == [lookup[c] EXCEPT !.todo = todo, !.read = read]
    <2>1. lookup[c] \in Lookups /\ todo \in Todos /\ read \in Copies
      BY <1>0, LookupFields DEF StoreTypes, Todos, Copies
    <2>2. lookup' = [lookup EXCEPT ![c] = m]
      BY <1>0 DEF ReadItem, MapTypes
    <2>. HIDE DEF todo, read
    <2>3. m \in Lookups
      BY <2>1 DEF Lookups
    <2>. HIDE DEF m
    <2>. QED BY <1>0, <1>1, <2>2, <2>3, TypesStay DEF MapTypes
  <1>4. MapIsRecent'
    BY <1>0, <1>1, MapStays DEF Steps
  <1>5. ReadsAreRecent'
    <2>1. ASSUME NEW k \in Tokens, Copied(lookup[c], k) PROVE Copied(lookup'[c], k)
      BY <1>2, <2>1 DEF Copied
    <2>2. ASSUME NEW k \in Tokens, Covered(lookup[c], k) PROVE Covered(lookup'[c], k)
      BY <1>2, <2>2 DEF Covered, Honours
    <2>3. \A b \in lookup'[c].todo : lookup'[c].read[b] = None
      BY <1>0, <1>2, LookupFields DEF ReadsAreRecent
    <2>4. \A k \in Tokens :
             since[k] <= lookup'[c].spent \/ (Copied(lookup'[c], k) /\ Covered(lookup'[c], k))
      BY <1>0, <1>2, <2>1, <2>2 DEF ReadsAreRecent
    <2>. QED BY <1>1, <1>2, <1>3, <2>3, <2>4, ReadStep
  <1>6. MapIsYoung'
    BY <1>0, <1>1, <1>2 DEF MapIsYoung, Steps
  <1>. QED BY <1>3, <1>4, <1>5, <1>6 DEF MapInv

LEMMA InstallStep ==
  ASSUME StoreTypes, MapInv, NEW c \in Callers, Install(c)
  PROVE  MapInv'
  <1>0. /\ MapTypes /\ MapIsRecent /\ ReadsAreRecent /\ MapIsYoung
        /\ Patience \in Nat /\ RefreshTTL \in Nat
        /\ \A d \in Callers : lookup[d].spent \in Nat /\ lookup[d].spent <= Patience
    BY LookupFields, TokenStoreAssumption DEF MapInv
  <1>1. Steps(c) /\ UNCHANGED age /\ lag' = lookup[c].spent
    BY <1>0 DEF Install, Steps, keys, MapTypes
  <1>2. /\ lookup'[c].pc = "stamp" /\ lookup'[c].todo = {} /\ lookup'[c].spent = lookup[c].spent
    BY <1>0 DEF Install, MapTypes, Free
  <1>3. MapTypes'
    <2>1. lag' \in 0..Cap
      BY <1>0, <1>1 DEF Cap, Bound
    <2>2. [Free EXCEPT !.pc = "stamp", !.spent = lookup[c].spent] \in Lookups
      BY <1>0, LookupFields DEF Free, Lookups, Todos, Copies, Spans
    <2>3. lookup' = [lookup EXCEPT ![c] = [Free EXCEPT !.pc = "stamp", !.spent = lookup[c].spent]]
      BY DEF Install
    <2>. QED BY <1>0, <1>1, <2>1, <2>2, <2>3, TypesStay DEF MapTypes
  <1>4. MapIsRecent'
    BY <1>0, InstalledIsRecent
  <1>5. ReadsAreRecent'
    BY <1>1, <1>2, <1>3, ReadStep
  <1>6. MapIsYoung'
    <2>1. age \in Nat /\ lookup[c].spent \in Nat /\ lookup[c].spent <= Patience
      BY <1>0 DEF MapTypes
    <2>2. age' <= RefreshTTL => lag' <= age' + Patience + Patience
      BY <1>0, <1>1, <2>1
    <2>3. ASSUME NEW d \in Callers
          PROVE  lookup'[d].spent \in Nat
      BY <1>0, <1>1, <1>2 DEF Steps
    <2>4. ASSUME NEW d \in Callers
          PROVE  /\ lag' <= Patience + lookup'[d].spent
                 /\ lag' <= RefreshTTL + Patience + Patience + lookup'[d].spent
      BY <1>0, <1>1, <2>1, <2>3
    <2>. QED BY <2>2, <2>4 DEF MapIsYoung
  <1>. QED BY <1>3, <1>4, <1>5, <1>6 DEF MapInv

LEMMA StampStep ==
  ASSUME StoreTypes, MapInv, NEW c \in Callers, Stamp(c)
  PROVE  MapInv'
  <1>0. /\ MapTypes /\ MapIsRecent /\ ReadsAreRecent /\ MapIsYoung
        /\ Patience \in Nat /\ RefreshTTL \in Nat /\ lag \in Nat
        /\ lookup[c].spent \in Nat /\ lookup[c].spent <= Patience
    BY LookupFields, TokenStoreAssumption DEF MapInv, MapTypes
  <1>1. Steps(c) /\ UNCHANGED <<records, lag>> /\ age' = 0
    BY <1>0 DEF Stamp, Steps, keys, MapTypes
  <1>2. /\ lookup[c].pc = "stamp" /\ lookup'[c].pc = "answer"
        /\ lookup'[c].spent = lookup[c].spent
        /\ lookup'[c].todo = lookup[c].todo /\ lookup'[c].read = lookup[c].read
    BY <1>0 DEF Stamp, MapTypes
  <1>3. MapTypes'
    <2>. DEFINE m == [lookup[c] EXCEPT !.pc = "answer"]
    <2>1. lookup[c] \in Lookups
      BY <1>0, LookupFields
    <2>2. lookup' = [lookup EXCEPT ![c] = m]
      BY <1>0 DEF Stamp, MapTypes
    <2>4. m \in Lookups
      BY <2>1 DEF Lookups
    <2>3. lag' \in 0..Cap /\ age' \in Nat
      BY <1>0, <1>1 DEF MapTypes
    <2>. HIDE DEF m
    <2>. QED BY <1>0, <1>1, <2>2, <2>3, <2>4, TypesStay
  <1>4. MapIsRecent'
    BY <1>0, <1>1, MapStays DEF Steps
  <1>5. ReadsAreRecent'
    <2>1. \A a \in lookup'[c].todo : lookup'[c].read[a] = None
      BY <1>0, <1>2 DEF ReadsAreRecent
    <2>. QED BY <1>1, <1>2, <1>3, <2>1, ReadStep
  <1>6. MapIsYoung'
    <2>1. lag <= Patience + lookup[c].spent
      BY <1>0, <1>2 DEF MapIsYoung
    <2>2. lag <= 0 + Patience + Patience /\ lag <= RefreshTTL + Patience + Patience + lookup[c].spent
      BY <1>0, <2>1
    <2>3. ASSUME NEW d \in Callers
          PROVE  /\ lookup'[d].pc = "stamp" => lag <= Patience + lookup'[d].spent
                 /\ lookup'[d].pc = "answer" =>
                       lag <= RefreshTTL + Patience + Patience + lookup'[d].spent
      BY <1>0, <1>1, <1>2, <2>2 DEF MapIsYoung, Steps
    <2>. QED BY <1>1, <2>2, <2>3 DEF MapIsYoung
  <1>. QED BY <1>3, <1>4, <1>5, <1>6 DEF MapInv

LEMMA LookupStep ==
  ASSUME StoreTypes, MapInv, NEW c \in Callers, Lookup(c) \/ Refresh(c) \/ Answer(c)
  PROVE  MapInv'
  <1>0. MapTypes
    BY DEF MapInv
  <1>1. CASE Lookup(c)
    <2>. DEFINE to == IF Outdated THEN "list" ELSE "answer"
    <2>1. to \in {"idle", "list", "answer"} /\ (to = "answer" => age <= RefreshTTL)
      BY <1>0, TokenStoreAssumption DEF Outdated, MapTypes
    <2>2. Steps(c) /\ UNCHANGED <<records, age, lag>>
          /\ lookup' = [lookup EXCEPT ![c] = [Free EXCEPT !.pc = to]]
      BY <1>0, <1>1 DEF Lookup, Steps, keys, MapTypes
    <2>. HIDE DEF to
    <2>. QED BY <2>1, <2>2, FreeStep
  <1>2. CASE RefreshFails(c) \/ Answer(c)
    <2>1. Steps(c) /\ UNCHANGED <<records, age, lag>>
      BY <1>0, <1>2 DEF RefreshFails, Answer, Steps, keys, MapTypes
    <2>2. lookup' = [lookup EXCEPT ![c] = [Free EXCEPT !.pc = "idle"]]
      BY <1>2 DEF RefreshFails, Answer, Free
    <2>. QED BY <2>1, <2>2, FreeStep
  <1>3. CASE \E a \in Actors : ReadItem(c, a)
    BY <1>3, ItemStep
  <1>. QED BY <1>1, <1>2, <1>3, ListStep, InstallStep, StampStep DEF Refresh

LEMMA RestartStep ==
  ASSUME StoreTypes, MapInv, BridgeRestart
  PROVE  MapInv'
  <1>0. /\ MapTypes /\ RefreshTTL \in Nat /\ Patience \in Nat /\ Cap \in Nat
    BY TokenStoreAssumption DEF MapInv, Cap, Bound
  <1>1. /\ UNCHANGED <<keychain, manifest, since>> /\ age' = Expired /\ lag' = Cap
        /\ lookup' = [c \in Callers |-> Free]
    BY DEF BridgeRestart, keys
  <1>2. MapTypes'
    BY <1>0, <1>1 DEF MapTypes, Free, Lookups, Todos, Copies, Spans, Expired
  <1>3. MapIsRecent'
    BY <1>0, <1>1 DEF MapIsRecent, MapTypes
  <1>4. ReadsAreRecent' /\ MapIsYoung'
    BY <1>0, <1>1 DEF ReadsAreRecent, MapIsYoung, Free, Expired
  <1>. QED BY <1>2, <1>3, <1>4 DEF MapInv

LEMMA MapStep == MapInv /\ ListedInv /\ [Next]_vars => MapInv'
  <1>. SUFFICES ASSUME MapInv, ListedInv, [Next]_vars PROVE MapInv'
    OBVIOUS
  <1>0. /\ StoreTypes /\ StoreTypes'
        /\ MapTypes /\ MapIsRecent /\ ReadsAreRecent /\ MapIsYoung
    BY ListedStep DEF ListedInv, MapInv
  <1>1. ASSUME UNCHANGED <<keychain, manifest, bridge, since>> PROVE MapInv'
    BY <1>0, <1>1 DEF MapInv, bridge, MapTypes, MapIsRecent, ReadsAreRecent, MapIsYoung,
                      Valid, Honours, Copied, Covered
  <1>2. ASSUME NEW t \in Tools, StoreItem(t) \/ WriteManifest(t) PROVE MapInv'
    <2>1. UNCHANGED <<records, age, lookup, lag>> /\ \E touched : Aged(0, touched)
      BY <1>2 DEF StoreItem, WriteManifest, bridge
    <2>2. lag' = Min(Cap, lag + 0)
      BY <1>0, <2>1, TokenStoreAssumption DEF Min, MapTypes, Cap, Bound
    <2>3. MapIsRecent' /\ since' \in [Tokens -> 0..Cap]
      BY <1>0, <2>1, <2>2, MapStaysRecent, AgedSince
    <2>4. MapTypes' /\ MapIsYoung'
      BY <1>0, <2>1, <2>3 DEF MapTypes, MapIsYoung
    <2>5. ReadsAreRecent'
      BY <1>0, <1>2, StoreKeepsReads, WriteKeepsReads
    <2>. QED BY <2>3, <2>4, <2>5 DEF MapInv
  <1>3. CASE Tick
    <2>1. UNCHANGED records /\ Aged(1, {}) /\ lag' = Min(Cap, lag + 1)
      BY <1>3 DEF Tick
    <2>2. MapIsRecent'
      BY <1>0, <2>1, MapStaysRecent
    <2>. QED BY <1>0, <1>3, <2>2, TickKeepsTypes, TickKeepsReads, TickKeepsYouth DEF MapInv
  <1>4. CASE \E c \in Callers : Lookup(c) \/ Refresh(c) \/ Answer(c)
    BY <1>0, <1>4, LookupStep
  <1>5. CASE BridgeRestart
    BY <1>0, <1>5, RestartStep
  <1>6. ASSUME NEW t \in Tools, ReadManifest(t) \/ ToolKilled(t) PROVE MapInv'
    BY <1>1, <1>6 DEF ReadManifest, ToolKilled, keys
  <1>7. ASSUME NEW t \in Tools, NEW a \in Actors, NEW k \in Tokens, Mint(t, a, k) \/ Rotate(t, a, k)
        PROVE  MapInv'
    BY <1>1, <1>7 DEF Mint, Rotate, keys
  <1>8. CASE UNCHANGED vars
    BY <1>1, <1>8 DEF vars, bridge
  <1>. QED BY <1>2, <1>3, <1>4, <1>5, <1>6, <1>7, <1>8 DEF Next

----------------------------------------------------------------------------
(* The theorems                                                             *)

THEOREM TokenStoreInductive == Spec => [](ListedInv /\ MapInv)
  BY StoreStart, ListedStep, MapStep, PTL DEF Spec

(* However tools interleave and die, and however refreshes overlap with     *)
(* them and with each other, a lookup is wrong only about a token of which  *)
(* something changed within the bound.                                      *)
THEOREM Staleness == Spec => []StalenessIsBounded
  <1>1. MapInv => StalenessIsBounded
    <2>. SUFFICES ASSUME MapInv, NEW c \in Callers, NEW k \in Tokens, lookup[c].pc = "answer",
                         WrongAbout(k)
                  PROVE  since[k] <= Bound
      BY DEF StalenessIsBounded
    <2>1. /\ since[k] \in Nat /\ lag \in Nat /\ lookup[c].spent \in Nat
          /\ lookup[c].spent <= Patience /\ Patience \in Nat /\ RefreshTTL \in Nat
      BY LookupFields, TokenStoreAssumption DEF MapInv, MapTypes
    <2>2. since[k] <= lag /\ lag <= RefreshTTL + Patience + Patience + lookup[c].spent
      BY DEF MapInv, MapIsRecent, MapIsYoung, WrongAbout
    <2>. QED BY <2>1, <2>2 DEF Bound
  <1>. QED BY <1>1, TokenStoreInductive, PTL

(* A token that was shown belongs to an actor on the manifest, unless a     *)
(* stale write took that actor off.                                         *)
THEOREM ShownCanBeFound == Spec => []ShownIsListed
  <1>1. ListedInv => ShownIsListed
    BY DEF ListedInv
  <1>. QED BY <1>1, TokenStoreInductive, PTL
=============================================================================
