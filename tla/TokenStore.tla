----------------------------- MODULE TokenStore -----------------------------
(***************************************************************************)
(* Bearer tokens: the Keychain items and their manifest, the tools that     *)
(* mint and rotate tokens in processes of their own, and the map the bridge *)
(* builds from the Keychain and looks requests up in.  Every Keychain call  *)
(* is a step of its own: tools interleave, a tool may die between two of    *)
(* its calls, and the bridge's lookups, which run in a pool of threads      *)
(* without a lock, refresh the map at the same time.  delete_credential has *)
(* no caller and is left out.  Time is counted in units, ages are capped.   *)
(***************************************************************************)
EXTENDS Naturals

CONSTANTS
    Actors,
    Tokens,      \* secrets.token_hex: never issued twice
    Tools,       \* processes that run mint-token or rotate-token
    Callers,     \* threads of the bridge in which a lookup runs
    None,
    RefreshTTL,  \* REFRESH_TTL_SECONDS
    Grace,       \* --grace-hours
    Patience,    \* the longest a lookup may take
    MaxKills     \* bound: tools killed, bridge restarts

Items == [token : Tokens, previous : Tokens \cup {None}, left : 0..Grace]

ASSUME TokenStoreAssumption ==
    /\ None \notin Actors \cup Tokens \cup Items
    /\ RefreshTTL \in Nat /\ Grace \in Nat \ {0} /\ Patience \in Nat /\ MaxKills \in Nat

VARIABLES
    keychain,  \* one item per actor: [token, previous, left], or None; left is
               \*   the time until previous_expires_at
    manifest,  \* the item _actors_
    tool,      \* the tools
    owner,     \* history: the actor each token was issued for
    printed,   \* history: tokens a tool has shown to the operator
    dropped,   \* history: actors that a stale write took off the manifest
    records,   \* TokenStore._records: the tokens it has a record of
    age,       \* time since TokenStore._loaded_at; Expired if there is none
    lookup,    \* the lookups: what a refresh has still to read and has read,
               \*   and (history) the time the lookup has taken so far
    lag,       \* history: time since the lookup began whose refresh built the map
    since,     \* history: how long nothing has changed about a token: its item,
               \*   its validity, its actor's place on the manifest
    kills      \* number of kills so far (bounded)

vars == <<keychain, manifest, tool, owner, printed, dropped, records, age, lookup,
          lag, since, kills>>
keys == <<keychain, manifest>>
tools == <<tool, owner, printed, dropped>>
bridge == <<records, age, lookup, lag>>

Idle == [pc |-> "idle", actor |-> None, token |-> None, seen |-> {}, previous |-> None]
Free == [pc |-> "idle", todo |-> {}, read |-> [a \in Actors |-> None], spent |-> 0]

(* How long the bridge may be wrong about a token: the time to live of the  *)
(* map, on top of the time for the refresh that built it, for another one   *)
(* that stamped it, and for the lookup itself.                              *)
Bound == RefreshTTL + 3 * Patience
Cap == Bound + 1
Expired == RefreshTTL + 1

(* Every variable keeps its type, and every bounded counter its bound.      *)
TypeOK ==
    /\ keychain \in [Actors -> Items \cup {None}]
    /\ manifest \subseteq Actors
    /\ tool \in [Tools -> [pc : {"idle", "store", "read", "write"},
                           actor : Actors \cup {None}, token : Tokens \cup {None},
                           seen : SUBSET Actors, previous : Tokens \cup {None}]]
    /\ owner \in [Tokens -> Actors \cup {None}]
    /\ printed \subseteq Tokens /\ dropped \subseteq Actors
    /\ records \subseteq Tokens
    /\ age \in 0..Expired
    /\ lookup \in [Callers -> [pc : {"idle", "list", "read", "stamp", "answer"},
                               todo : SUBSET Actors,
                               read : [Actors -> Items \cup {None}],
                               spent : 0..Patience]]
    /\ lag \in 0..Cap /\ since \in [Tokens -> 0..Cap]
    /\ kills \in 0..MaxKills

Init ==
    /\ keychain = [a \in Actors |-> None]
    /\ manifest = {}
    /\ tool = [t \in Tools |-> Idle]
    /\ owner = [k \in Tokens |-> None]
    /\ printed = {} /\ dropped = {}
    /\ records = {} /\ age = Expired /\ lag = Cap
    /\ lookup = [c \in Callers |-> Free]
    /\ since = [k \in Tokens |-> Cap]
    /\ kills = 0

(* The tokens an item names; the current one, and the previous one in its   *)
(* grace, are honoured.                                                     *)
TokensOf(item) == IF item = None THEN {} ELSE {item.token, item.previous} \ {None}

(* Mutant: the grace token is indexed whether it has expired or not.        *)
HonouredOf_Expired(item) == TokensOf(item)

HonouredOf(item) ==
    IF item = None THEN {}
    ELSE {item.token} \cup (IF item.left > 0 THEN {item.previous} \ {None} ELSE {})

(* The tokens the Keychain and the clock say should be accepted: what the   *)
(* map is measured against.                                                 *)
Honours(a, k) ==
    /\ keychain[a] # None
    /\ \/ keychain[a].token = k
       \/ keychain[a].previous = k /\ keychain[a].left > 0
Valid == {k \in Tokens : \E a \in manifest : Honours(a, k)}

Min(m, n) == IF m < n THEN m ELSE n
Aged(units, touched) ==
    since' = [k \in Tokens |->
                 IF k \in touched \/ (k \in Valid) # (k \in Valid') THEN 0
                 ELSE Min(Cap, since[k] + units)]

----------------------------------------------------------------------------
(* mint-token and rotate-token                                              *)

Mint(t, a, k) ==
    /\ tool[t].pc = "idle"
    /\ owner[k] = None
    /\ owner' = [owner EXCEPT ![k] = a]
    /\ tool' = [tool EXCEPT ![t] = [Idle EXCEPT !.pc = "store", !.actor = a, !.token = k]]
    /\ UNCHANGED <<keys, printed, dropped, bridge, since, kills>>

(* rotate-token reads the item first.                                       *)
Rotate(t, a, k) ==
    /\ tool[t].pc = "idle"
    /\ owner[k] = None
    /\ keychain[a] # None
    /\ owner' = [owner EXCEPT ![k] = a]
    /\ tool' = [tool EXCEPT ![t] = [Idle EXCEPT !.pc = "store", !.actor = a, !.token = k,
                                                !.previous = keychain[a].token]]
    /\ UNCHANGED <<keys, printed, dropped, bridge, since, kills>>

(* set_credential: the item is overwritten ...                              *)
Item(t) ==
    [token |-> tool[t].token, previous |-> tool[t].previous,
     left |-> IF tool[t].previous = None THEN 0 ELSE Grace]

StoreItem(t) ==
    /\ tool[t].pc = "store"
    /\ keychain' = [keychain EXCEPT ![tool[t].actor] = Item(t)]
    /\ tool' = [tool EXCEPT ![t].pc = "read"]
    /\ UNCHANGED <<manifest, owner, printed, dropped, bridge, kills>>
    /\ Aged(0, TokensOf(keychain[tool[t].actor]) \cup TokensOf(Item(t)))

(* ... then the manifest is read, and written if the actor is new.          *)
Done(t) ==
    /\ tool' = [tool EXCEPT ![t] = Idle]
    /\ printed' = printed \cup {tool[t].token}

(* Mutant: the tool believes its actor is listed.                           *)
Listed_Believed(t) == manifest # {}

Listed(t) == tool[t].actor \in manifest

ReadManifest(t) ==
    /\ tool[t].pc = "read"
    /\ IF Listed(t)
       THEN Done(t)
       ELSE /\ tool' = [tool EXCEPT ![t].pc = "write", ![t].seen = manifest]
            /\ UNCHANGED printed
    /\ UNCHANGED <<keys, owner, dropped, bridge, since, kills>>

WriteManifest(t) ==
    /\ tool[t].pc = "write"
    /\ manifest' = tool[t].seen \cup {tool[t].actor}
    /\ dropped' = (dropped \cup manifest) \ manifest'
    /\ Done(t)
    /\ UNCHANGED <<keychain, owner, bridge, kills>>
    /\ Aged(0, UNION {TokensOf(keychain[a]) :
                         a \in (manifest \ manifest') \cup (manifest' \ manifest)})

ToolKilled(t) ==
    /\ tool[t].pc # "idle"
    /\ kills < MaxKills
    /\ kills' = kills + 1
    /\ tool' = [tool EXCEPT ![t] = Idle]
    /\ UNCHANGED <<keys, owner, printed, dropped, bridge, since>>

----------------------------------------------------------------------------
(* The bridge: TokenStore                                                   *)

(* A map that was never loaded is as good as an old one.                    *)
Outdated == age > RefreshTTL

(* lookup: the map is good enough, or this thread reads it again.           *)
Lookup(c) ==
    /\ lookup[c].pc = "idle"
    /\ lookup' = [lookup EXCEPT ![c] = [Free EXCEPT !.pc = IF Outdated THEN "list" ELSE "answer"]]
    /\ UNCHANGED <<keys, tools, records, age, lag, since, kills>>

(* refresh: the manifest ...                                                *)
ListActors(c) ==
    /\ lookup[c].pc = "list"
    /\ lookup' = [lookup EXCEPT ![c].pc = "read", ![c].todo = manifest]
    /\ UNCHANGED <<keys, tools, records, age, lag, since, kills>>

(* ... one item after the other ...                                         *)
ReadItem(c, a) ==
    /\ lookup[c].pc = "read"
    /\ a \in lookup[c].todo
    /\ lookup' = [lookup EXCEPT ![c].todo = @ \ {a}, ![c].read[a] = keychain[a]]
    /\ UNCHANGED <<keys, tools, records, age, lag, since, kills>>

(* ... the new map, in which the clock of this moment decides on the grace, *)
(* over whatever another thread has put there meanwhile ...                 *)
Install(c) ==
    /\ lookup[c].pc = "read"
    /\ lookup[c].todo = {}
    /\ records' = UNION {HonouredOf(lookup[c].read[a]) : a \in Actors}
    /\ lag' = lookup[c].spent
    /\ lookup' = [lookup EXCEPT ![c] = [Free EXCEPT !.pc = "stamp", !.spent = lookup[c].spent]]
    /\ UNCHANGED <<keys, tools, age, since, kills>>

(* ... and its time stamp.                                                  *)
Stamp(c) ==
    /\ lookup[c].pc = "stamp"
    /\ age' = 0
    /\ lookup' = [lookup EXCEPT ![c].pc = "answer"]
    /\ UNCHANGED <<keys, tools, records, lag, since, kills>>

(* The token is looked up in the map that is there now.                     *)
Answer(c) ==
    /\ lookup[c].pc = "answer"
    /\ lookup' = [lookup EXCEPT ![c] = Free]
    /\ UNCHANGED <<keys, tools, records, age, lag, since, kills>>

(* A Keychain call raises: the request fails and the map stays.             *)
RefreshFails(c) ==
    /\ lookup[c].pc \in {"list", "read"}
    /\ lookup' = [lookup EXCEPT ![c] = Free]
    /\ UNCHANGED <<keys, tools, records, age, lag, since, kills>>

(* The bridge refreshes an empty map before it serves the first request:    *)
(* what the first lookup does.                                              *)
BridgeRestart ==
    /\ kills < MaxKills
    /\ kills' = kills + 1
    /\ records' = {} /\ age' = Expired /\ lag' = Cap
    /\ lookup' = [c \in Callers |-> Free]
    /\ UNCHANGED <<keys, tools, since>>

(* previous_expires_at comes nearer, also in a copy of the item.            *)
Aging(item) ==
    IF item # None /\ item.left > 0 THEN [item EXCEPT !.left = @ - 1] ELSE item

Later(l) ==
    [l EXCEPT !.read = [a \in Actors |-> Aging(@[a])],
              !.spent = IF l.pc = "idle" THEN 0 ELSE @ + 1]

Tick ==
    /\ \A c \in Callers : lookup[c].pc # "idle" => lookup[c].spent < Patience
    /\ keychain' = [a \in Actors |-> Aging(keychain[a])]
    /\ age' = Min(Expired, age + 1) /\ lag' = Min(Cap, lag + 1)
    /\ lookup' = [c \in Callers |-> Later(lookup[c])]
    /\ UNCHANGED <<manifest, tools, records, kills>>
    /\ Aged(1, {})

Refresh(c) ==
    \/ ListActors(c) \/ Install(c) \/ Stamp(c) \/ RefreshFails(c)
    \/ \E a \in Actors : ReadItem(c, a)

Next ==
    \/ \E t \in Tools :
          \/ \E a \in Actors, k \in Tokens : Mint(t, a, k) \/ Rotate(t, a, k)
          \/ StoreItem(t) \/ ReadManifest(t) \/ WriteManifest(t) \/ ToolKilled(t)
    \/ \E c \in Callers : Lookup(c) \/ Refresh(c) \/ Answer(c)
    \/ BridgeRestart \/ Tick

Spec == Init /\ [][Next]_vars

----------------------------------------------------------------------------
(* Properties                                                               *)

WrongAbout(k) == (k \in records) # (k \in Valid)

(* When a lookup answers, it is wrong only about a token that was minted,   *)
(* replaced, listed or dropped, or whose grace ran out, within the bound -  *)
(* although the map is read item by item while tools write, refreshes run   *)
(* at the same time, and an older map may replace a newer one and be given  *)
(* its stamp.                                                               *)
StalenessIsBounded ==
    \A c \in Callers, k \in Tokens :
        lookup[c].pc = "answer" /\ WrongAbout(k) => since[k] <= Bound

(* A token that was shown to the operator can be found by the bridge: its   *)
(* actor is on the manifest, also when a tool died half way or another one  *)
(* mints or rotates at the same time.  The one exception is an actor whom a *)
(* tool that had read the manifest earlier took off again: set_credential   *)
(* reads and writes it without a lock, and nobody notices.                  *)
ShownIsListed ==
    \A a \in Actors :
        keychain[a] # None /\ keychain[a].token \in printed =>
            a \in manifest \/ a \in dropped
=============================================================================
