----------------------------- MODULE Migrations -----------------------------
(***************************************************************************)
(* open_with_migrations for the databases of the bridge, at every start of  *)
(* the process: the SQL files that are not recorded in _migrations are run, *)
(* statement by statement (executescript in autocommit mode commits each of *)
(* them), and then recorded by an INSERT of its own.  The bridge may be     *)
(* killed between any two statements and is started again.                  *)
(***************************************************************************)
EXTENDS Naturals, Sequences

CONSTANTS
    Files,       \* the SQL files, in the order they are applied
    Script,      \* file -> its statements: [makes, guarded]; guarded is
                 \*   CREATE ... IF NOT EXISTS
    MaxKills     \* bound: how often the bridge is killed

Objects(f) == {Script[f][i].makes : i \in 1..Len(Script[f])}
AllObjects == UNION {Objects(Files[i]) : i \in 1..Len(Files)}

ASSUME MigrationsAssumption ==
    /\ Len(Files) \in Nat \ {0}
    /\ \A i \in 1..Len(Files) :
          /\ Len(Script[Files[i]]) \in Nat \ {0}
          /\ \A j \in 1..Len(Script[Files[i]]) : Script[Files[i]][j].guarded \in BOOLEAN
          /\ \A j \in 1..(i - 1) :
                Files[i] # Files[j] /\ Objects(Files[i]) \cap Objects(Files[j]) = {}
    /\ MaxKills \in Nat

VARIABLES
    objects,   \* tables and indexes that exist
    recorded,  \* the files named in _migrations
    boot,      \* the start of the bridge: the file and the statement it is at
    kills      \* number of kills so far (bounded)

vars == <<objects, recorded, boot, kills>>

Down == [pc |-> "down", file |-> 1, statement |-> 1]
File == Files[boot.file]
Statement == Script[File][boot.statement]

(* Every variable keeps its type, and every bounded counter its bound.      *)
TypeOK ==
    /\ objects \subseteq AllObjects
    /\ recorded \subseteq {Files[i] : i \in 1..Len(Files)}
    /\ boot \in [pc : {"down", "applying", "serving"}, file : 1..Len(Files), statement : Nat]
    /\ boot.statement \in 1..(Len(Script[File]) + 1)
    /\ kills \in 0..MaxKills

Init ==
    /\ objects = {} /\ recorded = {}
    /\ boot = Down
    /\ kills = 0

Applying == boot.pc = "applying"

(* The lifespan of a new bridge process opens its databases.                *)
Start ==
    /\ boot.pc = "down"
    /\ boot' = [boot EXCEPT !.pc = "applying"]
    /\ UNCHANGED <<objects, recorded, kills>>

NextFile ==
    boot' = IF boot.file < Len(Files)
            THEN [pc |-> "applying", file |-> boot.file + 1, statement |-> 1]
            ELSE [boot EXCEPT !.pc = "serving"]

SkipRecorded ==
    /\ Applying
    /\ File \in recorded
    /\ NextFile
    /\ UNCHANGED <<objects, recorded, kills>>

Pending == Applying /\ File \notin recorded /\ boot.statement <= Len(Script[File])

Exists == Statement.makes \in objects

Execute ==
    /\ Pending
    /\ ~Exists \/ Statement.guarded
    /\ objects' = objects \cup {Statement.makes}
    /\ boot' = [boot EXCEPT !.statement = @ + 1]
    /\ UNCHANGED <<recorded, kills>>

(* "table drafts already exists": the start fails.                          *)
ExecuteRaises ==
    /\ Pending
    /\ Exists /\ ~Statement.guarded
    /\ boot' = Down
    /\ UNCHANGED <<objects, recorded, kills>>

(* Mutant: the file is recorded before it has run.                          *)
Recordable_Early == Applying /\ File \notin recorded /\ boot.statement >= Len(Script[File])

Recordable == Applying /\ File \notin recorded /\ boot.statement > Len(Script[File])

Record ==
    /\ Recordable
    /\ recorded' = recorded \cup {File}
    /\ NextFile
    /\ UNCHANGED <<objects, kills>>

Kill ==
    /\ boot.pc # "down"
    /\ kills < MaxKills
    /\ kills' = kills + 1
    /\ boot' = Down
    /\ UNCHANGED <<objects, recorded>>

Apply == SkipRecorded \/ Execute \/ ExecuteRaises \/ Record

Next == Start \/ Apply \/ Kill

Spec == Init /\ [][Next]_vars

----------------------------------------------------------------------------
(* Properties                                                               *)

(* A bridge that serves has every table and index, and a recorded file was  *)
(* run to its end - however often the start was cut short.                  *)
SchemaIsComplete ==
    /\ boot.pc = "serving" => objects = AllObjects
    /\ \A f \in recorded : Objects(f) \subseteq objects

(* A file that was run, in part or in whole, and is not recorded.           *)
CutShort(f) == Objects(f) \cap objects # {} /\ f \notin recorded

(* The only file that can hold the bridge up for ever is one that was cut   *)
(* short and whose next statement has no IF NOT EXISTS (Deployment says so  *)
(* with the process tree around it).                                        *)
Rerunnable(f) == \A i \in 1..Len(Script[f]) : Script[f][i].guarded
=============================================================================
