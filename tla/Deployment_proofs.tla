-------------------------- MODULE Deployment_proofs --------------------------
(***************************************************************************)
(* What is proved of Migrations, for any list of files and statements and   *)
(* any number of kills: the type invariant, and that a bridge that serves   *)
(* has its whole schema; and of Deployment, which puts the process tree     *)
(* around it, for any set of dependencies and any number of kills, failures *)
(* and replaced secrets: the invariants of the run "deployment".            *)
(***************************************************************************)
EXTENDS Deployment, TLAPS

----------------------------------------------------------------------------
(* Migrations                                                               *)

(* A recorded file was run to its end.                                      *)
RecordedAreWhole == \A f \in recorded : Objects(f) \subseteq objects

(* The start has passed only files that are recorded, and all of them once  *)
(* it serves.                                                               *)
PassedAreRecorded ==
    /\ \A i \in 1..(boot.file - 1) : Files[i] \in recorded
    /\ boot.pc = "serving" => \A i \in 1..Len(Files) : Files[i] \in recorded

(* What the statements before the pointer make is there.                    *)
PassedExist == \A j \in 1..(boot.statement - 1) : Script[File][j].makes \in objects

(* The inductive invariant.                                                 *)
MigrationsInv == TypeOK /\ RecordedAreWhole /\ PassedAreRecorded /\ PassedExist

LEMMA MigrationsInit == Init => MigrationsInv
  <1>. SUFFICES ASSUME Init PROVE MigrationsInv
    OBVIOUS
  <1>. USE MigrationsAssumption DEF Init, Down
  <1>1. TypeOK
    BY DEF TypeOK, File
  <1>2. RecordedAreWhole /\ PassedAreRecorded /\ PassedExist
    BY DEF RecordedAreWhole, PassedAreRecorded, PassedExist
  <1>. QED BY <1>1, <1>2 DEF MigrationsInv

(* A start that has gone down has no pointer to keep.                       *)
LEMMA GoneDown ==
  ASSUME MigrationsInv, boot' = Down, UNCHANGED <<objects, recorded>>, kills' \in 0..MaxKills
  PROVE  MigrationsInv'
  <1>. USE MigrationsAssumption DEF MigrationsInv, Down
  <1>1. TypeOK'
    BY DEF TypeOK, File
  <1>2. (RecordedAreWhole /\ PassedAreRecorded /\ PassedExist)'
    BY DEF RecordedAreWhole, PassedAreRecorded, PassedExist
  <1>. QED BY <1>1, <1>2

(* The next file, or the end, is reached only past a recorded file.         *)
LEMMA FilePassed ==
  ASSUME MigrationsInv, boot.pc = "applying", NextFile, File \in recorded',
         UNCHANGED <<objects, kills>>,
         \/ UNCHANGED recorded
         \/ recorded' = recorded \cup {File} /\ Objects(File) \subseteq objects
  PROVE  MigrationsInv'
  <1>. USE MigrationsAssumption DEF MigrationsInv, NextFile
  <1>0. boot.file \in 1..Len(Files) /\ Len(Files) \in Nat
    BY DEF TypeOK
  <1>1. recorded' \subseteq {Files[i] : i \in 1..Len(Files)}
    BY <1>0 DEF TypeOK, File
  <1>2. CASE boot.file < Len(Files)
    <2>1. boot' = [pc |-> "applying", file |-> boot.file + 1, statement |-> 1]
      BY <1>2
    <2>2. boot'.file = boot.file + 1 /\ boot'.statement = 1 /\ boot'.pc = "applying"
      BY <2>1 DEF TypeOK
    <2>3. TypeOK'
      <3>1. Len(Script[Files[boot.file + 1]]) \in Nat \ {0}
        BY SMTT(20), <1>0, <1>2
      <3>2. boot' \in [pc : {"down", "applying", "serving"}, file : 1..Len(Files), statement : Nat]
        BY <1>0, <1>2, <2>1 DEF TypeOK
      <3>3. boot'.statement \in 1..(Len(Script[File']) + 1)
        BY <2>2, <3>1 DEF File
      <3>. QED BY <1>1, <3>2, <3>3 DEF TypeOK
    <2>4. PassedAreRecorded'
      BY <1>0, <2>2 DEF PassedAreRecorded, File
    <2>5. PassedExist' /\ RecordedAreWhole'
      BY <2>2 DEF PassedExist, RecordedAreWhole
    <2>. QED BY <2>3, <2>4, <2>5
  <1>3. CASE ~(boot.file < Len(Files))
    <2>1. boot' = [boot EXCEPT !.pc = "serving"] /\ boot.file = Len(Files)
      BY <1>0, <1>3
    <2>2. boot'.file = boot.file /\ boot'.statement = boot.statement /\ boot'.pc = "serving"
      BY <2>1 DEF TypeOK
    <2>3. TypeOK'
      BY <1>1, <2>1, <2>2 DEF TypeOK, File
    <2>4. PassedAreRecorded'
      BY <1>0, <2>1, <2>2 DEF PassedAreRecorded, File
    <2>5. PassedExist' /\ RecordedAreWhole'
      BY <2>2 DEF PassedExist, RecordedAreWhole, File
    <2>. QED BY <2>3, <2>4, <2>5
  <1>. QED BY <1>2, <1>3

LEMMA MigrationsStep == MigrationsInv /\ [Next]_vars => MigrationsInv'
  <1>. SUFFICES ASSUME MigrationsInv, [Next]_vars PROVE MigrationsInv'
    OBVIOUS
  <1>0. TypeOK
    BY DEF MigrationsInv
  <1>1. CASE Start
    BY <1>1, MigrationsAssumption
       DEF Start, MigrationsInv, TypeOK, RecordedAreWhole, PassedAreRecorded, PassedExist, File
  <1>2. CASE SkipRecorded
    BY <1>2, FilePassed DEF SkipRecorded, Applying
  <1>3. CASE Execute
    <2>1. boot' = [boot EXCEPT !.statement = boot.statement + 1]
      BY <1>3 DEF Execute
    <2>2. boot'.pc = boot.pc /\ boot'.file = boot.file /\ boot'.statement = boot.statement + 1
      BY <1>0, <2>1 DEF TypeOK
    <2>3. boot.statement \in 1..Len(Script[File]) /\ Len(Script[File]) \in Nat
      BY <1>0, <1>3, MigrationsAssumption DEF Execute, Pending, TypeOK, File
    <2>4. objects' = objects \cup {Script[File][boot.statement].makes}
          /\ UNCHANGED <<recorded, kills>> /\ boot.pc = "applying"
      BY <1>3 DEF Execute, Statement, Pending, Applying
    <2>5. objects' \subseteq AllObjects
      <3>1. Script[File][boot.statement].makes \in Objects(File)
        BY <2>3 DEF Objects
      <3>. QED BY <1>0, <2>4, <3>1 DEF TypeOK, AllObjects, File
    <2>6. TypeOK'
      BY <1>0, <2>1, <2>2, <2>3, <2>4, <2>5 DEF TypeOK, File
    <2>7. RecordedAreWhole' /\ PassedAreRecorded'
      BY <2>2, <2>4 DEF MigrationsInv, RecordedAreWhole, PassedAreRecorded
    <2>8. PassedExist'
      BY <2>2, <2>3, <2>4 DEF MigrationsInv, PassedExist, File
    <2>. QED BY <2>6, <2>7, <2>8 DEF MigrationsInv
  <1>4. CASE ExecuteRaises
    BY <1>0, <1>4, GoneDown DEF ExecuteRaises, TypeOK
  <1>5. CASE Record
    <2>1. boot.pc = "applying" /\ boot.statement > Len(Script[File])
      BY <1>5 DEF Record, Recordable, Applying
    <2>2. Objects(File) \subseteq objects
      <3>1. boot.statement - 1 = Len(Script[File])
        BY <1>0, <2>1, MigrationsAssumption DEF TypeOK, File
      <3>. QED BY <3>1 DEF MigrationsInv, PassedExist, Objects
    <2>. QED BY <1>5, <2>1, <2>2, FilePassed DEF Record
  <1>6. CASE Kill
    BY <1>0, <1>6, GoneDown, MigrationsAssumption DEF Kill, TypeOK
  <1>7. CASE UNCHANGED vars
    BY <1>7 DEF vars, MigrationsInv, TypeOK, RecordedAreWhole, PassedAreRecorded, PassedExist, File
  <1>. QED BY <1>1, <1>2, <1>3, <1>4, <1>5, <1>6, <1>7 DEF Next, Apply

LEMMA SchemaFromInv == MigrationsInv => SchemaIsComplete
  BY DEF MigrationsInv, TypeOK, RecordedAreWhole, PassedAreRecorded, SchemaIsComplete, AllObjects

(* Every start, cut short or not, keeps the types of the databases' state.  *)
THEOREM MigrationsTypes == Spec => []TypeOK
  BY MigrationsInit, MigrationsStep, PTL DEF Spec, MigrationsInv

(* Alone, before the process tree is put around it: a bridge that serves    *)
(* has every table and index.                                               *)
THEOREM SchemaAlone == Spec => []SchemaIsComplete
  BY MigrationsInit, MigrationsStep, SchemaFromInv, PTL DEF Spec

----------------------------------------------------------------------------
(* The process tree                                                         *)

(* The parts of the type invariant the other invariants rest on.            *)
SecretTypes ==
    /\ secret \in [redis : Versions, brain : Versions, previous : Versions]
    /\ tree \in [pc : {"down", "redis", "bridge", "gate", "watching"},
                 password : Versions, token : Versions]
    /\ redis \in Versions
    /\ client \in Versions \cup {NoClient}

(* A bridge runs inside a tree and has a client only when it serves.        *)
TreeAroundBridge ==
    /\ tree.pc = "down" => boot.pc = "down"
    /\ client # NoClient => boot.pc = "serving"

(* Redis has the password of the supervisor's start, and the client of the  *)
(* bridge one that was read at that start or later.                         *)
PasswordsInOrder ==
    /\ tree.pc = "down" => redis = 0
    /\ redis # 0 => redis = tree.password
    /\ tree.pc # "down" => tree.password <= secret.redis
    /\ client # NoClient => tree.password <= client /\ client <= secret.redis

SecretsInv == SecretTypes /\ TreeAroundBridge /\ PasswordsInOrder

(* What health asks, and what would answer badly at this moment.            *)
Asked == Probed \cup {"redis"}
Failing == {d \in Asked : IF d = "redis" THEN ~PingsRedis ELSE d \in ailing}

(* A request that nothing disturbed knows of every dependency it has asked  *)
(* what is still true of it, and only a bridge that serves answers one.     *)
HealthInv ==
    /\ health \in [pc : {"idle", "probing", "answered"}, pending : SUBSET Asked,
                   bad : SUBSET Asked, calm : BOOLEAN]
    /\ health.pc # "idle" => Serving
    /\ health.pc # "idle" /\ health.calm => health.bad = Failing \ health.pending
    /\ health.pc = "answered" => health.pending = {}

TreeInv == MigrationsInv /\ SecretsInv /\ HealthInv

USE DEF processes

LEMMA TreeStart == TreeInit => TreeInv
  <1>. SUFFICES ASSUME TreeInit PROVE TreeInv
    OBVIOUS
  <1>. USE DeploymentAssumption DEF TreeInit
  <1>1. MigrationsInv
    BY MigrationsInit
  <1>2. SecretTypes
    BY DEF SecretTypes, NoTree, Versions
  <1>3. TreeAroundBridge /\ PasswordsInOrder
    BY DEF TreeAroundBridge, PasswordsInOrder, NoTree, Init, Down
  <1>4. HealthInv
    BY DEF HealthInv, NoRequest
  <1>. QED BY <1>1, <1>2, <1>3, <1>4 DEF TreeInv, SecretsInv

----------------------------------------------------------------------------
(* The databases                                                            *)

(* Whatever happens in the tree, the databases see a step of Migrations, or *)
(* at most the end of a start without one.                                  *)
LEMMA TreeMovesDatabases ==
  ASSUME Change
  PROVE  \/ [Next]_vars
         \/ /\ boot' \in {boot, Down} /\ UNCHANGED <<objects, recorded>>
            /\ kills' = kills \/ (kills < MaxKills /\ kills' = kills + 1)
  <1>1. CASE Supervise
    BY <1>1 DEF Supervise, Build, SpawnRedis, SpawnBridge, StartBridge, SpawnBrain, RespawnRedis,
       RespawnBridge, RespawnBrain, Next
  <1>2. CASE GiveUp
    BY <1>2 DEF GiveUp, StopTree, BridgeGone
  <1>3. CASE ApplyStep
    BY <1>3 DEF ApplyStep, Next
  <1>4. CASE BuildClient
    BY <1>4 DEF BuildClient, BridgeGone
  <1>5. CASE Upset
    <2>1. CASE Replace \/ GraceOver \/ (\E d \in Probed : FallIll(d) \/ Recover(d))
      BY <2>1 DEF Replace, GraceOver, FallIll, Recover
    <2>2. CASE KillBridge
      BY <2>2 DEF KillBridge, Next
    <2>3. CASE StopSupervisor
      BY <2>3 DEF StopSupervisor, StopTree, BridgeGone
    <2>4. CASE Crash
      BY <2>4 DEF Crash
    <2>. QED BY <1>5, <2>1, <2>2, <2>3, <2>4 DEF Upset
  <1>. QED BY <1>1, <1>2, <1>3, <1>4, <1>5 DEF Change

LEMMA DatabasesStep == MigrationsInv /\ Change => MigrationsInv'
  <1>. SUFFICES ASSUME MigrationsInv, Change PROVE MigrationsInv'
    OBVIOUS
  <1>1. CASE [Next]_vars
    BY <1>1, MigrationsStep
  <1>2. CASE /\ boot' \in {boot, Down} /\ UNCHANGED <<objects, recorded>>
             /\ kills' = kills \/ (kills < MaxKills /\ kills' = kills + 1)
    <2>1. kills' \in 0..MaxKills
      BY <1>2, MigrationsAssumption DEF MigrationsInv, TypeOK
    <2>2. CASE boot' = Down
      BY <1>2, <2>1, <2>2, GoneDown
    <2>3. CASE boot' = boot
      BY <1>2, <2>1, <2>3
         DEF MigrationsInv, TypeOK, RecordedAreWhole, PassedAreRecorded, PassedExist, File
    <2>. QED BY <1>2, <2>2, <2>3
  <1>. QED BY <1>1, <1>2, TreeMovesDatabases

----------------------------------------------------------------------------
(* The secrets                                                              *)

LEMMA SecretsStep == SecretsInv /\ Change => SecretsInv'
  <1>. SUFFICES ASSUME SecretsInv, Change PROVE SecretsInv'
    OBVIOUS
  <1>. USE DeploymentAssumption
           DEF SecretsInv, SecretTypes, TreeAroundBridge, PasswordsInOrder, Versions
  <1>1. CASE Build
    <2>. USE <1>1 DEF Build, EnsureRedisPassword, DefaultChildren
    <2>1. secret' = [secret EXCEPT !.redis = IF secret.redis = 0 THEN 1 ELSE secret.redis]
      OBVIOUS
    <2>2. secret'.redis = IF secret.redis = 0 THEN 1 ELSE secret.redis
      BY <2>1
    <2>3. client = NoClient /\ redis = 0
      BY DEF vars
    <2>. QED BY <2>1, <2>2, <2>3 DEF vars
  <1>2. CASE SpawnRedis \/ RespawnRedis
    BY <1>2 DEF SpawnRedis, RespawnRedis, Respawned, vars
  <1>3. CASE SpawnBridge \/ RespawnBridge
    BY <1>3 DEF SpawnBridge, RespawnBridge, StartBridge, Start, vars
  <1>4. CASE SpawnBrain \/ RespawnBrain
    BY <1>4 DEF SpawnBrain, RespawnBrain, vars
  <1>5. CASE GiveUp \/ StopSupervisor
    BY <1>5 DEF GiveUp, StopSupervisor, StopTree, BridgeGone, NoTree, Down
  <1>6. CASE ApplyStep
    <2>1. boot.pc = "applying"
      BY <1>6 DEF ApplyStep, Apply, SkipRecorded, Execute, ExecuteRaises, Record, Pending,
         Recordable, Applying
    <2>. QED BY <1>6, <2>1 DEF ApplyStep
  <1>7. CASE BuildClient
    BY <1>7 DEF BuildClient, BridgeGone, Down, vars
  <1>8. CASE Replace
    <2>1. CASE secret' = [secret EXCEPT !.redis = secret.redis + 1] /\ secret.redis \in 1..(MaxVersions - 1)
      BY <1>8, <2>1 DEF Replace, vars
    <2>2. ASSUME NEW previous \in {0, secret.brain}, secret.brain < MaxVersions,
                 secret' = [redis |-> secret.redis, brain |-> secret.brain + 1, previous |-> previous]
          PROVE  SecretsInv'
      BY <1>8, <2>2 DEF Replace, vars
    <2>. QED BY <1>8, <2>1, <2>2 DEF Replace
  <1>9. CASE GraceOver
    BY <1>9 DEF GraceOver, vars
  <1>10. CASE KillBridge
    BY <1>10 DEF KillBridge, Kill, Down
  <1>11. CASE Crash
    BY <1>11 DEF Crash
  <1>12. CASE \E d \in Probed : FallIll(d) \/ Recover(d)
    BY <1>12 DEF FallIll, Recover, vars
  <1>. QED BY <1>1, <1>2, <1>3, <1>4, <1>5, <1>6, <1>7, <1>8, <1>9, <1>10, <1>11, <1>12
        DEF Change, Supervise, Upset

(* If the bridge cannot use a Redis that runs, the password was replaced    *)
(* after the supervisor had built its children.                             *)
LEMMA BusLossFromInv == SecretsInv => BusLossIsExplained
  BY DeploymentAssumption DEF SecretsInv, SecretTypes, TreeAroundBridge, PasswordsInOrder,
     BusLossIsExplained, Serving, BusWorks, Versions

----------------------------------------------------------------------------
(* Health                                                                   *)

LEMMA ChangeDisturbsHealth == HealthInv /\ Meanwhile => HealthInv'
  <1>. SUFFICES ASSUME HealthInv, Meanwhile PROVE HealthInv'
    OBVIOUS
  <1>1. CASE Serving'
    <2>1. health' = [health EXCEPT !.calm = FALSE]
      BY <1>1 DEF Meanwhile
    <2>. QED BY <1>1, <2>1 DEF HealthInv
  <1>2. CASE ~Serving'
    <2>1. health' = NoRequest
      BY <1>2 DEF Meanwhile
    <2>. QED BY <2>1 DEF HealthInv, NoRequest
  <1>. QED BY <1>1, <1>2

LEMMA RequestStep ==
  ASSUME HealthInv, Request, UNCHANGED <<vars, secret, processes, ailing, illness>>
  PROVE  HealthInv'
  <1>0. Serving' = Serving /\ Failing' = Failing
    BY DEF Serving, vars, Failing, PingsRedis, BusWorks
  <1>1. CASE Ask
    BY <1>0, <1>1 DEF Ask, HealthInv, Asked, Failing
  <1>2. ASSUME NEW d \in Asked, Probe(d) PROVE HealthInv'
    <2>. DEFINE ok == IF d = "redis" THEN PingsRedis ELSE d \notin ailing
    <2>1. /\ health.pc = "probing" /\ d \in health.pending
          /\ health' = [health EXCEPT !.pending = health.pending \ {d},
                                      !.bad = IF ok THEN health.bad ELSE health.bad \cup {d}]
      BY <1>2 DEF Probe
    <2>2. /\ health'.pc = health.pc /\ health'.calm = health.calm
          /\ health'.pending = health.pending \ {d}
          /\ health'.bad = IF ok THEN health.bad ELSE health.bad \cup {d}
      BY <2>1 DEF HealthInv
    <2>3. ok <=> d \notin Failing
      BY DEF Failing
    <2>4. health' \in [pc : {"idle", "probing", "answered"}, pending : SUBSET Asked,
                       bad : SUBSET Asked, calm : BOOLEAN]
      BY <2>1 DEF HealthInv
    <2>5. health.calm => health'.bad = Failing \ health'.pending
      BY <2>1, <2>2, <2>3 DEF HealthInv
    <2>. QED BY <1>0, <2>1, <2>2, <2>4, <2>5 DEF HealthInv
  <1>3. CASE Answer
    BY <1>0, <1>3 DEF Answer, HealthInv
  <1>4. CASE Received
    BY <1>4 DEF Received, HealthInv, NoRequest
  <1>. QED BY <1>1, <1>2, <1>3, <1>4 DEF Request, Asked

(* An undisturbed answer says ok exactly if critical dependencies, bus and  *)
(* schema are well.                                                         *)
LEMMA HealthFromInv == MigrationsInv /\ HealthInv => HealthIsTrue
  <1>. SUFFICES ASSUME MigrationsInv, HealthInv, health.pc = "answered", health.calm
                PROVE  Rollup(health.bad) <=> /\ ailing \cap Critical = {}
                                              /\ BusWorks
                                              /\ objects = AllObjects
    BY DEF HealthIsTrue
  <1>1. health.bad = Failing
    BY DEF HealthInv
  <1>2. objects = AllObjects
    BY SchemaFromInv DEF HealthInv, SchemaIsComplete, Serving
  <1>3. PingsRedis <=> BusWorks
    BY DEF PingsRedis, BusWorks
  <1>4. Rollup(Failing) <=> ailing \cap Critical = {} /\ PingsRedis
    BY DeploymentAssumption DEF Rollup, Failing, Asked
  <1>. QED BY <1>1, <1>2, <1>3, <1>4

----------------------------------------------------------------------------
(* The theorems                                                             *)

LEMMA TreeStep == TreeInv /\ [TreeNext]_treeVars => TreeInv'
  <1>. SUFFICES ASSUME TreeInv, [TreeNext]_treeVars PROVE TreeInv'
    OBVIOUS
  <1>1. CASE Change /\ Meanwhile
    BY <1>1, DatabasesStep, SecretsStep, ChangeDisturbsHealth DEF TreeInv
  <1>2. CASE Request /\ UNCHANGED <<vars, secret, processes, ailing, illness>>
    <2>1. MigrationsInv'
      BY <1>2, MigrationsStep DEF TreeInv
    <2>2. SecretsInv'
      BY <1>2 DEF TreeInv, SecretsInv, SecretTypes, TreeAroundBridge, PasswordsInOrder, vars
    <2>. QED BY <1>2, <2>1, <2>2, RequestStep DEF TreeInv
  <1>3. CASE UNCHANGED treeVars
    <2>1. MigrationsInv'
      BY <1>3, MigrationsStep DEF TreeInv, treeVars
    <2>2. SecretsInv'
      BY <1>3 DEF TreeInv, SecretsInv, SecretTypes, TreeAroundBridge, PasswordsInOrder, vars, treeVars
    <2>3. HealthInv'
      BY <1>3 DEF TreeInv, HealthInv, treeVars, vars, Serving, Failing, PingsRedis, BusWorks
    <2>. QED BY <2>1, <2>2, <2>3 DEF TreeInv
  <1>. QED BY <1>1, <1>2, <1>3 DEF TreeNext

THEOREM TreeInductive == TreeSpec => []TreeInv
  BY TreeStart, TreeStep, PTL DEF TreeSpec

(* A bridge that serves has its schema, in a tree that is killed, given up  *)
(* and started again.                                                       *)
THEOREM Schema == TreeSpec => []SchemaIsComplete
  BY TreeInductive, SchemaFromInv, PTL DEF TreeInv

(* The only way to lose the bus to a Redis that runs is a replaced          *)
(* password.                                                                *)
THEOREM BusLoss == TreeSpec => []BusLossIsExplained
  BY TreeInductive, BusLossFromInv, PTL DEF TreeInv

(* GET /v1/health tells the truth.                                          *)
THEOREM HealthTrue == TreeSpec => []HealthIsTrue
  BY TreeInductive, HealthFromInv, PTL DEF TreeInv
=============================================================================
