----------------------------- MODULE Deployment -----------------------------
(***************************************************************************)
(* The process tree of one Mac: launchd keeps the supervisor alive, the     *)
(* supervisor starts Redis, the bridge and the brain, and the bridge opens  *)
(* its databases (Migrations) before it serves.  Three processes read the   *)
(* same secrets at different times: the supervisor when it builds its list  *)
(* of children, the bridge at each of its own starts, and an operator may   *)
(* replace them in between.  How a child is stopped or given up on is the   *)
(* business of Supervisor; here a stop takes the whole tree in one step.    *)
(* Secrets are counted by version; 0 is a secret that does not exist yet.   *)
(***************************************************************************)
EXTENDS Migrations

CONSTANTS
    Probed,      \* dependencies health asks, besides the bus and the databases
    Critical,    \* those of them in _CRITICAL_DEPS
    NoClient,    \* the bridge has not built its Redis client yet
    MaxVersions, \* bound: how often a secret is replaced
    MaxIllness   \* bound: how often a probed dependency fails

ASSUME DeploymentAssumption ==
    /\ "keychain" \in Critical /\ Critical \subseteq Probed /\ "redis" \notin Probed
    /\ MaxVersions \in Nat \ {0} /\ MaxIllness \in Nat
    /\ NoClient \notin 0..MaxVersions

VARIABLES
    secret,   \* Keychain: provider.redis, brain.<agent> and its token in grace
    tree,     \* the supervisor: the child it is at, and what it gives its children
    redis,    \* the password redis-server asks for, 0 if it does not run
    client,   \* the password of app.state.redis_client
    brain,    \* the token of the running brain, 0 if it does not run
    ailing,   \* the probed dependencies that do not answer
    illness,  \* number of failures so far (bounded)
    health    \* one request for /v1/health

processes == <<tree, redis, client, brain>>
treeVars == <<vars, secret, processes, ailing, illness, health>>

NoTree == [pc |-> "down", password |-> 0, token |-> 0]
NoRequest == [pc |-> "idle", pending |-> {}, bad |-> {}, calm |-> FALSE]
Versions == 0..MaxVersions

(* Every variable keeps its type, and every bounded counter its bound.      *)
TreeTypeOK ==
    /\ TypeOK
    /\ secret \in [redis : Versions, brain : Versions, previous : Versions]
    /\ tree \in [pc : {"down", "redis", "bridge", "gate", "watching"},
                 password : Versions, token : Versions]
    /\ redis \in Versions /\ brain \in Versions
    /\ client \in Versions \cup {NoClient}
    /\ ailing \subseteq Probed /\ illness \in 0..MaxIllness
    /\ health \in [pc : {"idle", "probing", "answered"}, pending : SUBSET (Probed \cup {"redis"}),
                   bad : SUBSET (Probed \cup {"redis"}), calm : BOOLEAN]

TreeInit ==
    /\ Init
    /\ secret = [redis |-> 0, brain |-> 0, previous |-> 0]
    /\ tree = NoTree /\ redis = 0 /\ client = NoClient /\ brain = 0
    /\ ailing = {} /\ illness = 0
    /\ health = NoRequest

KeychainAnswers == "keychain" \notin ailing
Serving == boot.pc = "serving" /\ client # NoClient

(* Redis authenticates a connection with the password it was started with.  *)
BusWorks == redis # 0 /\ client = redis
Admitted == brain # 0 /\ brain \in {secret.brain, secret.previous}

----------------------------------------------------------------------------
(* The supervisor                                                           *)

(* Mutant: the generated password is not stored.                            *)
EnsureRedisPassword_Kept == secret

EnsureRedisPassword == [secret EXCEPT !.redis = IF @ = 0 THEN 1 ELSE @]

BrainTokenExists == secret.brain # 0

(* The children with the arguments and the environment they keep.           *)
DefaultChildren ==
    [pc |-> "redis", token |-> secret.brain,
     password |-> IF secret.redis = 0 THEN 1 ELSE secret.redis]

(* main builds the list of children once, with the secrets of that moment;  *)
(* without a token for the brain it exits and launchd tries again.          *)
Build ==
    /\ tree.pc = "down"
    /\ KeychainAnswers
    /\ secret' = EnsureRedisPassword
    /\ tree' = IF BrainTokenExists THEN DefaultChildren ELSE tree
    /\ UNCHANGED <<vars, redis, client, brain, ailing, illness>>

SpawnRedis ==
    /\ tree.pc = "redis"
    /\ redis' = tree.password
    /\ tree' = [tree EXCEPT !.pc = "bridge"]
    /\ UNCHANGED <<vars, secret, client, brain, ailing, illness>>

(* A bridge whose first read of the Keychain fails is gone at once.         *)
StartBridge == IF KeychainAnswers THEN Start ELSE UNCHANGED vars

SpawnBridge ==
    /\ tree.pc = "bridge"
    /\ StartBridge
    /\ tree' = [tree EXCEPT !.pc = "gate"]
    /\ UNCHANGED <<secret, redis, client, brain, ailing, illness>>

SpawnBrain ==
    /\ tree.pc = "gate"
    /\ Serving
    /\ brain' = tree.token
    /\ tree' = [tree EXCEPT !.pc = "watching"]
    /\ UNCHANGED <<vars, secret, redis, client, ailing, illness>>

(* Mutant: a crashed Redis stays down.                                      *)
Respawned_Never == FALSE

Respawned == redis' = tree.password

(* A restart uses the arguments of the first start.                         *)
RespawnRedis ==
    /\ tree.pc = "watching"
    /\ redis = 0
    /\ Respawned
    /\ UNCHANGED <<vars, secret, tree, client, brain, ailing, illness>>

RespawnBridge ==
    /\ tree.pc = "watching"
    /\ KeychainAnswers /\ Start
    /\ UNCHANGED <<secret, processes, ailing, illness>>

RespawnBrain ==
    /\ tree.pc = "watching"
    /\ brain = 0
    /\ brain' = tree.token
    /\ UNCHANGED <<vars, secret, tree, redis, client, ailing, illness>>

BridgeGone == boot' = Down /\ client' = NoClient /\ UNCHANGED <<objects, recorded>>

StopTree ==
    /\ tree' = NoTree /\ redis' = 0 /\ brain' = 0
    /\ BridgeGone
    /\ UNCHANGED <<secret, ailing, illness>>

(* A gate that stays closed because its child is dead, or a crash loop: the *)
(* supervisor stops everything and exits, and launchd starts it again.      *)
GiveUp ==
    /\ \/ tree.pc = "bridge" /\ redis = 0
       \/ tree.pc = "gate" /\ boot.pc = "down"
       \/ tree.pc = "watching" /\ (redis = 0 \/ boot.pc = "down" \/ brain = 0)
    /\ StopTree
    /\ UNCHANGED kills

----------------------------------------------------------------------------
(* The lifespan of the bridge: the migrations, then its clients             *)

ApplyStep == Apply /\ UNCHANGED <<secret, processes, ailing, illness>>

(* build_redis_client reads the password; a Keychain that does not answer   *)
(* ends the start.  The startup event is best effort and changes nothing.   *)
BuildClient ==
    /\ boot.pc = "serving" /\ client = NoClient
    /\ IF KeychainAnswers
       THEN client' = secret.redis /\ UNCHANGED vars
       ELSE BridgeGone /\ UNCHANGED kills
    /\ UNCHANGED <<secret, tree, redis, brain, ailing, illness>>

----------------------------------------------------------------------------
(* The operator's tools, and what goes wrong                                *)

Replace ==
    /\ KeychainAnswers
    /\ \/ /\ secret.redis \in 1..(MaxVersions - 1)
          /\ secret' = [secret EXCEPT !.redis = @ + 1]
       \/ /\ secret.brain < MaxVersions
          /\ \E previous \in {0, secret.brain} :     \* minted or rotated
                secret' =
                   [redis |-> secret.redis, brain |-> secret.brain + 1, previous |-> previous]
    /\ UNCHANGED <<vars, processes, ailing, illness>>

GraceOver ==
    /\ secret.previous # 0
    /\ secret' = [secret EXCEPT !.previous = 0]
    /\ UNCHANGED <<vars, processes, ailing, illness>>

KillBridge ==
    /\ Kill
    /\ client' = NoClient
    /\ UNCHANGED <<secret, tree, redis, brain, ailing, illness>>

Crash ==
    /\ kills < MaxKills
    /\ kills' = kills + 1
    /\ \/ redis # 0 /\ redis' = 0 /\ UNCHANGED brain
       \/ brain # 0 /\ brain' = 0 /\ UNCHANGED redis
    /\ UNCHANGED <<objects, recorded, boot, secret, tree, client, ailing, illness>>

(* A signal, or the end of the supervisor: launchd ends its process group.  *)
StopSupervisor ==
    /\ tree.pc # "down"
    /\ kills < MaxKills
    /\ kills' = kills + 1
    /\ StopTree

FallIll(d) ==
    /\ d \notin ailing /\ illness < MaxIllness
    /\ ailing' = ailing \cup {d} /\ illness' = illness + 1
    /\ UNCHANGED <<vars, secret, processes>>

Recover(d) ==
    /\ d \in ailing
    /\ ailing' = ailing \ {d}
    /\ UNCHANGED <<vars, secret, processes, illness>>

----------------------------------------------------------------------------
(* GET /v1/health                                                           *)

(* Mutant: a client is as good as a connection.                             *)
PingsRedis_Configured == client # 0

PingsRedis == client # 0 /\ BusWorks

(* The status is ok if no critical dependency is down or degraded.          *)
Rollup(bad) == bad \cap (Critical \cup {"redis"}) = {}

Ask ==
    /\ Serving /\ health.pc = "idle"
    /\ health' = [pc |-> "probing", pending |-> Probed \cup {"redis"}, bad |-> {},
                  calm |-> TRUE]

(* The probes run concurrently and see the world at different moments.      *)
Probe(d) ==
    /\ health.pc = "probing" /\ d \in health.pending
    /\ LET ok == IF d = "redis" THEN PingsRedis ELSE d \notin ailing
       IN  health' = [health EXCEPT !.pending = @ \ {d},
                                    !.bad = IF ok THEN @ ELSE @ \cup {d}]

Answer ==
    /\ health.pc = "probing" /\ health.pending = {}
    /\ health' = [health EXCEPT !.pc = "answered"]

Received ==
    /\ health.pc = "answered"
    /\ health' = NoRequest

(* Whatever happens meanwhile disturbs a request, and a dead bridge ends it. *)
Meanwhile ==
    health' = IF Serving' THEN [health EXCEPT !.calm = FALSE] ELSE NoRequest

Supervise ==
    \/ Build \/ SpawnRedis \/ SpawnBridge \/ SpawnBrain
    \/ RespawnRedis \/ RespawnBridge \/ RespawnBrain
Upset ==
    \/ Replace \/ GraceOver \/ KillBridge \/ Crash \/ StopSupervisor
    \/ \E d \in Probed : FallIll(d) \/ Recover(d)
Change == Supervise \/ GiveUp \/ ApplyStep \/ BuildClient \/ Upset

Request == Ask \/ (\E d \in Probed \cup {"redis"} : Probe(d)) \/ Answer \/ Received

TreeNext ==
    \/ Change /\ Meanwhile
    \/ Request /\ UNCHANGED <<vars, secret, processes, ailing, illness>>

TreeSpec == TreeInit /\ [][TreeNext]_treeVars

(* launchd (KeepAlive), the supervisor and the event loop go on; nothing is *)
(* assumed of the operator, of failures, or of what has failed.             *)
FairTreeSpec ==
    /\ TreeSpec
    /\ WF_treeVars((Build \/ SpawnRedis \/ SpawnBridge \/ SpawnBrain) /\ Meanwhile)
    /\ WF_treeVars(RespawnRedis /\ Meanwhile)
    /\ WF_treeVars(RespawnBridge /\ Meanwhile)
    /\ WF_treeVars(RespawnBrain /\ Meanwhile)
    /\ WF_treeVars(GiveUp /\ tree.pc # "watching" /\ Meanwhile)
    /\ WF_treeVars((ApplyStep \/ BuildClient) /\ Meanwhile)

----------------------------------------------------------------------------
(* Properties                                                               *)

(* If Redis runs and the bridge cannot use it, the password was replaced    *)
(* after the supervisor built its children.  (Then every restart of Redis   *)
(* repeats the old password and every restart of the bridge reads the new   *)
(* one; only a restart of the supervisor brings them together.)             *)
BusLossIsExplained ==
    Serving /\ redis # 0 /\ ~BusWorks => secret.redis > tree.password

(* When nothing changes during a request, health says ok exactly if the     *)
(* critical dependencies answer, events can be published and the schema is  *)
(* there: a bus lost to a replaced password is reported, a provider that is *)
(* down is not held against the bridge.                                     *)
HealthIsTrue ==
    health.pc = "answered" /\ health.calm =>
        (Rollup(health.bad) <=>
            /\ ailing \cap Critical = {}
            /\ BusWorks
            /\ objects = AllObjects)

Settled == Serving /\ BusWorks /\ Admitted
Replaced == secret.redis > tree.password \/ secret.brain > tree.token
Blocked == \E i \in 1..Len(Files) : CutShort(Files[i]) /\ ~Rerunnable(Files[i])

(* However the start is cut short, killed or given up, in the end the       *)
(* bridge serves, the bus works and the brain is admitted - unless a        *)
(* migration without IF NOT EXISTS was cut short, a secret was replaced     *)
(* while the tree ran, the brain has no token, or a dependency stays down.  *)
TreeComesUp ==
    \/ <>[]Settled \/ <>[]Blocked \/ <>[](tree.pc # "down" /\ Replaced)
    \/ <>[](secret.brain = 0) \/ <>[](ailing # {})
=============================================================================
