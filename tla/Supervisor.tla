----------------------------- MODULE Supervisor -----------------------------
(***************************************************************************)
(* The process supervisor: it starts Redis, the bridge and the brain in     *)
(* order, restarts a child that exits, gives up on a crash loop, and stops  *)
(* everything on a signal.  One asyncio process: the coroutine run()        *)
(* (variable main), and one _watch coroutine per child (variable task).     *)
(* Time is counted in units; the ages of past crashes stop growing once     *)
(* they have left the window, so that nothing here grows for ever.          *)
(***************************************************************************)
EXTENDS Naturals, Sequences, FiniteSets

CONSTANTS
    Order,          \* the children, in the order they are started
    Gated,          \* those with a ready_check
    Threshold,      \* _POISON_PILL_THRESHOLD
    Window,         \* _POISON_PILL_WINDOW_S
    BackoffInitial, \* _BACKOFF_INITIAL_S
    BackoffMax,     \* _BACKOFF_MAX_S
    GateTimeout,    \* _HEALTH_TIMEOUT_S
    Grace,          \* _SHUTDOWN_GRACE_S
    MaxCrashes,     \* bound: how many exits the environment may cause
    MaxDelays,      \* bound: for how many units a ready watcher may be held up
    MaxSpawnErrors  \* bound: how often a spawn may raise OSError

Children == {Order[i] : i \in 1..Len(Order)}

ASSUME SupervisorAssumption ==
    /\ Len(Order) \in Nat \ {0}
    /\ \A i, j \in 1..Len(Order) : Order[i] = Order[j] => i = j
    /\ Gated \subseteq Children
    /\ {Threshold, Window, BackoffInitial, BackoffMax, GateTimeout, Grace}
          \subseteq Nat \ {0}
    /\ BackoffInitial <= BackoffMax
    /\ {MaxCrashes, MaxDelays, MaxSpawnErrors} \subseteq Nat

VARIABLES
    main,      \* run(): its phase, the child it is at, what it does there, its timer
    exit,      \* the exit code, or "none"
    proc,      \* the child processes: "none", "up", "ready" (it listens), "dead"
    task,      \* the _watch coroutines
    left,      \* what is left of a watcher's backoff sleep
    backoff,   \* Child.backoff_s
    crashes,   \* Child.restart_history, as ages
    restarts,  \* history: the ages of the restarts within the window
    shutdown,  \* shutdown_event
    faults     \* bounded: exits of children, delays, failed spawns

vars == <<main, exit, proc, task, left, backoff, crashes, restarts, shutdown, faults>>
watchers == <<task, left, backoff, crashes, restarts>>

Alive == {"up", "ready"}
Running == {c \in Children : proc[c] \in Alive}
Child == Order[main.at]

(* Every variable keeps its type, and every bounded counter its bound.      *)
TypeOK ==
    /\ main \in [phase : {"starting", "watching", "stopping", "exited", "failed"},
                 at : 0..Len(Order),
                 step : {"spawn", "check", "probe", "watch", "term", "grace", "end"},
                 timer : 0..(IF GateTimeout > Grace THEN GateTimeout ELSE Grace)]
    /\ exit \in {"none", "ok", "health_timeout", "poison_pill"}
    /\ proc \in [Children -> {"none", "dead"} \cup Alive]
    /\ task \in [Children -> {"none", "watching", "backoff", "spawning", "done"}]
    /\ left \in [Children -> 0..BackoffMax]
    /\ backoff \in [Children -> 1..BackoffMax]
    /\ crashes \in [Children -> Seq(0..Window)]
    /\ restarts \in [Children -> Seq(0..Window)]
    /\ shutdown \in BOOLEAN
    /\ faults \in [crash : 0..MaxCrashes, late : 0..MaxDelays, spawn : 0..MaxSpawnErrors]

Init ==
    /\ main = [phase |-> "starting", at |-> 1, step |-> "spawn", timer |-> 0]
    /\ exit = "none"
    /\ proc = [c \in Children |-> "none"]
    /\ task = [c \in Children |-> "none"]
    /\ left = [c \in Children |-> 0]
    /\ backoff = [c \in Children |-> BackoffInitial]
    /\ crashes = [c \in Children |-> <<>>]
    /\ restarts = [c \in Children |-> <<>>]
    /\ shutdown = FALSE
    /\ faults = [crash |-> 0, late |-> 0, spawn |-> 0]

----------------------------------------------------------------------------
(* run(): startup                                                           *)

(* Mutant: stopping begins at the first child.                              *)
StopAll_First == [phase |-> "stopping", at |-> 1, step |-> "term", timer |-> 0]

StopAll == [phase |-> "stopping", at |-> Len(Order), step |-> "term", timer |-> 0]

(* The next child is started, or the watch phase begins.                    *)
GoOn ==
    IF main.at < Len(Order)
    THEN /\ main' = [main EXCEPT !.at = @ + 1, !.step = "spawn"]
         /\ UNCHANGED task
    ELSE /\ main' = [main EXCEPT !.phase = "watching", !.step = "watch"]
         /\ task' = [c \in Children |-> "watching"]

SpawnNext ==
    /\ main.step = "spawn"
    /\ proc' = [proc EXCEPT ![Child] = "up"]
    /\ IF Child \in Gated
       THEN /\ main' = [main EXCEPT !.step = "check", !.timer = GateTimeout]
            /\ UNCHANGED task
       ELSE GoOn
    /\ UNCHANGED <<exit, left, backoff, crashes, restarts, shutdown, faults>>

(* Mutant: the gate polls on after the signal and after its deadline.       *)
GateCheck_Deaf ==
    /\ main.step = "check"
    /\ main' = [main EXCEPT !.step = "probe", !.timer = GateTimeout]
    /\ UNCHANGED exit
    /\ UNCHANGED <<proc, watchers, shutdown, faults>>

(* _wait_ready looks at the shutdown event, then awaits the probe.          *)
GateCheck ==
    /\ main.step = "check"
    /\ IF shutdown
       THEN main' = StopAll /\ exit' = "ok"
       ELSE main' = [main EXCEPT !.step = "probe"] /\ UNCHANGED exit
    /\ UNCHANGED <<proc, watchers, shutdown, faults>>

GateProbe ==
    /\ main.step = "probe"
    /\ \/ /\ proc[Child] = "ready"
          /\ GoOn
          /\ UNCHANGED exit
       \/ /\ proc[Child] # "ready"
          /\ IF main.timer = 0
             THEN main' = StopAll /\ exit' = "health_timeout"
             ELSE main' = [main EXCEPT !.step = "check"] /\ UNCHANGED exit
          /\ UNCHANGED task
    /\ UNCHANGED <<proc, left, backoff, crashes, restarts, shutdown, faults>>

----------------------------------------------------------------------------
(* _watch                                                                   *)

WatchShutdown(c) ==
    /\ task[c] = "watching"
    /\ shutdown
    /\ task' = [task EXCEPT ![c] = "done"]
    /\ UNCHANGED <<main, exit, proc, left, backoff, crashes, restarts, shutdown, faults>>

(* What is left of a history when all outside the window is dropped.  The   *)
(* clock is monotonic, so that a history is in order and its old part comes *)
(* first (TLC would find no such place otherwise).                          *)
Within(ages) ==
    LET old == CHOOSE n \in 0..Len(ages) :
                  \A i \in 1..Len(ages) : ages[i] < Window <=> i > n
    IN  SubSeq(ages, old + 1, Len(ages))

(* Mutant: old crashes are never forgotten.                                 *)
Recent_All(c) == crashes[c]

Recent(c) == Within(crashes[c])

(* Mutant: one crash too many is forgiven.                                  *)
GivesUp_Late(c) == Len(Recent(c)) + 1 > Threshold

GivesUp(c) == Len(Recent(c)) + 1 >= Threshold

(* The child exited.  The third crash within the window raises; the task    *)
(* group then cancels the other watchers, whatever they are doing, and      *)
(* run() stops everything.  (When exit and signal arrive together either    *)
(* may be seen.)                                                            *)
WatchExit(c) ==
    /\ task[c] = "watching"
    /\ proc[c] = "dead"
    /\ crashes' = [crashes EXCEPT ![c] = Append(Recent(c), 0)]
    /\ IF GivesUp(c)
       THEN /\ task' = [d \in Children |-> "done"]
            /\ main' = StopAll /\ exit' = "poison_pill"
            /\ UNCHANGED left
       ELSE /\ task' = [task EXCEPT ![c] = "backoff"]
            /\ left' = [left EXCEPT ![c] = backoff[c]]
            /\ UNCHANGED <<main, exit>>
    /\ UNCHANGED <<proc, backoff, restarts, shutdown, faults>>

(* Mutant: the watcher ends instead of restarting its child.                *)
AfterBackoff_Stop == "done"

AfterBackoff == IF shutdown THEN "done" ELSE "spawning"

NextBackoff(b) == IF 2 * b < BackoffMax THEN 2 * b ELSE BackoffMax

(* The sleep is not cut short by the shutdown event.                        *)
BackoffOver(c) ==
    /\ task[c] = "backoff"
    /\ left[c] = 0
    /\ task' = [task EXCEPT ![c] = AfterBackoff]
    /\ backoff' = [backoff EXCEPT ![c] = NextBackoff(@)]
    /\ UNCHANGED <<main, exit, proc, left, crashes, restarts, shutdown, faults>>

(* The restart: no ready_check, whatever the child depends on.              *)
Respawn(c) ==
    /\ task[c] = "spawning"
    /\ proc' = [proc EXCEPT ![c] = "up"]
    /\ restarts' = [restarts EXCEPT ![c] = Append(Within(@), 0)]
    /\ task' = [task EXCEPT ![c] = IF shutdown THEN "done" ELSE "watching"]
    /\ UNCHANGED <<main, exit, left, backoff, crashes, shutdown, faults>>

(* spawn raises OSError (no more processes, the binary is being replaced).  *)
(* It is no SupervisorError: run() ends without stopping anything.          *)
SpawnRaises ==
    /\ \/ main.step = "spawn"
       \/ \E c \in Children : task[c] = "spawning"
    /\ faults.spawn < MaxSpawnErrors
    /\ faults' = [faults EXCEPT !.spawn = @ + 1]
    /\ main' = [main EXCEPT !.phase = "failed", !.step = "end"]
    /\ task' = [c \in Children |-> "done"]
    /\ UNCHANGED <<exit, proc, left, backoff, crashes, restarts, shutdown>>

----------------------------------------------------------------------------
(* run(): shutdown                                                          *)

(* Mutant: stopping begins while a watcher still sleeps.                    *)
WatchersDone_Any == \E c \in Children : task[c] = "done"

WatchersDone == \A c \in Children : task[c] = "done"

LeaveWatch ==
    /\ main.phase = "watching"
    /\ WatchersDone
    /\ main' = StopAll /\ exit' = "ok"
    /\ UNCHANGED <<proc, watchers, shutdown, faults>>

StopNext == IF main.at > 1
            THEN [main EXCEPT !.at = @ - 1, !.step = "term", !.timer = 0]
            ELSE [main EXCEPT !.phase = "exited", !.at = 0, !.step = "end", !.timer = 0]

(* _stop: nothing to do for a child that never started or has exited;       *)
(* otherwise SIGTERM and a grace period.                                    *)
StopTerminate ==
    /\ main.step = "term"
    /\ main' = IF Child \in Running
               THEN [main EXCEPT !.step = "grace", !.timer = Grace]
               ELSE StopNext
    /\ UNCHANGED <<exit, proc, watchers, shutdown, faults>>

StopExited ==
    /\ main.step = "grace"
    /\ proc[Child] = "dead"
    /\ main' = StopNext
    /\ UNCHANGED <<exit, proc, watchers, shutdown, faults>>

(* Mutant: the grace period ends without SIGKILL.                           *)
AfterGrace_Left == proc

AfterGrace == [proc EXCEPT ![Child] = "dead"]

StopKill ==
    /\ main.step = "grace"
    /\ main.timer = 0
    /\ proc[Child] \in Alive
    /\ proc' = AfterGrace
    /\ main' = StopNext
    /\ UNCHANGED <<exit, watchers, shutdown, faults>>

----------------------------------------------------------------------------
(* The environment: children listen, crash, obey SIGTERM; time; a signal    *)

Listen(c) ==
    /\ proc[c] = "up"
    /\ proc' = [proc EXCEPT ![c] = "ready"]
    /\ UNCHANGED <<main, exit, watchers, shutdown, faults>>

ChildExits(c) ==
    /\ c \in Running
    /\ faults.crash < MaxCrashes
    /\ faults' = [faults EXCEPT !.crash = @ + 1]
    /\ proc' = [proc EXCEPT ![c] = "dead"]
    /\ UNCHANGED <<main, exit, watchers, shutdown>>

ObeyTerm ==
    /\ main.step = "grace"
    /\ proc[Child] \in Alive
    /\ proc' = [proc EXCEPT ![Child] = "dead"]
    /\ UNCHANGED <<main, exit, watchers, shutdown, faults>>

Signal ==
    /\ ~shutdown
    /\ main.step # "end"
    /\ shutdown' = TRUE
    /\ UNCHANGED <<main, exit, proc, watchers, faults>>

Older(ages) == [i \in 1..Len(ages) |-> IF ages[i] < Window THEN ages[i] + 1 ELSE Window]
Less(n) == IF n > 0 THEN n - 1 ELSE 0

(* A watcher that need not wait any longer.                                 *)
Due(c) ==
    \/ task[c] = "watching" /\ (shutdown \/ proc[c] = "dead")
    \/ task[c] = "backoff" /\ left[c] = 0
    \/ task[c] = "spawning"

(* One unit of time.  The event loop is held up, so that a watcher that     *)
(* could run does not, for MaxDelays units at most.                         *)
Tick ==
    /\ main.step # "end"
    /\ IF \E c \in Children : Due(c)
       THEN /\ faults.late < MaxDelays
            /\ faults' = [faults EXCEPT !.late = @ + 1]
       ELSE UNCHANGED faults
    /\ main' = [main EXCEPT !.timer = Less(@)]
    /\ left' = [c \in Children |-> Less(left[c])]
    /\ crashes' = [c \in Children |-> Older(crashes[c])]
    /\ restarts' = [c \in Children |-> Older(restarts[c])]
    /\ UNCHANGED <<exit, proc, task, backoff, shutdown>>

Run == \/ SpawnNext \/ GateCheck \/ GateProbe
       \/ LeaveWatch \/ StopTerminate \/ StopExited \/ StopKill

Watch(c) == WatchShutdown(c) \/ WatchExit(c) \/ BackoffOver(c) \/ Respawn(c)

Environment ==
    \/ \E c \in Children : Listen(c) \/ ChildExits(c)
    \/ ObeyTerm \/ Signal \/ Tick \/ SpawnRaises

Next == Run \/ (\E c \in Children : Watch(c)) \/ Environment

Spec == Init /\ [][Next]_vars

(* The event loop runs every ready coroutine, and time passes.              *)
FairSpec == Spec /\ WF_vars(Run) /\ WF_vars(Tick)
                 /\ \A c \in Children : WF_vars(Watch(c))

----------------------------------------------------------------------------
(* Properties                                                               *)

(* When run() has returned, whatever phase the signal, the crash loop or    *)
(* the failed gate met it in, no child process is left behind.              *)
NoOrphans == main.phase = "exited" => Running = {}

(* A child is stopped only after those started after it, which depend on    *)
(* it, are gone - also those that crashed or were being restarted when the  *)
(* stop began.                                                              *)
StoppedInReverse ==
    main.phase = "stopping" =>
        \A i \in 1..Len(Order) : i > main.at => Order[i] \notin Running

(* Nothing is started once stopping has begun or the supervisor has ended.  *)
NoStartWhileStopping ==
    [][main.phase \in {"stopping", "exited", "failed"} =>
          \A c \in Children : proc'[c] \in Alive => proc[c] \in Alive]_vars

(* A crash loop is cut: unless the event loop was held up, no child is ever *)
(* restarted as often as the threshold within one window.  The code counts  *)
(* crashes, not restarts; that this bounds the restarts too rests on        *)
(* backoff_s, which never shrinks.                                          *)
RestartsAreRare ==
    faults.late = 0 => \A c \in Children :
        Cardinality({i \in DOMAIN restarts[c] : restarts[c][i] < Window}) < Threshold

(* The supervisor gives up only on a crash loop.                            *)
GivesUpOnlyOnLoops ==
    [][exit' = "poison_pill" /\ exit # "poison_pill" =>
          \E c \in Children :
             /\ Len(restarts[c]) + 1 >= Threshold
             /\ \A i \in 1..Len(restarts[c]) :
                   Len(restarts[c]) - i < Threshold - 1 => restarts[c][i] < Window]_vars

(* A signal ends the supervisor: not even a gate, a backoff sleep or a      *)
(* child that ignores SIGTERM can hold it.                                  *)
ShutdownCompletes == shutdown ~> main.phase \in {"exited", "failed"}

(* A child that exits is restarted, or everything is stopped.               *)
ExitIsHandled ==
    \A c \in Children :
        (main.phase = "watching" /\ proc[c] = "dead")
            ~> (proc[c] \in Alive \/ main.phase # "watching")
=============================================================================
