-------------------------- MODULE Supervisor_proofs --------------------------
(***************************************************************************)
(* What is proved of Supervisor, for any children in any order, any         *)
(* thresholds and times and any number of crashes: the way it stops, and    *)
(* that it cuts crash loops and nothing else.                               *)
(***************************************************************************)
EXTENDS Supervisor, Integers, FiniteSetTheorems, SequenceTheorems, TLAPS

Phases == {"starting", "watching", "stopping", "exited", "failed"}
Steps == {"spawn", "check", "probe", "watch", "term", "grace", "end"}

(* Where run() is: the phase says what it can be at.                        *)
MainIsPlaced ==
    /\ main \in [phase : Phases, at : 0..Len(Order), step : Steps, timer : Nat]
    /\ main.step \in {"spawn", "check", "probe"} => main.phase = "starting"
    /\ main.step \in {"term", "grace"} <=> main.phase = "stopping"
    /\ main.step = "watch" <=> main.phase = "watching"
    /\ main.step = "end" <=> main.phase \in {"exited", "failed"}
    /\ main.phase \in {"starting", "stopping"} => main.at # 0

(* Only the watch phase has watchers that do anything.                      *)
WatchersAreOver ==
    /\ DOMAIN task = Children
    /\ main.phase # "watching" => \A c \in Children : task[c] \in {"none", "done"}

StopInv == MainIsPlaced /\ WatchersAreOver /\ DOMAIN proc = Children /\ StoppedInReverse /\ NoOrphans

LEMMA ChildIsOne == MainIsPlaced /\ main.at # 0 => Child \in Children
  BY SupervisorAssumption DEF MainIsPlaced, Child, Children

(* The places run() goes to.                                                *)
LEMMA Places ==
  ASSUME MainIsPlaced
  PROVE  /\ StopAll \in [phase : {"stopping"}, at : 1..Len(Order), step : {"term"}, timer : Nat]
         /\ StopAll.at = Len(Order)
         /\ main.phase = "stopping" =>
              \/ /\ StopNext \in [phase : {"stopping"}, at : 1..Len(Order), step : {"term"}, timer : Nat]
                 /\ StopNext.at = main.at - 1
              \/ /\ StopNext \in [phase : {"exited"}, at : {0}, step : {"end"}, timer : Nat]
                 /\ main.at = 1
  <1>1. Len(Order) \in Nat \ {0} /\ main.phase = "stopping" => main.at \in 1..Len(Order)
    BY SupervisorAssumption DEF MainIsPlaced
  <1>2. main \in [phase : Phases, at : 0..Len(Order), step : Steps, timer : Nat]
    BY DEF MainIsPlaced
  <1>3. /\ StopAll \in [phase : {"stopping"}, at : 1..Len(Order), step : {"term"}, timer : Nat]
        /\ StopAll.at = Len(Order)
    BY SupervisorAssumption DEF StopAll
  <1>4. ASSUME main.phase = "stopping", main.at > 1
        PROVE  /\ StopNext \in [phase : {"stopping"}, at : 1..Len(Order), step : {"term"}, timer : Nat]
               /\ StopNext.at = main.at - 1
    <2>1. PICK n \in 1..Len(Order) : n = main.at - 1
      BY <1>1, <1>4, SupervisorAssumption
    <2>2. StopNext = [main EXCEPT !.at = n, !.step = "term", !.timer = 0]
      BY <1>4, <2>1 DEF StopNext
    <2>. QED BY <1>2, <1>4, <2>1, <2>2
  <1>5. ASSUME main.phase = "stopping", ~(main.at > 1)
        PROVE  /\ StopNext \in [phase : {"exited"}, at : {0}, step : {"end"}, timer : Nat]
               /\ main.at = 1
    <2>1. StopNext = [main EXCEPT !.phase = "exited", !.at = 0, !.step = "end", !.timer = 0]
      BY <1>5 DEF StopNext
    <2>2. main.at = 1
      BY <1>1, <1>5, SupervisorAssumption
    <2>. QED BY <1>2, <1>5, <2>1, <2>2
  <1>. QED BY <1>3, <1>4, <1>5

----------------------------------------------------------------------------
(* The steps of run()                                                       *)

(* Stopping begins at the last child: nothing has to be stopped yet.        *)
LEMMA StopBegins ==
  ASSUME MainIsPlaced, main' = StopAll, DOMAIN task' = Children, DOMAIN proc' = Children,
         \A c \in Children : task'[c] \in {"none", "done"}
  PROVE  StopInv'
  <1>1. /\ main'.phase = "stopping" /\ main'.step = "term" /\ main'.at = Len(Order)
        /\ main'.at \in 1..Len(Order) /\ main'.timer \in Nat
        /\ main' \in [phase : Phases, at : 0..Len(Order), step : Steps, timer : Nat]
    BY Places, SupervisorAssumption DEF Phases, Steps
  <1>2. MainIsPlaced' /\ WatchersAreOver'
    BY <1>1 DEF MainIsPlaced, WatchersAreOver
  <1>3. StoppedInReverse' /\ NoOrphans'
    BY <1>1, SupervisorAssumption DEF StoppedInReverse, NoOrphans
  <1>. QED BY <1>2, <1>3 DEF StopInv

(* The child at hand is gone: its turn goes to the one started before it.   *)
LEMMA StopGoesOn ==
  ASSUME StopInv, main.phase = "stopping", main' = StopNext, UNCHANGED task,
         DOMAIN proc' = Children, Child \notin Running',
         \A c \in Children : c \notin Running => c \notin Running'
  PROVE  StopInv'
  <1>1. /\ main.at \in 1..Len(Order) /\ Len(Order) \in Nat /\ MainIsPlaced /\ WatchersAreOver
    BY SupervisorAssumption DEF StopInv, MainIsPlaced
  <1>2. \A i \in 1..Len(Order) : i > main.at - 1 => Order[i] \notin Running'
    BY <1>1 DEF StopInv, StoppedInReverse, Child, Children
  <1>3. CASE /\ main'.phase = "stopping" /\ main'.step = "term" /\ main'.at = main.at - 1
             /\ main' \in [phase : Phases, at : 1..Len(Order), step : Steps, timer : Nat]
    BY <1>1, <1>2, <1>3 DEF StopInv, MainIsPlaced, WatchersAreOver, StoppedInReverse, NoOrphans
  <1>4. CASE /\ main'.phase = "exited" /\ main'.step = "end" /\ main.at = 1
             /\ main' \in [phase : Phases, at : {0}, step : Steps, timer : Nat]
    <2>1. Running' = {}
      BY <1>1, <1>2, <1>4 DEF Running, Children
    <2>. QED BY <1>1, <1>4, <2>1 DEF StopInv, MainIsPlaced, WatchersAreOver, StoppedInReverse, NoOrphans
  <1>. QED BY <1>1, <1>3, <1>4, Places DEF Phases, Steps

(* Anything that starts no child and leaves run() where it is.              *)
LEMMA StopWaits ==
  ASSUME StopInv, main'.phase = main.phase, main'.at = main.at, main'.step \in Steps,
         main' \in [phase : Phases, at : 0..Len(Order), step : Steps, timer : Nat],
         main'.step = main.step \/ {main.step, main'.step} \subseteq {"term", "grace"}
            \/ {main.step, main'.step} \subseteq {"spawn", "check", "probe"},
         DOMAIN task' = Children, DOMAIN proc' = Children,
         main.phase # "watching" => UNCHANGED task,
         main.phase \in {"stopping", "exited"} =>
            \A c \in Children : c \notin Running => c \notin Running'
  PROVE  StopInv'
  <1>1. MainIsPlaced'
    BY DEF StopInv, MainIsPlaced, Steps
  <1>2. WatchersAreOver'
    BY DEF StopInv, WatchersAreOver
  <1>3. StoppedInReverse'
    BY DEF StopInv, StoppedInReverse, Children
  <1>4. NoOrphans'
    BY DEF StopInv, NoOrphans, Running
  <1>. QED BY <1>1, <1>2, <1>3, <1>4 DEF StopInv

(* A gate is passed, or a child without one is started.                     *)
LEMMA StartGoesOn ==
  ASSUME StopInv, main.phase = "starting", GoOn, DOMAIN proc' = Children
  PROVE  StopInv'
  <1>1. main.at \in 1..Len(Order) /\ Len(Order) \in Nat /\ main.timer \in Nat
    BY SupervisorAssumption DEF StopInv, MainIsPlaced
  <1>2. CASE main.at < Len(Order)
    <2>1. /\ main' = [main EXCEPT !.at = @ + 1, !.step = "spawn"] /\ UNCHANGED task
          /\ main' \in [phase : {"starting"}, at : 1..Len(Order), step : {"spawn"}, timer : Nat]
      <3>1. PICK n \in 1..Len(Order) : n = main.at + 1
        BY <1>1, <1>2
      <3>2. main' = [main EXCEPT !.at = n, !.step = "spawn"] /\ UNCHANGED task
        BY <1>2, <3>1 DEF GoOn
      <3>. QED BY <1>2, <3>1, <3>2 DEF GoOn, StopInv, MainIsPlaced
    <2>. QED BY <1>1, <2>1 DEF StopInv, MainIsPlaced, WatchersAreOver, StoppedInReverse, NoOrphans, Phases, Steps
  <1>3. CASE ~(main.at < Len(Order))
    <2>1. /\ DOMAIN task' = Children
          /\ main' \in [phase : {"watching"}, at : 1..Len(Order), step : {"watch"}, timer : Nat]
      BY <1>1, <1>3 DEF GoOn, StopInv, MainIsPlaced
    <2>. QED BY <1>1, <2>1 DEF StopInv, MainIsPlaced, WatchersAreOver, StoppedInReverse, NoOrphans, Phases, Steps
  <1>. QED BY <1>2, <1>3

----------------------------------------------------------------------------
(* The invariant                                                            *)

LEMMA StopStart == Init => StopInv
  <1>. SUFFICES ASSUME Init PROVE StopInv
    OBVIOUS
  <1>. QED BY SupervisorAssumption DEF Init, StopInv, MainIsPlaced, WatchersAreOver, StoppedInReverse,
        NoOrphans, Phases, Steps

LEMMA RunStep ==
  ASSUME StopInv, Run
  PROVE  StopInv'
  <1>. USE DEF watchers
  <1>0. /\ MainIsPlaced /\ WatchersAreOver /\ DOMAIN proc = Children /\ DOMAIN task = Children
        /\ GateTimeout \in Nat /\ Grace \in Nat
    BY SupervisorAssumption DEF StopInv, WatchersAreOver
  <1>1. CASE SpawnNext
    <2>1. main.phase = "starting" /\ DOMAIN proc' = Children
      BY <1>0, <1>1 DEF SpawnNext, MainIsPlaced
    <2>2. CASE GoOn
      BY <2>1, <2>2, StartGoesOn
    <2>3. CASE main' = [main EXCEPT !.step = "check", !.timer = GateTimeout] /\ UNCHANGED task
      BY <1>0, <1>1, <2>1, <2>3, StopWaits DEF SpawnNext, MainIsPlaced, Steps
    <2>. QED BY <1>1, <2>2, <2>3 DEF SpawnNext
  <1>2. CASE GateCheck
    <2>1. main.phase = "starting" /\ UNCHANGED <<proc, task>> /\ main.step = "check"
      BY <1>0, <1>2 DEF GateCheck, MainIsPlaced
    <2>2. CASE main' = StopAll
      BY <1>0, <2>1, <2>2, StopBegins DEF WatchersAreOver
    <2>3. CASE main' = [main EXCEPT !.step = "probe"]
      BY <1>0, <2>1, <2>3, StopWaits DEF MainIsPlaced, Steps
    <2>. QED BY <1>2, <2>2, <2>3 DEF GateCheck
  <1>3. CASE GateProbe
    <2>1. main.phase = "starting" /\ UNCHANGED proc /\ main.step = "probe"
      BY <1>0, <1>3 DEF GateProbe, MainIsPlaced
    <2>2. CASE GoOn
      BY <1>0, <2>1, <2>2, StartGoesOn
    <2>3. CASE main' = StopAll /\ UNCHANGED task
      BY <1>0, <2>1, <2>3, StopBegins DEF WatchersAreOver
    <2>4. CASE main' = [main EXCEPT !.step = "check"] /\ UNCHANGED task
      BY <1>0, <2>1, <2>4, StopWaits DEF MainIsPlaced, Steps
    <2>. QED BY <1>3, <2>2, <2>3, <2>4 DEF GateProbe
  <1>4. CASE LeaveWatch
    BY <1>0, <1>4, StopBegins DEF LeaveWatch, WatchersDone
  <1>5. CASE StopTerminate
    <2>1. main.phase = "stopping" /\ UNCHANGED <<proc, task>> /\ main.step = "term"
      BY <1>0, <1>5 DEF StopTerminate, MainIsPlaced
    <2>2. CASE main' = StopNext /\ Child \notin Running
      BY <1>0, <2>1, <2>2, StopGoesOn DEF Child, Running
    <2>3. CASE main' = [main EXCEPT !.step = "grace", !.timer = Grace]
      BY <1>0, <2>1, <2>3, StopWaits DEF MainIsPlaced, Steps, Running
    <2>. QED BY <1>5, <2>2, <2>3 DEF StopTerminate
  <1>6. CASE StopExited
    <2>1. main.phase = "stopping" /\ UNCHANGED <<proc, task>> /\ Child \notin Running
      BY <1>0, <1>6 DEF StopExited, MainIsPlaced, Running, Alive
    <2>. QED BY <1>0, <1>6, <2>1, StopGoesOn DEF StopExited, Running, Child
  <1>7. CASE StopKill
    <2>1. /\ main.phase = "stopping" /\ UNCHANGED task
          /\ proc' = [proc EXCEPT ![Child] = "dead"] /\ main' = StopNext
      BY <1>0, <1>7 DEF StopKill, MainIsPlaced, AfterGrace
    <2>2. /\ Child \notin Running' /\ DOMAIN proc' = Children
          /\ \A c \in Children : c \notin Running => c \notin Running'
      BY <1>0, <2>1, ChildIsOne DEF Running, Alive, MainIsPlaced
    <2>. QED BY <2>1, <2>2, StopGoesOn
  <1>. QED BY <1>1, <1>2, <1>3, <1>4, <1>5, <1>6, <1>7 DEF Run

LEMMA WatchStep ==
  ASSUME StopInv, NEW c \in Children, Watch(c)
  PROVE  StopInv'
  <1>1. /\ MainIsPlaced /\ DOMAIN proc = Children /\ DOMAIN task = Children
        /\ main.phase = "watching"
    BY DEF StopInv, WatchersAreOver, Watch, WatchShutdown, WatchExit, BackoffOver, Respawn
  <1>2. CASE UNCHANGED main
    <2>1. DOMAIN task' = Children /\ DOMAIN proc' = Children
      BY <1>1, <1>2 DEF Watch, WatchShutdown, WatchExit, BackoffOver, Respawn
    <2>. QED BY <1>1, <1>2, <2>1, StopWaits DEF MainIsPlaced
  <1>3. CASE WatchExit(c) /\ main' = StopAll /\ task' = [d \in Children |-> "done"]
    BY <1>1, <1>3, StopBegins DEF WatchExit
  <1>. QED BY <1>2, <1>3 DEF Watch, WatchShutdown, WatchExit, BackoffOver, Respawn

LEMMA EnvironmentStep ==
  ASSUME StopInv, Environment
  PROVE  StopInv'
  <1>. USE DEF watchers
  <1>0. MainIsPlaced /\ DOMAIN proc = Children /\ DOMAIN task = Children
    BY DEF StopInv, WatchersAreOver
  <1>1. CASE /\ UNCHANGED <<main, task>> /\ DOMAIN proc' = Children
             /\ \A c \in Children : c \notin Running => c \notin Running'
    BY <1>0, <1>1, StopWaits DEF MainIsPlaced
  <1>2. ASSUME NEW c \in Children, Listen(c) \/ ChildExits(c) PROVE StopInv'
    BY <1>0, <1>1, <1>2 DEF Listen, ChildExits, Running, Alive
  <1>3. CASE ObeyTerm
    BY <1>0, <1>1, <1>3 DEF ObeyTerm, Running, Alive
  <1>4. CASE Signal
    BY <1>0, <1>1, <1>4 DEF Signal, Running
  <1>5. CASE Tick
    <2>1. main' = [main EXCEPT !.timer = Less(main.timer)] /\ Less(main.timer) \in Nat
      BY <1>0, <1>5 DEF Tick, Less, MainIsPlaced
    <2>. QED BY <1>0, <1>5, <2>1, StopWaits DEF Tick, MainIsPlaced, Running
  <1>6. CASE SpawnRaises
    <2>1. main' = [main EXCEPT !.phase = "failed", !.step = "end"] /\ DOMAIN task' = Children
          /\ UNCHANGED proc /\ \A c \in Children : task'[c] = "done"
      BY <1>6 DEF SpawnRaises
    <2>. QED BY <1>0, <2>1 DEF StopInv, MainIsPlaced, WatchersAreOver, StoppedInReverse, NoOrphans, Phases, Steps
  <1>. QED BY <1>2, <1>3, <1>4, <1>5, <1>6 DEF Environment

LEMMA StopStep == StopInv /\ [Next]_vars => StopInv'
  <1>. SUFFICES ASSUME StopInv, [Next]_vars PROVE StopInv'
    OBVIOUS
  <1>1. CASE UNCHANGED vars
    BY <1>1, StopWaits DEF vars, StopInv, MainIsPlaced, WatchersAreOver, Running
  <1>. QED BY <1>1, RunStep, WatchStep, EnvironmentStep DEF Next

(* Once stopping has begun no step makes a child live that did not.         *)
LEMMA NothingStarts ==
  ASSUME StopInv, Next, main.phase \in {"stopping", "exited", "failed"},
         NEW c \in Children, proc'[c] \in Alive
  PROVE  proc[c] \in Alive
  <1>1. /\ main.step \notin {"spawn", "check", "probe"} /\ DOMAIN proc = Children
        /\ \A d \in Children : task[d] \in {"none", "done"}
    BY DEF StopInv, MainIsPlaced, WatchersAreOver
  <1>2. CASE Run
    BY <1>1, <1>2 DEF Run, SpawnNext, GateCheck, GateProbe, LeaveWatch, StopTerminate, StopExited,
       StopKill, AfterGrace, Alive
  <1>3. CASE \E d \in Children : Watch(d)
    BY <1>1, <1>3 DEF Watch, WatchShutdown, WatchExit, BackoffOver, Respawn
  <1>4. CASE Environment
    BY <1>1, <1>4 DEF Environment, Listen, ChildExits, ObeyTerm, Signal, Tick, SpawnRaises, Alive
  <1>. QED BY <1>2, <1>3, <1>4 DEF Next

----------------------------------------------------------------------------
(* Crash loops.  A history of ages lists the oldest first.                  *)

Histories == Seq(0..Window)

InOrder(ages) == \A i, j \in 1..Len(ages) : i <= j => ages[j] <= ages[i]

(* The crashes C and restarts R of a child are paired from their ends: R[i] *)
(* follows C[i + Lag].  The last crash still owes its restart when p = 1.   *)
Lag(C, R, p) == Len(C) - p - Len(R)

(* Every crash within the window has been followed by its restart.          *)
Followed(C, R, p) ==
    \A j \in 1..(Len(C) - p) :
        C[j] < Window => /\ j - Lag(C, R, p) \in 1..Len(R)
                         /\ R[j - Lag(C, R, p)] <= C[j]

(* A restart came no later than the backoff b after its crash; and one      *)
(* whose crash is forgotten will be outside the window when the sleep l     *)
(* that is under way ends.                                                  *)
Paced(C, R, p, b, l) ==
    /\ \A i \in 1..Len(R) :
          IF i + Lag(C, R, p) >= 1 THEN C[i + Lag(C, R, p)] <= R[i] + b
                                   ELSE R[i] + l >= Window
    /\ p = 1 => Len(C) > 0 /\ C[Len(C)] + l <= b

LEMMA HistoryTypes ==
  ASSUME NEW s \in Histories
  PROVE  /\ Len(s) \in Nat /\ Window \in Nat \ {0}
         /\ \A i \in 1..Len(s) : s[i] \in 0..Window /\ s[i] \in Nat /\ s[i] <= Window
  <1>1. Len(s) \in Nat /\ s \in [1..Len(s) -> 0..Window]
    BY LenProperties DEF Histories
  <1>2. Window \in Nat \ {0}
    BY SupervisorAssumption
  <1>. QED BY <1>1, <1>2

(* Dropping what is outside the window drops a prefix.                      *)
LEMMA RecentPart ==
  ASSUME NEW s \in Histories, InOrder(s)
  PROVE  \E n \in 0..Len(s) :
            /\ Within(s) \in Histories /\ Len(Within(s)) = Len(s) - n
            /\ \A i \in 1..(Len(s) - n) : Within(s)[i] = s[n + i]
            /\ \A i \in 1..Len(s) : s[i] < Window <=> i > n
  <1>. DEFINE old == {i \in 1..Len(s) : ~(s[i] < Window)}
              m == Cardinality(old)
  <1>0. Len(s) \in Nat /\ Window \in Nat /\ \A i \in 1..Len(s) : s[i] \in Nat
    BY HistoryTypes
  <1>1. IsFiniteSet(old) /\ m \in 0..Len(s)
    <2>1. IsFiniteSet(1..Len(s)) /\ Cardinality(1..Len(s)) = Len(s)
      <3>1. ASSUME NEW k \in Nat PROVE IsFiniteSet(1..k) /\ Cardinality(1..k) = k
        BY FS_Interval
      <3>. QED BY <1>0, <3>1
    <2>2. IsFiniteSet(old) /\ Cardinality(old) <= Cardinality(1..Len(s))
      <3>1. old \in SUBSET (1..Len(s))
        OBVIOUS
      <3>. HIDE DEF old
      <3>. QED BY <2>1, <3>1, FS_Subset
    <2>. QED BY <2>1, <2>2, <1>0, FS_CardinalityType
  <1>2. ASSUME NEW i \in 1..Len(s), i \in old PROVE i <= m
    <2>1. 1..i \in SUBSET old
      <3>1. ASSUME NEW k \in 1..i PROVE k \in 1..Len(s) /\ ~(s[k] < Window)
        <4>1. k \in 1..Len(s) /\ k <= i
          BY <1>0, <1>2
        <4>2. s[k] >= s[i]
          BY <1>0, <1>2, <4>1 DEF InOrder
        <4>3. s[k] \in Nat /\ s[i] \in Nat /\ ~(s[i] < Window)
          BY <1>0, <1>2, <4>1
        <4>. QED BY <1>0, <4>1, <4>2, <4>3
      <3>. QED BY <3>1
    <2>2. Cardinality(1..i) <= m
      BY <2>1, <1>1, FS_Subset
    <2>. QED BY <2>2, FS_Interval
  <1>3. ASSUME NEW i \in 1..Len(s), i \notin old PROVE i > m
    <2>1. old \in SUBSET (1..(i - 1))
      BY <1>0, <1>3, SupervisorAssumption DEF InOrder
    <2>2. IsFiniteSet(1..(i - 1)) /\ Cardinality(1..(i - 1)) = i - 1
      BY FS_Interval
    <2>3. m <= i - 1
      BY <2>1, <2>2, FS_Subset
    <2>. QED BY <2>3, <1>1
  <1>4. PICK n \in 0..Len(s) : /\ \A i \in 1..Len(s) : s[i] < Window <=> i > n
                               /\ Within(s) = SubSeq(s, n + 1, Len(s))
    <2>1. \A i \in 1..Len(s) : s[i] < Window <=> i > m
      <3>. HIDE DEF m
      <3>. QED BY <1>1, <1>2, <1>3
    <2>2. \E n \in 0..Len(s) : \A i \in 1..Len(s) : s[i] < Window <=> i > n
      BY <1>1, <2>1
    <2>. QED BY <2>2 DEF Within
  <1>5. /\ SubSeq(s, n + 1, Len(s)) \in Histories
        /\ Len(SubSeq(s, n + 1, Len(s))) = Len(s) - n
        /\ \A i \in 1..(Len(s) - n) : SubSeq(s, n + 1, Len(s))[i] = s[n + i]
    BY <1>0, SubSeqProperties DEF Histories
  <1>. QED BY <1>4, <1>5

(* An event is added to what is left of its history.                        *)
LEMMA Recorded ==
  ASSUME NEW s \in Histories, InOrder(s)
  PROVE  \E n \in 0..Len(s) :
            /\ Append(Within(s), 0) \in Histories /\ InOrder(Append(Within(s), 0))
            /\ Len(Within(s)) = Len(s) - n
            /\ Len(Append(Within(s), 0)) = Len(s) - n + 1
            /\ \A i \in 1..(Len(s) - n) : Append(Within(s), 0)[i] = s[n + i]
            /\ Append(Within(s), 0)[Len(s) - n + 1] = 0
            /\ \A i \in 1..Len(s) : s[i] < Window <=> i > n
  <1>0. Len(s) \in Nat /\ (\A i \in 1..Len(s) : s[i] \in 0..Window) /\ 0 \in 0..Window
    BY HistoryTypes
  <1>1. PICK n \in 0..Len(s) :
            /\ Within(s) \in Histories /\ Len(Within(s)) = Len(s) - n
            /\ \A i \in 1..(Len(s) - n) : Within(s)[i] = s[n + i]
            /\ \A i \in 1..Len(s) : s[i] < Window <=> i > n
    BY RecentPart
  <1>. DEFINE t == Append(Within(s), 0)
  <1>2. /\ t \in Histories /\ Len(t) = Len(s) - n + 1 /\ t[Len(s) - n + 1] = 0
        /\ \A i \in 1..(Len(s) - n) : t[i] = s[n + i]
    BY <1>0, <1>1, AppendProperties DEF Histories
  <1>3. InOrder(t)
    <2>. HIDE DEF t
    <2>1. ASSUME NEW i \in 1..Len(t), NEW j \in 1..Len(t), i <= j PROVE t[j] <= t[i]
      <3>1. CASE j = Len(t)
        BY <1>2, <2>1, <3>1, HistoryTypes
      <3>2. CASE j # Len(t)
        <4>1. /\ n + i \in 1..Len(s) /\ n + j \in 1..Len(s) /\ n + i <= n + j
              /\ t[i] = s[n + i] /\ t[j] = s[n + j]
          BY <1>0, <1>2, <2>1, <3>2
        <4>. QED BY <4>1 DEF InOrder
      <3>. QED BY <3>1, <3>2
    <2>. QED BY <2>1 DEF InOrder
  <1>. QED BY <1>1, <1>2, <1>3

(* Time passes.                                                             *)
LEMMA Aging ==
  ASSUME NEW s \in Histories, InOrder(s)
  PROVE  /\ Older(s) \in Histories /\ Len(Older(s)) = Len(s) /\ InOrder(Older(s))
         /\ \A i \in 1..Len(s) : Older(s)[i] = IF s[i] < Window THEN s[i] + 1 ELSE Window
  <1>0. Len(s) \in Nat /\ (\A i \in 1..Len(s) : s[i] \in 0..Window) /\ Window \in Nat
    BY HistoryTypes
  <1>1. Older(s) \in [1..Len(s) -> 0..Window]
    BY <1>0 DEF Older
  <1>2. Older(s) \in Histories /\ Len(Older(s)) = Len(s)
    BY <1>0, <1>1, IsASeq DEF Histories
  <1>3. \A i \in 1..Len(s) : Older(s)[i] = IF s[i] < Window THEN s[i] + 1 ELSE Window
    BY DEF Older
  <1>4. InOrder(Older(s))
    BY <1>0, <1>2, <1>3 DEF InOrder
  <1>. QED BY <1>2, <1>3, <1>4

LEMMA ExitKeepsPairs ==
  ASSUME NEW C \in Histories, NEW R \in Histories, InOrder(C), InOrder(R), NEW b \in Nat,
         Followed(C, R, 0)
  PROVE  /\ Followed(Append(Within(C), 0), R, 1)
         /\ Paced(C, R, 0, b, 0) => Paced(Append(Within(C), 0), R, 1, b, b)
  <1>. DEFINE D == Append(Within(C), 0)
  <1>0. /\ Len(C) \in Nat /\ Len(R) \in Nat /\ Window \in Nat
        /\ \A i \in 1..Len(C) : C[i] \in 0..Window
        /\ \A i \in 1..Len(R) : R[i] \in 0..Window
    BY HistoryTypes
  <1>1. PICK n \in 0..Len(C) :
            /\ Len(D) = Len(C) - n + 1
            /\ \A i \in 1..(Len(C) - n) : D[i] = C[n + i]
            /\ D[Len(C) - n + 1] = 0
            /\ \A i \in 1..Len(C) : C[i] < Window <=> i > n
    BY Recorded
  <1>. HIDE DEF D
  <1>2. Lag(D, R, 1) = Lag(C, R, 0) - n /\ Lag(C, R, 0) \in Int
    BY <1>0, <1>1 DEF Lag
  <1>3. ASSUME NEW j \in 1..(Len(D) - 1), D[j] < Window
        PROVE  j - Lag(D, R, 1) \in 1..Len(R) /\ R[j - Lag(D, R, 1)] <= D[j]
    <2>1. n + j \in 1..Len(C) /\ D[j] = C[n + j]
      BY <1>0, <1>1
    <2>2. /\ (n + j) - Lag(C, R, 0) \in 1..Len(R) /\ R[(n + j) - Lag(C, R, 0)] <= C[n + j]
      BY <1>0, <1>3, <2>1 DEF Followed
    <2>3. j - Lag(D, R, 1) = (n + j) - Lag(C, R, 0)
      BY <1>2
    <2>. QED BY <2>1, <2>2, <2>3
  <1>4. ASSUME Paced(C, R, 0, b, 0), NEW i \in 1..Len(R)
        PROVE  IF i + Lag(D, R, 1) >= 1 THEN D[i + Lag(D, R, 1)] <= R[i] + b
                                        ELSE R[i] + b >= Window
    <2>. DEFINE k == i + Lag(C, R, 0)
    <2>1. /\ k \in Int /\ i + Lag(D, R, 1) = k - n /\ k <= Len(C)
      BY <1>0, <1>2 DEF Lag
    <2>2. IF k >= 1 THEN C[k] <= R[i] + b ELSE R[i] + 0 >= Window
      BY <1>4 DEF Paced
    <2>. HIDE DEF k
    <2>3. CASE k - n >= 1
      <3>1. k - n \in 1..(Len(C) - n) /\ n + (k - n) = k
        BY <1>0, <2>1, <2>3
      <3>. QED BY <1>0, <1>1, <2>1, <2>2, <2>3, <3>1
    <2>4. CASE ~(k - n >= 1)
      BY <1>0, <1>1, <2>1, <2>2, <2>4
    <2>. QED BY <2>3, <2>4
  <1>5. Len(D) > 0 /\ D[Len(D)] + b <= b
    BY <1>0, <1>1
  <1>. QED BY <1>3, <1>4, <1>5 DEF Followed, Paced, D

(* A restart is counted against a crash that came before it.                *)
LEMMA RespawnKeepsPairs ==
  ASSUME NEW C \in Histories, NEW R \in Histories, InOrder(C), InOrder(R), NEW b \in Nat,
         Followed(C, R, 1)
  PROVE  /\ Followed(C, Append(Within(R), 0), 0)
         /\ Paced(C, R, 1, b, 0) => /\ Paced(C, Append(Within(R), 0), 0, b, 0)
                                    /\ Len(Append(Within(R), 0)) <= Len(C)
  <1>. DEFINE S == Append(Within(R), 0)
  <1>0. /\ Len(C) \in Nat /\ Len(R) \in Nat /\ Window \in Nat
        /\ \A i \in 1..Len(C) : C[i] \in 0..Window
        /\ \A i \in 1..Len(R) : R[i] \in 0..Window
    BY HistoryTypes
  <1>1. PICK n \in 0..Len(R) :
            /\ Len(S) = Len(R) - n + 1
            /\ \A i \in 1..(Len(R) - n) : S[i] = R[n + i]
            /\ S[Len(R) - n + 1] = 0
            /\ \A i \in 1..Len(R) : R[i] < Window <=> i > n
    BY Recorded
  <1>. HIDE DEF S
  <1>2. /\ Lag(C, S, 0) = Lag(C, R, 1) + n /\ Lag(C, R, 1) \in Int
        /\ Lag(C, R, 1) = Len(C) - 1 - Len(R)
    BY <1>0, <1>1 DEF Lag
  <1>3. ASSUME NEW j \in 1..(Len(C) - 0), C[j] < Window
        PROVE  j - Lag(C, S, 0) \in 1..Len(S) /\ S[j - Lag(C, S, 0)] <= C[j]
    <2>1. CASE j = Len(C)
      <3>1. j - Lag(C, S, 0) = Len(R) - n + 1 /\ Len(R) - n + 1 \in 1..Len(S)
        BY <1>0, <1>1, <1>2, <2>1
      <3>2. C[j] \in 0..Window
        BY <1>0, <2>1
      <3>3. S[j - Lag(C, S, 0)] = 0
        BY <1>1, <3>1
      <3>. QED BY <3>1, <3>2, <3>3
    <2>2. CASE j # Len(C)
      <3>. DEFINE i == j - Lag(C, R, 1)
      <3>1. i \in 1..Len(R) /\ R[i] <= C[j]
        BY <1>0, <1>3, <2>2 DEF Followed
      <3>. HIDE DEF i
      <3>2. i > n
        BY <1>0, <1>1, <1>3, <3>1
      <3>3. j - Lag(C, S, 0) = i - n
        BY <1>2 DEF i
      <3>4. S[i - n] = R[n + (i - n)] /\ n + (i - n) = i
        BY <1>0, <1>1, <3>1, <3>2
      <3>. QED BY <1>0, <1>1, <3>1, <3>2, <3>3, <3>4
    <2>. QED BY <2>1, <2>2
  <1>4. ASSUME Paced(C, R, 1, b, 0)
        PROVE  Paced(C, S, 0, b, 0) /\ Len(S) <= Len(C)
    <2>1. Len(C) > 0 /\ C[Len(C)] <= b
      BY <1>0, <1>4 DEF Paced
    <2>2. ASSUME NEW i \in 1..Len(R), i > n
          PROVE  i + Lag(C, R, 1) >= 1 /\ C[i + Lag(C, R, 1)] <= R[i] + b
      <3>1. IF i + Lag(C, R, 1) >= 1 THEN C[i + Lag(C, R, 1)] <= R[i] + b ELSE R[i] + 0 >= Window
        BY <1>4 DEF Paced
      <3>. QED BY <1>0, <1>1, <2>2, <3>1
    <2>3. Len(S) <= Len(C)
      <3>1. CASE n = Len(R)
        BY <1>0, <1>1, <2>1, <3>1
      <3>2. CASE n < Len(R)
        <4>1. (n + 1) + Lag(C, R, 1) >= 1
          BY <1>0, <3>2, <2>2
        <4>. QED BY <1>0, <1>1, <1>2, <4>1
      <3>. QED BY <1>0, <3>1, <3>2
    <2>4. ASSUME NEW i \in 1..Len(S)
          PROVE  i + Lag(C, S, 0) >= 1 /\ C[i + Lag(C, S, 0)] <= S[i] + b
      <3>1. CASE i = Len(S)
        BY <1>0, <1>1, <1>2, <2>1, <3>1
      <3>2. CASE i # Len(S)
        <4>1. n + i \in 1..Len(R) /\ n + i > n /\ S[i] = R[n + i]
          BY <1>0, <1>1, <3>2
        <4>2. (n + i) + Lag(C, R, 1) = i + Lag(C, S, 0)
          BY <1>0, <1>2
        <4>. QED BY <2>2, <4>1, <4>2
      <3>. QED BY <3>1, <3>2
    <2>. QED BY <2>3, <2>4 DEF Paced
  <1>. QED BY <1>3, <1>4 DEF Followed, S

LEMMA AgingKeepsPairs ==
  ASSUME NEW C \in Histories, NEW R \in Histories, InOrder(C), InOrder(R), NEW b \in Nat,
         NEW p \in {0, 1}, NEW l \in Nat, Followed(C, R, p)
  PROVE  /\ Followed(Older(C), Older(R), p)
         /\ Paced(C, R, p, b, l) /\ (p = 1 => l > 0) /\ (p = 0 => l = 0)
              => Paced(Older(C), Older(R), p, b, Less(l))
  <1>0. /\ Len(C) \in Nat /\ Len(R) \in Nat /\ Window \in Nat
        /\ \A i \in 1..Len(C) : C[i] \in 0..Window
        /\ \A i \in 1..Len(R) : R[i] \in 0..Window
    BY HistoryTypes
  <1>1. /\ Len(Older(C)) = Len(C) /\ Len(Older(R)) = Len(R)
        /\ \A i \in 1..Len(C) : Older(C)[i] = IF C[i] < Window THEN C[i] + 1 ELSE Window
        /\ \A i \in 1..Len(R) : Older(R)[i] = IF R[i] < Window THEN R[i] + 1 ELSE Window
    BY Aging
  <1>2. Lag(Older(C), Older(R), p) = Lag(C, R, p)
    BY <1>1 DEF Lag
  <1>3. ASSUME NEW j \in 1..(Len(C) - p), Older(C)[j] < Window
        PROVE  /\ j - Lag(C, R, p) \in 1..Len(R)
               /\ Older(R)[j - Lag(C, R, p)] <= Older(C)[j]
    <2>1. j \in 1..Len(C) /\ C[j] < Window
      BY <1>0, <1>1, <1>3
    <2>2. j - Lag(C, R, p) \in 1..Len(R) /\ R[j - Lag(C, R, p)] <= C[j]
      BY <2>1, <1>3 DEF Followed
    <2>. QED BY <1>0, <1>1, <2>1, <2>2
  <1>4. ASSUME Paced(C, R, p, b, l), p = 1 => l > 0, p = 0 => l = 0
        PROVE  Paced(Older(C), Older(R), p, b, Less(l))
    <2>0. p = 1 => Len(C) > 0 /\ C[Len(C)] + l <= b
      BY <1>4 DEF Paced
    <2>1. /\ Less(l) \in Nat
          /\ p = 1 => Less(l) = l - 1
          /\ p = 0 => Less(l) = 0
      BY <1>4 DEF Less
    <2>2. ASSUME NEW i \in 1..Len(R)
          PROVE  IF i + Lag(C, R, p) >= 1 THEN Older(C)[i + Lag(C, R, p)] <= Older(R)[i] + b
                                          ELSE Older(R)[i] + Less(l) >= Window
      <3>. DEFINE k == i + Lag(C, R, p)
      <3>1. k \in Int /\ k <= Len(C)
        BY <1>0 DEF Lag
      <3>2. IF k >= 1 THEN C[k] <= R[i] + b ELSE R[i] + l >= Window
        BY <1>4 DEF Paced
      <3>. HIDE DEF k
      <3>3. CASE k >= 1
        <4>1. k \in 1..Len(C)
          BY <3>1, <3>3
        <4>. QED BY <1>0, <1>1, <3>2, <3>3, <4>1 DEF k
      <3>4. CASE ~(k >= 1)
        <4>1. /\ R[i] \in Nat /\ R[i] + l >= Window /\ Older(R)[i] \in Nat
              /\ Older(R)[i] = R[i] + 1 \/ Older(R)[i] = Window
          BY <1>0, <1>1, <3>2, <3>4
        <4>2. Older(R)[i] + Less(l) >= Window
          <5>1. CASE p = 1
            BY <1>0, <1>4, <2>1, <4>1, <5>1
          <5>2. CASE p = 0
            BY <1>0, <1>1, <1>4, <2>1, <4>1, <5>2
          <5>. QED BY <5>1, <5>2
        <4>. QED BY <3>4, <4>2 DEF k
      <3>. QED BY <3>3, <3>4
    <2>3. p = 1 => Len(C) > 0 /\ Older(C)[Len(C)] + Less(l) <= b
      <3>1. CASE p = 1
        <4>1. Len(C) \in 1..Len(C) /\ C[Len(C)] \in Nat /\ Older(C)[Len(C)] <= C[Len(C)] + 1
              /\ Older(C)[Len(C)] \in Nat
          BY <1>0, <1>1, <2>0, <3>1
        <4>. QED BY <1>4, <2>0, <2>1, <3>1, <4>1
      <3>. QED BY <3>1
    <2>. QED BY <1>1, <1>2, <2>2, <2>3 DEF Paced
  <1>. QED BY <1>1, <1>2, <1>3, <1>4 DEF Followed

----------------------------------------------------------------------------
(* The histories along a behaviour                                          *)

Owed(c) == IF task[c] \in {"backoff", "spawning"} THEN 1 ELSE 0
Sleep(c) == IF task[c] = "backoff" THEN left[c] ELSE 0

Watched(c) ==
    /\ Len(crashes[c]) < Threshold
    /\ Followed(crashes[c], restarts[c], Owed(c))
    /\ faults.late = 0 => Paced(crashes[c], restarts[c], Owed(c), backoff[c], Sleep(c))

HistoriesAreSound ==
    /\ task \in [Children -> {"none", "watching", "backoff", "spawning", "done"}]
    /\ left \in [Children -> Nat] /\ backoff \in [Children -> 1..BackoffMax]
    /\ crashes \in [Children -> Histories] /\ restarts \in [Children -> Histories]
    /\ faults \in [crash : Nat, late : Nat, spawn : Nat]
    /\ \A c \in Children : InOrder(crashes[c]) /\ InOrder(restarts[c])

NothingBeforeWatching ==
    main.phase = "starting" => \A c \in Children : crashes[c] = <<>> /\ restarts[c] = <<>>

CrashesAreRestarted == \A c \in Children : task[c] # "done" => Watched(c)

LoopInv ==
    HistoriesAreSound /\ NothingBeforeWatching /\ CrashesAreRestarted /\ RestartsAreRare

LEMMA Numbers ==
  /\ Threshold \in Nat \ {0} /\ Window \in Nat \ {0} /\ BackoffMax \in Nat \ {0}
  /\ BackoffInitial \in 1..BackoffMax
  BY SupervisorAssumption

(* No crash, no restart.                                                    *)
LEMMA NoHistory ==
  ASSUME NEW b \in Nat
  PROVE  /\ <<>> \in Histories /\ InOrder(<<>>) /\ Len(<<>>) = 0
         /\ Followed(<<>>, <<>>, 0) /\ Paced(<<>>, <<>>, 0, b, 0)
  BY DEF Histories, InOrder, Followed, Paced, Lag

(* A longer backoff than the one that was slept does no harm.               *)
LEMMA PacedGrows ==
  ASSUME NEW C \in Histories, NEW R \in Histories, NEW b \in Nat, NEW e \in Nat, b <= e,
         Paced(C, R, 1, b, 0)
  PROVE  Paced(C, R, 1, e, 0)
  <1>1. /\ Len(C) \in Nat /\ Len(R) \in Nat /\ Window \in Nat
        /\ \A i \in 1..Len(C) : C[i] \in Nat
        /\ \A i \in 1..Len(R) : R[i] \in Nat
    BY HistoryTypes, Numbers
  <1>2. ASSUME NEW i \in 1..Len(R)
        PROVE  IF i + Lag(C, R, 1) >= 1 THEN C[i + Lag(C, R, 1)] <= R[i] + e
                                        ELSE R[i] + 0 >= Window
    <2>1. i + Lag(C, R, 1) \in Int /\ i + Lag(C, R, 1) <= Len(C)
      BY <1>1 DEF Lag
    <2>2. IF i + Lag(C, R, 1) >= 1 THEN C[i + Lag(C, R, 1)] <= R[i] + b
                                   ELSE R[i] + 0 >= Window
      BY DEF Paced
    <2>3. CASE i + Lag(C, R, 1) >= 1
      <3>1. C[i + Lag(C, R, 1)] \in Nat
        BY <1>1, <2>1, <2>3
      <3>. QED BY <1>1, <2>2, <2>3, <3>1
    <2>. QED BY <2>2, <2>3
  <1>3. Len(C) > 0 /\ C[Len(C)] + 0 <= e
    BY <1>1 DEF Paced
  <1>. QED BY <1>2, <1>3 DEF Paced

(* A set of places of a history is no larger than the history.              *)
LEMMA PlacesCount ==
  ASSUME NEW s \in Histories
  PROVE  /\ Cardinality({i \in DOMAIN s : s[i] < Window}) \in Nat
         /\ Cardinality({i \in DOMAIN s : s[i] < Window}) <= Len(s)
  <1>. DEFINE places == {i \in DOMAIN s : s[i] < Window}
  <1>1. Len(s) \in Nat /\ DOMAIN s = 1..Len(s)
    BY LenProperties DEF Histories
  <1>2. IsFiniteSet(1..Len(s)) /\ Cardinality(1..Len(s)) = Len(s)
    <2>1. ASSUME NEW k \in Nat PROVE IsFiniteSet(1..k) /\ Cardinality(1..k) = k
      BY FS_Interval
    <2>. QED BY <1>1, <2>1
  <1>3. places \in SUBSET (1..Len(s))
    BY <1>1
  <1>. HIDE DEF places
  <1>4. Cardinality(places) <= Cardinality(1..Len(s)) /\ IsFiniteSet(places)
    BY <1>2, <1>3, FS_Subset
  <1>5. Cardinality(places) \in Nat
    BY <1>4, FS_CardinalityType
  <1>. QED BY <1>2, <1>4, <1>5 DEF places

(* ... and no larger when time has passed.                                  *)
LEMMA PlacesAge ==
  ASSUME NEW s \in Histories, InOrder(s), NEW bound \in Nat,
         Cardinality({i \in DOMAIN s : s[i] < Window}) < bound
  PROVE  Cardinality({i \in DOMAIN Older(s) : Older(s)[i] < Window}) < bound
  <1>. DEFINE before == {i \in DOMAIN s : s[i] < Window}
              after == {i \in DOMAIN Older(s) : Older(s)[i] < Window}
  <1>1. /\ Len(s) \in Nat /\ DOMAIN s = 1..Len(s) /\ DOMAIN Older(s) = 1..Len(s)
        /\ Window \in Nat /\ \A i \in 1..Len(s) : s[i] \in Nat
        /\ \A i \in 1..Len(s) : Older(s)[i] = IF s[i] < Window THEN s[i] + 1 ELSE Window
    BY LenProperties, HistoryTypes, Aging DEF Histories
  <1>2. after \in SUBSET before /\ before \in SUBSET (1..Len(s))
    BY <1>1
  <1>3. IsFiniteSet(1..Len(s))
    BY <1>1, FS_Interval
  <1>. HIDE DEF before, after
  <1>4. IsFiniteSet(before)
    BY <1>2, <1>3, FS_Subset
  <1>5. Cardinality(after) <= Cardinality(before) /\ IsFiniteSet(after)
    BY <1>2, <1>4, FS_Subset
  <1>6. Cardinality(after) \in Nat /\ Cardinality(before) \in Nat
    BY <1>4, <1>5, FS_CardinalityType
  <1>. QED BY <1>5, <1>6 DEF before, after

LEMMA LoopStart == Init => LoopInv
  <1>. SUFFICES ASSUME Init PROVE LoopInv
    OBVIOUS
  <1>1. HistoriesAreSound
    BY Numbers, NoHistory DEF Init, HistoriesAreSound
  <1>2. NothingBeforeWatching
    BY DEF Init, NothingBeforeWatching
  <1>3. ASSUME NEW c \in Children
        PROVE  /\ Owed(c) = 0 /\ Sleep(c) = 0 /\ crashes[c] = <<>> /\ restarts[c] = <<>>
               /\ backoff[c] \in Nat
    BY <1>3, Numbers DEF Init, Owed, Sleep
  <1>4. CrashesAreRestarted
    BY <1>3, NoHistory, Numbers DEF CrashesAreRestarted, Watched
  <1>5. RestartsAreRare
    <2>1. ASSUME NEW c \in Children
          PROVE  Cardinality({i \in DOMAIN restarts[c] : restarts[c][i] < Window}) < Threshold
      <3>1. restarts[c] \in Histories /\ Len(restarts[c]) = 0
        BY <1>3, NoHistory
      <3>2. /\ Cardinality({i \in DOMAIN restarts[c] : restarts[c][i] < Window}) \in Nat
            /\ Cardinality({i \in DOMAIN restarts[c] : restarts[c][i] < Window}) <= Len(restarts[c])
        BY <3>1, PlacesCount
      <3>. QED BY <3>1, <3>2, Numbers
    <2>. QED BY <2>1 DEF RestartsAreRare
  <1>. QED BY <1>1, <1>2, <1>4, <1>5 DEF LoopInv

(* Steps that leave the histories alone: a watcher stays where it is, ends, *)
(* or begins.                                                               *)
LEMMA LoopWaits ==
  ASSUME LoopInv, UNCHANGED <<left, backoff, crashes, restarts>>,
         faults' \in [crash : Nat, late : Nat, spawn : Nat], faults'.late = faults.late,
         main'.phase = "starting" => main.phase = "starting",
         DOMAIN task' = Children, task' = [c \in Children |-> task'[c]],
         \A c \in Children : \/ task'[c] \in {task[c], "done"}
                             \/ task'[c] = "watching" /\ main.phase = "starting"
  PROVE  LoopInv'
  <1>1. HistoriesAreSound'
    BY DEF LoopInv, HistoriesAreSound
  <1>2. NothingBeforeWatching'
    BY DEF LoopInv, NothingBeforeWatching
  <1>3. ASSUME NEW c \in Children, task'[c] # "done" PROVE Watched(c)'
    <2>1. CASE task'[c] = task[c]
      BY <1>3, <2>1 DEF LoopInv, CrashesAreRestarted, Watched, Owed, Sleep
    <2>2. CASE task'[c] = "watching" /\ main.phase = "starting"
      <3>1. /\ crashes'[c] = <<>> /\ restarts'[c] = <<>> /\ backoff'[c] \in Nat
            /\ Owed(c)' = 0 /\ Sleep(c)' = 0
        BY <2>2, Numbers DEF LoopInv, NothingBeforeWatching, HistoriesAreSound, Owed, Sleep
      <3>. QED BY <3>1, NoHistory, Numbers DEF Watched
    <2>. QED BY <1>3, <2>1, <2>2
  <1>4. RestartsAreRare'
    BY DEF LoopInv, RestartsAreRare
  <1>. QED BY <1>1, <1>2, <1>3, <1>4 DEF LoopInv, CrashesAreRestarted

LEMMA LoopExit ==
  ASSUME StopInv, LoopInv, NEW c \in Children, WatchExit(c)
  PROVE  LoopInv'
  <1>. DEFINE C == crashes[c]
              R == restarts[c]
  <1>1. /\ C \in Histories /\ R \in Histories /\ InOrder(C) /\ InOrder(R)
        /\ backoff[c] \in Nat /\ Watched(c) /\ Owed(c) = 0 /\ Sleep(c) = 0
        /\ task[c] = "watching" /\ main.phase = "watching"
    BY Numbers DEF LoopInv, HistoriesAreSound, CrashesAreRestarted, WatchExit, Owed, Sleep,
       StopInv, WatchersAreOver
  <1>2. /\ Append(Within(C), 0) \in Histories /\ InOrder(Append(Within(C), 0))
        /\ Len(Append(Within(C), 0)) = Len(Within(C)) + 1
        /\ Len(Within(C)) \in Nat
    <2>1. Len(C) \in Nat
      BY <1>1, HistoryTypes
    <2>2. PICK n \in 0..Len(C) :
            /\ Append(Within(C), 0) \in Histories /\ InOrder(Append(Within(C), 0))
            /\ Len(Within(C)) = Len(C) - n
            /\ Len(Append(Within(C), 0)) = Len(C) - n + 1
      BY <1>1, Recorded
    <2>. QED BY <2>1, <2>2
  <1>3. crashes' = [crashes EXCEPT ![c] = Append(Within(C), 0)]
        /\ UNCHANGED <<proc, backoff, restarts, shutdown, faults>>
    BY DEF WatchExit, Recent
  <1>4. HistoriesAreSound'
    <2>1. left' \in [Children -> Nat] /\ task' \in [Children -> {"none", "watching", "backoff", "spawning", "done"}]
      BY <1>1 DEF LoopInv, HistoriesAreSound, WatchExit
    <2>. QED BY <1>2, <1>3, <2>1 DEF LoopInv, HistoriesAreSound
  <1>5. NothingBeforeWatching'
    BY <1>1 DEF WatchExit, StopAll, NothingBeforeWatching
  <1>6. RestartsAreRare'
    BY <1>3 DEF LoopInv, RestartsAreRare
  <1>7. CASE GivesUp(c)
    BY <1>4, <1>5, <1>6, <1>7 DEF WatchExit, LoopInv, CrashesAreRestarted
  <1>8. CASE ~GivesUp(c)
    <2>1. /\ task' = [task EXCEPT ![c] = "backoff"] /\ left' = [left EXCEPT ![c] = backoff[c]]
          /\ DOMAIN task = Children /\ DOMAIN left = Children
      BY <1>8 DEF WatchExit, LoopInv, HistoriesAreSound
    <2>2. /\ crashes'[c] = Append(Within(C), 0) /\ restarts'[c] = R /\ backoff'[c] = backoff[c]
          /\ Owed(c)' = 1 /\ Sleep(c)' = backoff[c]
      BY <1>3, <2>1 DEF LoopInv, HistoriesAreSound, Owed, Sleep
    <2>3. Len(Append(Within(C), 0)) < Threshold
      BY <1>2, <1>8, Numbers DEF GivesUp, Recent
    <2>4. Watched(c)'
      BY <1>1, <1>3, <2>2, <2>3, ExitKeepsPairs DEF Watched
    <2>5. ASSUME NEW d \in Children, d # c, task'[d] # "done" PROVE Watched(d)'
      BY <1>3, <2>1, <2>5 DEF LoopInv, CrashesAreRestarted, Watched, Owed, Sleep
    <2>. QED BY <1>4, <1>5, <1>6, <2>4, <2>5 DEF LoopInv, CrashesAreRestarted
  <1>. QED BY <1>7, <1>8

LEMMA LoopBackoffOver ==
  ASSUME StopInv, LoopInv, NEW c \in Children, BackoffOver(c)
  PROVE  LoopInv'
  <1>1. /\ task[c] = "backoff" /\ left[c] = 0 /\ AfterBackoff \in {"done", "spawning"}
        /\ task' = [task EXCEPT ![c] = AfterBackoff]
        /\ backoff' = [backoff EXCEPT ![c] = NextBackoff(backoff[c])]
        /\ UNCHANGED <<main, exit, proc, left, crashes, restarts, shutdown, faults>>
    BY DEF BackoffOver, AfterBackoff
  <1>2. NextBackoff(backoff[c]) \in 1..BackoffMax /\ NextBackoff(backoff[c]) >= backoff[c]
        /\ backoff[c] \in Nat
    BY Numbers DEF NextBackoff, LoopInv, HistoriesAreSound
  <1>3. HistoriesAreSound'
    BY <1>1, <1>2 DEF LoopInv, HistoriesAreSound
  <1>4. NothingBeforeWatching' /\ RestartsAreRare'
    BY <1>1 DEF LoopInv, NothingBeforeWatching, RestartsAreRare
  <1>5. ASSUME task'[c] # "done" PROVE Watched(c)'
    <2>1. /\ Owed(c) = 1 /\ Sleep(c) = 0 /\ Owed(c)' = 1 /\ Sleep(c)' = 0
          /\ backoff'[c] = NextBackoff(backoff[c]) /\ Watched(c)
          /\ crashes[c] \in Histories /\ restarts[c] \in Histories
      BY <1>1, <1>5 DEF LoopInv, HistoriesAreSound, CrashesAreRestarted, Owed, Sleep
    <2>2. ASSUME Paced(crashes[c], restarts[c], 1, backoff[c], 0)
          PROVE  Paced(crashes[c], restarts[c], 1, backoff'[c], 0)
      <3>1. backoff'[c] \in Nat /\ backoff'[c] >= backoff[c] /\ backoff[c] \in Nat
        BY <1>2, <2>1, Numbers
      <3>. QED BY <2>1, <2>2, <3>1, PacedGrows
    <2>. QED BY <1>1, <2>1, <2>2 DEF Watched
  <1>6. ASSUME NEW d \in Children, d # c, task'[d] # "done" PROVE Watched(d)'
    BY <1>1, <1>6 DEF LoopInv, HistoriesAreSound, CrashesAreRestarted, Watched, Owed, Sleep
  <1>. QED BY <1>3, <1>4, <1>5, <1>6 DEF LoopInv, CrashesAreRestarted

LEMMA LoopRespawn ==
  ASSUME StopInv, LoopInv, NEW c \in Children, Respawn(c)
  PROVE  LoopInv'
  <1>. DEFINE C == crashes[c]
              R == restarts[c]
              S == Append(Within(R), 0)
  <1>1. /\ task[c] = "spawning" /\ task'[c] \in {"done", "watching"}
        /\ task' = [task EXCEPT ![c] = task'[c]]
        /\ restarts' = [restarts EXCEPT ![c] = S]
        /\ UNCHANGED <<main, exit, left, backoff, crashes, shutdown, faults>>
    BY DEF Respawn, LoopInv, HistoriesAreSound
  <1>2. /\ C \in Histories /\ R \in Histories /\ InOrder(C) /\ InOrder(R) /\ backoff[c] \in Nat
        /\ Watched(c) /\ Owed(c) = 1 /\ Sleep(c) = 0 /\ main.phase = "watching"
    BY <1>1, Numbers DEF LoopInv, HistoriesAreSound, CrashesAreRestarted, Owed, Sleep,
       StopInv, WatchersAreOver
  <1>3. S \in Histories /\ InOrder(S)
    BY <1>2, Recorded
  <1>. HIDE DEF S
  <1>4. HistoriesAreSound'
    BY <1>1, <1>3 DEF LoopInv, HistoriesAreSound
  <1>5. NothingBeforeWatching'
    BY <1>1, <1>2 DEF NothingBeforeWatching
  <1>6. ASSUME task'[c] # "done" PROVE Watched(c)'
    <2>1. /\ Owed(c)' = 0 /\ Sleep(c)' = 0 /\ restarts'[c] = S
      BY <1>1, <1>6 DEF LoopInv, HistoriesAreSound, Owed, Sleep
    <2>. QED BY <1>1, <1>2, <2>1, RespawnKeepsPairs DEF Watched, S
  <1>7. ASSUME NEW d \in Children, d # c, task'[d] # "done" PROVE Watched(d)'
    BY <1>1, <1>7 DEF LoopInv, HistoriesAreSound, CrashesAreRestarted, Watched, Owed, Sleep
  <1>8. ASSUME faults'.late = 0, NEW d \in Children
        PROVE  Cardinality({i \in DOMAIN restarts'[d] : restarts'[d][i] < Window}) < Threshold
    <2>1. CASE d = c
      <3>1. Len(S) <= Len(C) /\ Len(C) < Threshold
        BY <1>1, <1>2, <1>8, RespawnKeepsPairs DEF Watched, S
      <3>2. restarts'[d] = S
        BY <1>1, <2>1 DEF LoopInv, HistoriesAreSound
      <3>3. Cardinality({i \in DOMAIN S : S[i] < Window}) <= Len(S)
        BY <1>3, PlacesCount
      <3>4. Cardinality({i \in DOMAIN S : S[i] < Window}) \in Int /\ Len(S) \in Nat /\ Len(C) \in Nat
        BY <1>2, <1>3, HistoryTypes, PlacesCount
      <3>. QED BY <3>1, <3>2, <3>3, <3>4, Numbers
    <2>2. CASE d # c
      BY <1>1, <1>8, <2>2 DEF LoopInv, HistoriesAreSound, RestartsAreRare
    <2>. QED BY <2>1, <2>2
  <1>. QED BY <1>4, <1>5, <1>6, <1>7, <1>8 DEF LoopInv, CrashesAreRestarted, RestartsAreRare

LEMMA LoopTick ==
  ASSUME StopInv, LoopInv, Tick
  PROVE  LoopInv'
  <1>1. /\ main'.phase = main.phase /\ UNCHANGED <<exit, proc, task, backoff, shutdown>>
        /\ left' = [c \in Children |-> Less(left[c])]
        /\ crashes' = [c \in Children |-> Older(crashes[c])]
        /\ restarts' = [c \in Children |-> Older(restarts[c])]
    BY DEF Tick, StopInv, MainIsPlaced
  <1>2. /\ faults' \in [crash : Nat, late : Nat, spawn : Nat]
        /\ faults'.late = 0 => faults.late = 0 /\ \A c \in Children : ~Due(c)
    BY DEF Tick, LoopInv, HistoriesAreSound
  <1>3. ASSUME NEW c \in Children
        PROVE  /\ Less(left[c]) \in Nat /\ backoff[c] \in Nat /\ left[c] \in Nat
               /\ crashes[c] \in Histories /\ restarts[c] \in Histories
               /\ InOrder(crashes[c]) /\ InOrder(restarts[c])
               /\ Older(crashes[c]) \in Histories /\ Older(restarts[c]) \in Histories
               /\ InOrder(Older(crashes[c])) /\ InOrder(Older(restarts[c]))
               /\ Len(Older(crashes[c])) = Len(crashes[c])
    BY <1>3, Aging, Numbers DEF LoopInv, HistoriesAreSound, Less
  <1>4. HistoriesAreSound'
    BY <1>1, <1>2, <1>3 DEF LoopInv, HistoriesAreSound
  <1>5. NothingBeforeWatching'
    BY <1>1, NoHistory DEF LoopInv, NothingBeforeWatching, Older
  <1>6. ASSUME NEW c \in Children, task'[c] # "done" PROVE Watched(c)'
    <2>1. /\ crashes'[c] = Older(crashes[c]) /\ restarts'[c] = Older(restarts[c])
          /\ left'[c] = Less(left[c]) /\ backoff'[c] = backoff[c] /\ task'[c] = task[c]
          /\ Owed(c)' = Owed(c) /\ Owed(c) \in {0, 1} /\ Sleep(c) \in Nat /\ Watched(c)
      BY <1>1, <1>3, <1>6 DEF LoopInv, CrashesAreRestarted, Owed, Sleep
    <2>2. Sleep(c)' = Less(Sleep(c))
      BY <2>1 DEF Sleep, Less
    <2>3. ASSUME ~Due(c) PROVE (Owed(c) = 1 => Sleep(c) > 0) /\ (Owed(c) = 0 => Sleep(c) = 0)
      BY <1>3, <2>3 DEF Due, Owed, Sleep
    <2>4. Followed(crashes'[c], restarts'[c], Owed(c)')
      BY <1>3, <2>1, AgingKeepsPairs DEF Watched
    <2>5. ASSUME faults'.late = 0
          PROVE  Paced(crashes'[c], restarts'[c], Owed(c)', backoff'[c], Sleep(c)')
      <3>1. ~Due(c) /\ Paced(crashes[c], restarts[c], Owed(c), backoff[c], Sleep(c))
        BY <1>2, <2>1, <2>5 DEF Watched
      <3>. QED BY <1>3, <2>1, <2>2, <2>3, <3>1, AgingKeepsPairs DEF Watched
    <2>. QED BY <1>3, <2>1, <2>4, <2>5 DEF Watched
  <1>7. RestartsAreRare'
    BY <1>1, <1>2, <1>3, PlacesAge, Numbers DEF LoopInv, RestartsAreRare
  <1>. QED BY <1>4, <1>5, <1>6, <1>7 DEF LoopInv, CrashesAreRestarted

LEMMA LoopStep == StopInv /\ LoopInv /\ [Next]_vars => LoopInv'
  <1>. SUFFICES ASSUME StopInv, LoopInv, [Next]_vars PROVE LoopInv'
    OBVIOUS
  <1>. USE DEF watchers
  <1>0. /\ MainIsPlaced /\ task \in [Children -> {"none", "watching", "backoff", "spawning", "done"}]
        /\ faults \in [crash : Nat, late : Nat, spawn : Nat]
    BY DEF StopInv, LoopInv, HistoriesAreSound
  <1>1. CASE UNCHANGED vars
    BY <1>0, <1>1, LoopWaits DEF vars
  <1>2. CASE Run
    <2>1. UNCHANGED <<left, backoff, crashes, restarts, faults>>
      BY <1>2 DEF Run, SpawnNext, GateCheck, GateProbe, LeaveWatch, StopTerminate, StopExited, StopKill
    <2>3. main'.phase = "starting" => main.phase = "starting"
      <3>1. CASE SpawnNext \/ GateCheck \/ GateProbe
        BY <1>0, <3>1 DEF SpawnNext, GateCheck, GateProbe, MainIsPlaced
      <3>2. CASE LeaveWatch
        BY <3>2 DEF LeaveWatch, StopAll
      <3>3. CASE StopTerminate \/ StopExited \/ StopKill
        <4>1. /\ main.phase = "stopping"
              /\ main' = StopNext \/ main' = [main EXCEPT !.step = "grace", !.timer = Grace]
          BY <1>0, <3>3 DEF StopTerminate, StopExited, StopKill, MainIsPlaced
        <4>2. StopNext.phase # "starting"
          BY <1>0, <4>1, Places
        <4>. QED BY <1>0, <4>1, <4>2 DEF MainIsPlaced
      <3>. QED BY <1>2, <3>1, <3>2, <3>3 DEF Run
    <2>2. \/ UNCHANGED task
          \/ main.phase = "starting" /\ task' = [c \in Children |-> "watching"]
      BY <1>0, <1>2 DEF Run, SpawnNext, GoOn, GateCheck, GateProbe, LeaveWatch, StopTerminate,
         StopExited, StopKill, MainIsPlaced
    <2>. QED BY <1>0, <2>1, <2>2, <2>3, LoopWaits
  <1>3. ASSUME NEW c \in Children, Watch(c) PROVE LoopInv'
    <2>1. CASE WatchShutdown(c)
      BY <1>0, <2>1, LoopWaits DEF WatchShutdown
    <2>. QED BY <1>3, <2>1, LoopExit, LoopBackoffOver, LoopRespawn DEF Watch
  <1>4. CASE Environment
    <2>1. CASE (\E c \in Children : Listen(c) \/ ChildExits(c)) \/ ObeyTerm \/ Signal
      <3>1. /\ UNCHANGED <<task, left, backoff, crashes, restarts, main>>
            /\ faults' \in [crash : Nat, late : Nat, spawn : Nat] /\ faults'.late = faults.late
        BY <1>0, <2>1 DEF Listen, ChildExits, ObeyTerm, Signal
      <3>. QED BY <1>0, <3>1, LoopWaits
    <2>2. CASE SpawnRaises
      <3>1. /\ UNCHANGED <<left, backoff, crashes, restarts>> /\ main'.phase = "failed"
            /\ task' = [c \in Children |-> "done"]
            /\ faults' \in [crash : Nat, late : Nat, spawn : Nat] /\ faults'.late = faults.late
        BY <1>0, <2>2 DEF SpawnRaises, MainIsPlaced
      <3>. QED BY <1>0, <3>1, LoopWaits
    <2>. QED BY <1>4, <2>1, <2>2, LoopTick DEF Environment
  <1>. QED BY <1>1, <1>2, <1>3, <1>4 DEF Next

(* The crash that makes the supervisor give up finds a restart within the   *)
(* window for each crash that is counted.                                   *)
LEMMA GivingUpIsDue ==
  ASSUME StopInv, LoopInv, Next, exit' = "poison_pill", exit # "poison_pill"
  PROVE  \E c \in Children :
             /\ Len(restarts[c]) + 1 >= Threshold
             /\ \A i \in 1..Len(restarts[c]) :
                   Len(restarts[c]) - i < Threshold - 1 => restarts[c][i] < Window
  <1>1. PICK c \in Children : WatchExit(c) /\ GivesUp(c)
    BY DEF Next, Run, SpawnNext, GoOn, GateCheck, GateProbe, LeaveWatch, StopTerminate,
       StopExited, StopKill, Watch, WatchShutdown, WatchExit, BackoffOver, Respawn,
       Environment, Listen, ChildExits, ObeyTerm, Signal, Tick, SpawnRaises
  <1>. DEFINE C == crashes[c]
              R == restarts[c]
              k == Len(R)
              m == Len(C)
  <1>2. /\ C \in Histories /\ R \in Histories /\ InOrder(C) /\ Followed(C, R, 0)
    BY <1>1 DEF LoopInv, HistoriesAreSound, CrashesAreRestarted, WatchExit, Watched, Owed
  <1>3. /\ m \in Nat /\ k \in Nat
        /\ \A i \in 1..m : C[i] \in Nat
        /\ \A i \in 1..k : R[i] \in Nat
    BY <1>2, HistoryTypes
  <1>4. PICK n \in 0..m : /\ Len(Within(C)) = m - n
                          /\ \A i \in 1..m : C[i] < Window <=> i > n
    BY <1>2, RecentPart
  <1>5. m - n + 1 >= Threshold
    BY <1>1, <1>4 DEF GivesUp, Recent
  <1>6. ASSUME NEW j \in 1..m, j > n
        PROVE  j - m + k \in 1..k /\ R[j - m + k] < Window
    <2>1. Lag(C, R, 0) = m - k /\ m - 0 = m
      BY <1>3 DEF Lag
    <2>2. j - (m - k) \in 1..k /\ R[j - (m - k)] <= C[j]
      BY <1>2, <1>3, <1>4, <1>6, <2>1 DEF Followed
    <2>3. j - (m - k) = j - m + k
      BY <1>3
    <2>4. C[j] < Window /\ C[j] \in Nat
      BY <1>3, <1>4, <1>6
    <2>5. R[j - m + k] \in Nat
      BY <1>3, <2>2, <2>3
    <2>6. R[j - m + k] <= C[j] /\ j - m + k \in 1..k
      BY <2>2, <2>3
    <2>. HIDE DEF C, R, m, k
    <2>. QED BY <2>4, <2>5, <2>6, Numbers
  <1>. HIDE DEF k, m, C, R
  <1>7. k + 1 >= Threshold
    <2>1. CASE n = m
      BY <1>3, <1>4, <1>5, <2>1, Numbers
    <2>2. CASE n < m
      <3>1. (n + 1) - m + k \in 1..k
        BY <1>3, <1>4, <1>6, <2>2
      <3>. QED BY <1>3, <1>4, <1>5, <3>1, Numbers
    <2>. QED BY <1>3, <1>4, <2>1, <2>2
  <1>8. ASSUME NEW i \in 1..k, k - i < Threshold - 1 PROVE R[i] < Window
    <2>1. i - k + m \in 1..m /\ i - k + m > n /\ (i - k + m) - m + k = i
      BY <1>3, <1>4, <1>5, <1>8, Numbers
    <2>. QED BY <1>6, <2>1
  <1>. QED BY <1>7, <1>8 DEF k, R

----------------------------------------------------------------------------
(* The theorems                                                             *)

THEOREM StopInductive == Spec => []StopInv
  BY StopStart, StopStep, PTL DEF Spec

(* However run() is told to stop, and whatever its watchers were doing, no  *)
(* child outlives it.                                                       *)
THEOREM LeavesNoOrphans == Spec => []NoOrphans
  <1>1. StopInv => NoOrphans
    BY DEF StopInv
  <1>. QED BY <1>1, StopInductive, PTL

(* A child goes only after every child that was started after it.           *)
THEOREM ReverseOrder == Spec => []StoppedInReverse
  <1>1. StopInv => StoppedInReverse
    BY DEF StopInv
  <1>. QED BY <1>1, StopInductive, PTL

(* Nothing is started once stopping has begun.                              *)
THEOREM StartsNothingWhileStopping == Spec => NoStartWhileStopping
  <1>1. StopInv /\ [Next]_vars =>
          [main.phase \in {"stopping", "exited", "failed"} =>
              \A c \in Children : proc'[c] \in Alive => proc[c] \in Alive]_vars
    BY NothingStarts
  <1>. QED BY <1>1, StopInductive, PTL DEF Spec, NoStartWhileStopping

(* Unless the event loop is held up, no child is restarted as often as the  *)
(* threshold within one window, whatever the environment does.              *)
THEOREM RestartsStayRare == Spec => []RestartsAreRare
  <1>1. StopInv /\ LoopInv => RestartsAreRare
    BY DEF LoopInv
  <1>. QED BY <1>1, LoopStart, LoopStep, StopInductive, PTL DEF Spec

(* The supervisor gives up only on a child that was restarted again and     *)
(* again within one window.                                                 *)
THEOREM OnlyLoopsAreCut == Spec => GivesUpOnlyOnLoops
  <1>1. StopInv /\ LoopInv /\ [Next]_vars =>
          [exit' = "poison_pill" /\ exit # "poison_pill" =>
              \E c \in Children :
                 /\ Len(restarts[c]) + 1 >= Threshold
                 /\ \A i \in 1..Len(restarts[c]) :
                       Len(restarts[c]) - i < Threshold - 1 => restarts[c][i] < Window]_vars
    BY GivingUpIsDue
  <1>. QED BY <1>1, LoopStart, LoopStep, StopInductive, PTL DEF Spec, GivesUpOnlyOnLoops
=============================================================================
