---------------------------- MODULE DaemonProofs ----------------------------
(***************************************************************************)
(* What holds of Daemon for every module table, every set of failures and  *)
(* every interleaving of the two threads: the cache manager outlives its   *)
(* users (if there is one), modules come and go in order, and the daemon   *)
(* serves without its monitor thread for no reason but the known ones.     *)
(***************************************************************************)
EXTENDS Daemon, TLAPS

ServingPoints == {"start", "pidfile", "run", "loop"}

AllInited == \A i \in Enabled : i \in inited <=> i \in Inits

\* How far the three loops over the module table have come, by where the main
\* thread is.
Progress ==
    /\ main \in {"new", "netlink"} => inited = {}
    /\ main = "init" => \A i \in Enabled : i \in inited <=> i \in Inits /\ i < at
    /\ main \in ServingPoints => AllInited
    /\ main \in {"new", "netlink", "init"} => started = {}
    /\ started # {} => AllInited
    /\ main \notin {"exit", "cleanup", "unlink", "done", "crashed"} => exited = {}
    /\ main = "exit" => /\ at <= Modules
                        /\ \A i \in Enabled : i \in exited <=> i > at
    /\ main \in {"cleanup", "unlink", "done"} => \A i \in Enabled : i \in exited
    /\ \A i \in exited : \A j \in Enabled : j > i => j \in exited

\* The cache manager, the monitor thread and its handle, by where the main thread is.
Lifetime ==
    /\ main \in {"new", "netlink"} => manager = "none" /\ monitor = "none"
    /\ main \notin {"new", "netlink"} /\ manager = "none" => "manager" \in Failures
    /\ manager = "freed" => main \in {"cleanup", "unlink", "done"} /\ monitor \in {"none", "stopped"}
    /\ main \in {"cleanup", "unlink", "done"} => manager \in {"none", "freed"}
    /\ monitor = "none" /\ main \notin {"new", "netlink"} => handle # "thread"
    /\ monitor # "none" => handle = "thread"

\* Without a manager, the loop of modules_init gets past no entry that needs a cache.
Blocked ==
    manager = "none" =>
        /\ main = "init" => \A i \in Enabled \cap Dependents : i >= at
        /\ main \in ServingPoints => Enabled \cap Dependents = {}

IInv == TypeOK /\ Progress /\ Lifetime /\ Blocked

USE ModulesAssumption, TableAssumption, ErrAssumption, BackgroundAssumption DEF Module

LEMMA InitInductive == Init => IInv
<1> SUFFICES ASSUME Init PROVE IInv
  OBVIOUS
<1>1. TypeOK
  <2>1. at \in 0 .. Modules + 1
    BY DEF Init
  <2>2. running \in BOOLEAN /\ pidfile \in BOOLEAN /\ early \in BOOLEAN
    BY Zenon DEF Init
  <2>3. QED BY <2>1, <2>2 DEF Init, TypeOK
<1>2. Progress
  BY DEF Init, Progress, AllInited, ServingPoints
<1>3. Lifetime /\ Blocked
  BY DEF Init, Lifetime, Blocked, ServingPoints
<1>4. QED BY <1>1, <1>2, <1>3 DEF IInv

LEMMA MonitorInductive == IInv /\ MonitorStep => IInv'
<1> SUFFICES ASSUME IInv, MonitorStep PROVE IInv'
  OBVIOUS
<1> USE DEF MainIdle, Quit
<1>1. CASE MonitorTest
  <2>1. TypeOK' /\ Lifetime'
    BY <1>1 DEF IInv, TypeOK, Lifetime, MonitorTest
  <2>2. Progress' /\ Blocked'
    BY <1>1 DEF IInv, Progress, AllInited, Blocked, ServingPoints, MonitorTest
  <2>3. QED BY <2>1, <2>2 DEF IInv
<1>2. CASE MonitorPoll
  <2>1. TypeOK'
    BY <1>2 DEF IInv, TypeOK, MonitorPoll
  <2>2. Progress'
    BY <1>2 DEF IInv, TypeOK, Progress, AllInited, ServingPoints, MonitorPoll
  <2>3. Lifetime' /\ Blocked'
    BY <1>2 DEF IInv, TypeOK, Lifetime, Blocked, ServingPoints, MonitorPoll
  <2>4. QED BY <2>1, <2>2, <2>3 DEF IInv
<1>3. QED BY <1>1, <1>2 DEF MonitorStep

LEMMA LoopInductive ==
  IInv /\ (ModuleInit \/ ModuleStart \/ ModuleExit) => IInv'
<1> SUFFICES ASSUME IInv, ModuleInit \/ ModuleStart \/ ModuleExit PROVE IInv'
  OBVIOUS
<1> USE DEF Idle, Quit, Called, Register
<1>1. CASE ModuleInit
  <2>1. TypeOK'
    <3>1. at' \in 0 .. Modules + 1
      BY <1>1 DEF IInv, TypeOK, ModuleInit
    <3>2. running' \in BOOLEAN /\ early' \in BOOLEAN
      BY <1>1, Zenon DEF IInv, TypeOK, ModuleInit
    <3>3. QED BY <1>1, <3>1, <3>2 DEF IInv, TypeOK, ModuleInit
  <2>2. Progress'
    BY <1>1 DEF IInv, TypeOK, Progress, AllInited, ServingPoints, ModuleInit
  <2>3. Lifetime' /\ Blocked'
    BY <1>1 DEF IInv, TypeOK, Lifetime, Blocked, NoCache, ServingPoints, ModuleInit
  <2>4. QED BY <2>1, <2>2, <2>3 DEF IInv
<1>2. CASE ModuleStart
  <2>1. TypeOK'
    <3>1. at' \in 0 .. Modules + 1
      BY <1>2 DEF IInv, TypeOK, ModuleStart
    <3>2. running' \in BOOLEAN /\ early' \in BOOLEAN
      BY <1>2, Zenon DEF IInv, TypeOK, ModuleStart
    <3>3. QED BY <1>2, <3>1, <3>2 DEF IInv, TypeOK, ModuleStart
  <2>2. Progress'
    BY <1>2 DEF IInv, TypeOK, Progress, AllInited, ServingPoints, ModuleStart
  <2>3. Lifetime' /\ Blocked'
    BY <1>2 DEF IInv, TypeOK, Lifetime, Blocked, NoCache, ServingPoints, ModuleStart
  <2>4. QED BY <2>1, <2>2, <2>3 DEF IInv
<1>3. CASE ModuleExit
  <2>1. TypeOK'
    BY <1>3 DEF IInv, TypeOK, ModuleExit
  <2>2. Progress'
    BY <1>3 DEF IInv, TypeOK, Progress, AllInited, ServingPoints, ModuleExit
  <2>3. Lifetime' /\ Blocked'
    BY <1>3 DEF IInv, TypeOK, Lifetime, Blocked, NoCache, ServingPoints, ModuleExit
  <2>4. QED BY <2>1, <2>2, <2>3 DEF IInv
<1>4. QED BY <1>1, <1>2, <1>3

LEMMA MainInductive ==
  IInv /\ (\/ NewLoop \/ NetlinkInit \/ InitDone \/ StartDone \/ PidFile \/ Run
           \/ LoopEnds \/ NetlinkExit \/ Cleanup \/ Unlink \/ Terminate) => IInv'
<1> SUFFICES ASSUME IInv,
                    \/ NewLoop \/ NetlinkInit \/ InitDone \/ StartDone \/ PidFile \/ Run
                    \/ LoopEnds \/ NetlinkExit \/ Cleanup \/ Unlink \/ Terminate
             PROVE  IInv'
  OBVIOUS
<1> USE DEF Idle, Quit, Called, Register
<1>1. CASE NewLoop
  <2>1. TypeOK' BY <1>1 DEF IInv, TypeOK, Progress, NewLoop
  <2>2. Progress' BY <1>1 DEF IInv, TypeOK, Progress, AllInited, ServingPoints, NewLoop
  <2>3. Lifetime' /\ Blocked' BY <1>1 DEF IInv, TypeOK, Lifetime, Blocked, ServingPoints, NewLoop
  <2>4. QED BY <2>1, <2>2, <2>3 DEF IInv
<1>2. CASE NetlinkInit
  <2>1. TypeOK'
    <3>1. main' \in {"init", "crashed"} /\ at' \in 0 .. Modules + 1 /\ UNCHANGED <<running, pidfile, inited, started, exited, early>>
      BY <1>2 DEF NetlinkInit
    <3>2. monitor' \in {"none", "test", "poll", "stopped"} /\ handle' \in {"unset", "thread", "stale"} /\ manager' \in {"none", "live", "freed"}
      BY <1>2 DEF IInv, TypeOK, NetlinkInit
    <3>3. err' \in {"ok", "negative", "interrupted", "failed"}
      BY <1>2 DEF IInv, TypeOK, NetlinkInit
    <3>4. QED BY <3>1, <3>2, <3>3 DEF IInv, TypeOK
  <2>2. Progress' BY <1>2 DEF IInv, TypeOK, Progress, AllInited, ServingPoints, NetlinkInit
  <2>3. Lifetime' /\ Blocked' BY <1>2 DEF IInv, TypeOK, Lifetime, Blocked, ServingPoints, NetlinkInit
  <2>4. QED BY <2>1, <2>2, <2>3 DEF IInv
<1>3. CASE InitDone
  <2>1. TypeOK' BY <1>3 DEF IInv, TypeOK, Progress, InitDone
  <2>2. Progress' BY <1>3 DEF IInv, TypeOK, Progress, AllInited, ServingPoints, InitDone
  <2>3. Lifetime' /\ Blocked' BY <1>3 DEF IInv, TypeOK, Lifetime, Blocked, ServingPoints, InitDone
  <2>4. QED BY <2>1, <2>2, <2>3 DEF IInv
<1>4. CASE StartDone
  <2>1. TypeOK' BY <1>4 DEF IInv, TypeOK, Progress, StartDone
  <2>2. Progress' BY <1>4 DEF IInv, TypeOK, Progress, AllInited, ServingPoints, StartDone
  <2>3. Lifetime' /\ Blocked' BY <1>4 DEF IInv, TypeOK, Lifetime, Blocked, ServingPoints, StartDone
  <2>4. QED BY <2>1, <2>2, <2>3 DEF IInv
<1>5. CASE PidFile
  <2>1. TypeOK' BY <1>5 DEF IInv, TypeOK, Progress, PidFile
  <2>2. Progress' BY <1>5 DEF IInv, TypeOK, Progress, AllInited, ServingPoints, PidFile
  <2>3. Lifetime' /\ Blocked' BY <1>5 DEF IInv, TypeOK, Lifetime, Blocked, ServingPoints, PidFile
  <2>4. QED BY <2>1, <2>2, <2>3 DEF IInv
<1>6. CASE Run
  <2>1. TypeOK' BY <1>6 DEF IInv, TypeOK, Progress, Run
  <2>2. Progress' BY <1>6 DEF IInv, TypeOK, Progress, AllInited, ServingPoints, Run
  <2>3. Lifetime' /\ Blocked' BY <1>6 DEF IInv, TypeOK, Lifetime, Blocked, ServingPoints, Run
  <2>4. QED BY <2>1, <2>2, <2>3 DEF IInv
<1>7. CASE LoopEnds
  <2>1. TypeOK' BY <1>7 DEF IInv, TypeOK, Progress, LoopEnds
  <2>2. Progress' BY <1>7 DEF IInv, TypeOK, Progress, AllInited, ServingPoints, LoopEnds
  <2>3. Lifetime' /\ Blocked' BY <1>7 DEF IInv, TypeOK, Lifetime, Blocked, ServingPoints, LoopEnds
  <2>4. QED BY <2>1, <2>2, <2>3 DEF IInv
<1>8. CASE NetlinkExit
  <2>1. TypeOK' BY <1>8 DEF IInv, TypeOK, Progress, NetlinkExit
  <2>2. Progress' BY <1>8 DEF IInv, TypeOK, Progress, AllInited, ServingPoints, NetlinkExit
  <2>3. Lifetime' /\ Blocked' BY <1>8 DEF IInv, TypeOK, Lifetime, Blocked, ServingPoints, NetlinkExit
  <2>4. QED BY <2>1, <2>2, <2>3 DEF IInv
<1>9. CASE Cleanup
  <2>1. TypeOK' BY <1>9 DEF IInv, TypeOK, Progress, Cleanup
  <2>2. Progress' BY <1>9 DEF IInv, TypeOK, Progress, AllInited, ServingPoints, Cleanup
  <2>3. Lifetime' /\ Blocked' BY <1>9 DEF IInv, TypeOK, Lifetime, Blocked, ServingPoints, Cleanup
  <2>4. QED BY <2>1, <2>2, <2>3 DEF IInv
<1>10. CASE Terminate
  <2>1. TypeOK' BY <1>10 DEF IInv, TypeOK, Progress, Terminate
  <2>2. Progress' BY <1>10 DEF IInv, TypeOK, Progress, AllInited, ServingPoints, Terminate
  <2>3. Lifetime' /\ Blocked' BY <1>10 DEF IInv, TypeOK, Lifetime, Blocked, ServingPoints, Terminate
  <2>4. QED BY <2>1, <2>2, <2>3 DEF IInv
<1>11. CASE Unlink
  <2>1. TypeOK' BY <1>11 DEF IInv, TypeOK, Progress, Unlink
  <2>2. Progress' BY <1>11 DEF IInv, TypeOK, Progress, AllInited, ServingPoints, Unlink
  <2>3. Lifetime' /\ Blocked' BY <1>11 DEF IInv, TypeOK, Lifetime, Blocked, ServingPoints, Unlink
  <2>4. QED BY <2>1, <2>2, <2>3 DEF IInv
<1>12. QED
  BY <1>1, <1>2, <1>3, <1>4, <1>5, <1>6, <1>7, <1>8, <1>9, <1>10, <1>11

LEMMA NextInductive == IInv /\ [Next]_vars => IInv'
<1> SUFFICES ASSUME IInv, [Next]_vars PROVE IInv'
  OBVIOUS
<1>1. CASE Next
  BY <1>1, MonitorInductive, LoopInductive, MainInductive DEF Next, MainStep
<1>2. CASE UNCHANGED vars
  BY <1>2 DEF vars, IInv, TypeOK, Progress, AllInited, Lifetime, Blocked, ServingPoints
<1>3. QED BY <1>1, <1>2

LEMMA Inductive == Spec => []IInv
<1>1. Init => IInv BY InitInductive
<1>2. IInv /\ [Next]_vars => IInv' BY NextInductive
<1>3. QED BY <1>1, <1>2, PTL DEF Spec

\* The variables keep their types; in particular the loops of module.c never
\* step outside the module table.
THEOREM TypeCorrect == Spec => []TypeOK
<1>1. IInv => TypeOK BY DEF IInv
<1>2. QED BY <1>1, Inductive, PTL

\* The monitor thread never polls a manager that was freed nor outlives the loop,
\* unless libnl could not allocate the manager, and then the daemon serves only if
\* no enabled module needs a cache; the manager is freed after every module has exited.
THEOREM ManagerAlwaysSafe == Spec => []ManagerSafe
<1>1. IInv => ManagerSafe
  <2> SUFFICES ASSUME IInv PROVE ManagerSafe
    OBVIOUS
  <2>1. /\ Polling => manager = "live" \/ Unallocated
        /\ Polling /\ main = "unlink" => Unallocated
    BY DEF IInv, TypeOK, Lifetime, Polling, Unallocated
  <2>2. manager = "freed" => exited = Enabled
    BY DEF IInv, TypeOK, Progress, Lifetime
  <2>3. main = "loop" /\ manager = "none" => Dependents \cap Enabled = {}
    BY DEF IInv, Blocked, ServingPoints
  <2>4. QED BY <2>1, <2>2, <2>3 DEF ManagerSafe
<1>2. QED BY <1>1, Inductive, PTL

\* Modules are initialised before any is started, and exit in reverse order,
\* whatever fails and whenever the daemon is told to quit.
THEOREM AlwaysOrdered == Spec => []Ordered
<1>1. IInv => Ordered
  <2> SUFFICES ASSUME IInv PROVE Ordered
    OBVIOUS
  <2>1. started # {} => inited = Enabled \cap Inits
    BY DEF IInv, TypeOK, Progress, AllInited
  <2>2. exited # {} => main \in {"exit", "cleanup", "unlink", "done", "crashed"}
    BY DEF IInv, Progress
  <2>3. \A i \in exited : \A j \in Enabled : j > i => j \in exited
    BY DEF IInv, Progress
  <2>4. QED BY <2>1, <2>2, <2>3 DEF Ordered
<1>2. QED BY <1>1, Inductive, PTL

------------------------------------------------------------------------------
(* Why the monitor thread stops.                                           *)

BeforeLoop == {"init", "start", "pidfile", "run"}

\* A flag that is clear before the loop was cleared by somebody who asked to quit;
\* a thread that goes on polling has had no failure; and one that has stopped,
\* while the loop is still to come or runs, has one of the known reasons.
Reasons ==
    /\ main \in {"netlink"} \cup BeforeLoop => running \/ early
    /\ monitor = "test" => err # "failed"
    /\ /\ monitor = "stopped"
       /\ main \in BeforeLoop \/ (main = "loop" /\ running)
       => err \in {"interrupted", "negative"} \/ early

LEMMA MonitorReasons == IInv /\ Reasons /\ MonitorStep => Reasons'
<1> SUFFICES ASSUME IInv, Reasons, MonitorStep PROVE Reasons'
  OBVIOUS
<1> USE DEF MainIdle, Quit, BeforeLoop
<1>1. CASE MonitorTest
  BY <1>1 DEF IInv, TypeOK, Reasons, Lifetime, MonitorTest
<1>2. CASE MonitorPoll
  BY <1>2 DEF IInv, TypeOK, Reasons, Lifetime, MonitorPoll
<1>3. QED BY <1>1, <1>2 DEF MonitorStep

\* A flag that a module's init or start function clears was cleared early.
LEMMA Quitting ==
  ASSUME ModuleInit \/ ModuleStart
  PROVE  early' \/ UNCHANGED <<running, early>>
<1>1. main \in {"init", "start"}
  BY DEF ModuleInit, ModuleStart
<1>2. Quit \/ UNCHANGED <<running, early>>
  BY DEF ModuleInit, ModuleStart, Called, Register
<1>3. Quit => early'
  BY <1>1 DEF Quit
<1>4. QED BY <1>2, <1>3

LEMMA MainReasons == IInv /\ Reasons /\ (MainStep \/ Terminate) => Reasons'
<1> SUFFICES ASSUME IInv, Reasons, MainStep \/ Terminate PROVE Reasons'
  OBVIOUS
<1> USE DEF Idle, Quit, BeforeLoop
<1>1. CASE NewLoop \/ NetlinkInit
  BY <1>1 DEF IInv, TypeOK, Lifetime, Reasons, NewLoop, NetlinkInit
<1>2. CASE ModuleInit
  <2>1. main = "init" /\ main' \in {"init", "exit"} /\ UNCHANGED <<monitor, err>>
    BY <1>2 DEF ModuleInit
  <2>2. QED BY <1>2, <2>1, Quitting DEF Reasons
<1>3. CASE ModuleStart
  <2>1. main = "start" /\ UNCHANGED <<main, monitor, err>>
    BY <1>3 DEF ModuleStart
  <2>2. QED BY <1>3, <2>1, Quitting DEF Reasons
<1>4. CASE InitDone \/ StartDone \/ PidFile
  BY <1>4 DEF IInv, TypeOK, Reasons, InitDone, StartDone, PidFile
<1>5. CASE Run \/ Terminate \/ LoopEnds
  BY <1>5 DEF IInv, TypeOK, Reasons, Run, Terminate, LoopEnds
<1>6. CASE ModuleExit \/ NetlinkExit \/ Cleanup \/ Unlink
  BY <1>6 DEF IInv, TypeOK, Reasons, ModuleExit, NetlinkExit, Cleanup, Unlink
<1>7. QED BY <1>1, <1>2, <1>3, <1>4, <1>5, <1>6 DEF MainStep

\* The daemon never serves without its monitor thread but for a thread that could not
\* be created, an interrupted poll, a garbage err, or a request to quit that
\* g_main_loop_run forgot: no module table and no interleaving adds a fifth case,
\* nor does any other failure.
THEOREM AlwaysWatched == Spec => []Watched
<1>1. Init => Reasons
  BY DEF Init, Reasons, BeforeLoop
<1>2. IInv /\ Reasons /\ [Next]_vars => Reasons'
  <2>1. IInv /\ Reasons /\ UNCHANGED vars => Reasons'
    BY DEF Reasons, BeforeLoop, vars
  <2>2. QED BY <2>1, MonitorReasons, MainReasons DEF Next
<1>3. IInv /\ Reasons => Watched
  BY DEF IInv, TypeOK, Lifetime, Reasons, Watched, Polling
<1>4. QED BY <1>1, <1>2, <1>3, Inductive, PTL DEF Spec
=============================================================================
