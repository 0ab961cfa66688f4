------------------------------- MODULE Daemon -------------------------------
(***************************************************************************)
(* The life of the daemon: main() of src/main.c, the module table of       *)
(* src/module.c and the netlink monitor thread of src/netlink.c.           *)
(*                                                                         *)
(* Two threads share the main loop's is_running flag.  The main thread     *)
(* initialises and starts the modules in table order, writes the pid file, *)
(* runs the loop, then exits the modules in reverse order and joins the    *)
(* monitor thread, which runs from netlink_init on.  FATAL asks the loop   *)
(* to quit by clearing the flag, from either thread.                       *)
(*                                                                         *)
(* netlink_init looks at no result: the cache manager may be missing, the  *)
(* thread may never have been created.  A call that follows a pointer to   *)
(* what is not there (undefined behaviour) ends the process: "crashed".    *)
(***************************************************************************)
EXTENDS Naturals

CONSTANTS
    Modules,       \* number of entries of the module table
    Enabled,       \* the entries -m leaves enabled
    Inits,         \* the entries with an init function
    Starts,        \* the entries with a start function
    Fragile,       \* those whose init function may raise FATAL and return false
    Registrars,    \* those that call netlink_register and ignore its failure
    Dependents,    \* the registrars whose init function fails without a cache
    Background,    \* whether -b was given
    StackErr,      \* what netlink_monitor's uninitialised err may hold
    PollResults,   \* what nl_cache_mngr_poll may return
    Failures       \* what else may fail, a subset of FailureKinds

Module == 1 .. Modules

\* "init": the init function of a fragile module fails.
\* "register": netlink_register raises FATAL.
\* "pidfile": the pid file cannot be opened.
\* "manager", "thread": libnl has no memory for a manager, the system no thread.
FailureKinds == {"init", "register", "pidfile", "manager", "thread"}

ASSUME ModulesAssumption == Modules \in Nat
ASSUME TableAssumption == /\ Enabled \subseteq Module
                          /\ Inits \subseteq Module /\ Starts \subseteq Module
                          /\ Fragile \subseteq Inits
                          /\ Dependents \subseteq Fragile \cap Registrars
ASSUME BackgroundAssumption == Background \in BOOLEAN
ASSUME ErrAssumption == /\ StackErr \subseteq {"ok", "negative"}
                        /\ PollResults \subseteq {"ok", "interrupted", "failed"}

VARIABLES
    main,      \* where the main thread is
    at,        \* the module table entry it has reached
    running,   \* the loop's is_running flag
    monitor,   \* where the monitor thread is
    err,       \* its local variable
    handle,    \* monitor_thread: unset, the thread, or left behind by no thread
    manager,   \* mngr, the cache manager both threads use
    pidfile,   \* whether our pid file exists
    inited, started, exited,   \* entries whose functions have returned
    early      \* history: somebody asked to quit before the loop ran

vars == <<main, at, running, monitor, err, handle, manager, pidfile,
          inited, started, exited, early>>

Idle == UNCHANGED <<monitor, err, handle>>

\* FATAL (and a termination signal): g_main_loop_quit.
Quit ==
    /\ running' = FALSE
    /\ early' = (early \/ main \in {"init", "start", "pidfile", "run"})

------------------------------------------------------------------------------
(* The main thread.                                                        *)

\* g_main_loop_new with is_running already true; apteryx_init.
NewLoop ==
    /\ main = "new"
    /\ main' = "netlink"
    /\ running' = TRUE
    /\ UNCHANGED <<at, manager, pidfile, inited, started, exited, early>>
    /\ Idle

\* netlink_init: the cache manager, which stays NULL if libnl cannot allocate it,
\* then the monitor thread.  A thread that was not created leaves its handle unset
\* or names none, and naming it (pthread_setname_np) may already be fatal.
NetlinkInit ==
    /\ main = "netlink" /\ at' = 1
    /\ manager' \in {"live"} \cup (IF "manager" \in Failures THEN {"none"} ELSE {})
    /\ \/ /\ handle' = "thread" /\ monitor' = "test" /\ err' \in StackErr
          /\ main' = "init"
       \/ /\ "thread" \in Failures
          /\ handle' \in {"unset", "stale"}
          /\ main' \in {"init", "crashed"}
          /\ UNCHANGED <<monitor, err>>
    /\ UNCHANGED <<running, pidfile, inited, started, exited, early>>

\* netlink_register, for an entry that ignores its result: without a manager it
\* raises FATAL.
Register ==
    \/ manager # "none" /\ UNCHANGED <<running, early>>
    \/ (manager = "none" \/ "register" \in Failures) /\ Quit

\* A round of modules_init calls netlink_register or nothing that matters.
Called(i, functions) ==
    IF i \in Enabled \cap functions \cap Registrars THEN Register ELSE UNCHANGED <<running, early>>

\* Without a manager there are no caches.
NoCache(i) == i \in Dependents /\ manager = "none"

\* Mutation: the loop of modules_init runs one entry too far.
ModuleInitPast ==
    /\ main = "init" /\ at <= Modules + 1
    /\ at' = at + 1
    /\ inited' = inited \cup ({at} \cap Enabled \cap Inits)
    /\ UNCHANGED <<main, running, early, manager, pidfile, started, exited>>
    /\ Idle

\* One round of the loop of modules_init.
ModuleInit ==
    /\ main = "init" /\ at <= Modules
    /\ \/ /\ ~(at \in Enabled /\ NoCache(at))
          /\ at' = at + 1
          /\ inited' = inited \cup ({at} \cap Enabled \cap Inits)
          /\ Called(at, Inits)
          /\ UNCHANGED main
       \/ /\ at \in Enabled \cap Fragile
          /\ NoCache(at) \/ "init" \in Failures
          /\ Quit
          /\ main' = "exit" /\ at' = Modules
          /\ UNCHANGED inited
    /\ UNCHANGED <<manager, pidfile, started, exited>>
    /\ Idle

InitDone ==
    /\ main = "init" /\ at > Modules
    /\ main' = "start" /\ at' = 1
    /\ UNCHANGED <<running, manager, pidfile, inited, started, exited, early>>
    /\ Idle

\* One round of the loop of modules_start; no start function returns false.
ModuleStart ==
    /\ main = "start" /\ at <= Modules
    /\ at' = at + 1
    /\ started' = started \cup ({at} \cap Enabled \cap Starts)
    /\ Called(at, Starts \ Inits)
    /\ UNCHANGED <<main, manager, pidfile, inited, exited>>
    /\ Idle

StartDone ==
    /\ main = "start" /\ at > Modules
    /\ main' = "pidfile"
    /\ UNCHANGED <<at, running, manager, pidfile, inited, started, exited, early>>
    /\ Idle

\* A pid file that cannot be opened ends the daemon, without asking the loop
\* (which is not running yet) to quit.
PidFile ==
    /\ main = "pidfile"
    /\ \/ /\ pidfile' = Background
          /\ main' = "run"
          /\ UNCHANGED at
       \/ /\ Background /\ "pidfile" \in Failures
          /\ main' = "exit" /\ at' = Modules
          /\ UNCHANGED pidfile
    /\ UNCHANGED <<running, manager, inited, started, exited, early>>
    /\ Idle

\* g_main_loop_run sets the flag, whoever cleared it before.
Run ==
    /\ main = "run"
    /\ main' = "loop"
    /\ running' = TRUE
    /\ UNCHANGED <<at, manager, pidfile, inited, started, exited, early>>
    /\ Idle

\* SIGINT or SIGTERM, handled by the loop: termination_handler.
Terminate ==
    /\ main = "loop"
    /\ Quit
    /\ UNCHANGED <<main, at, manager, pidfile, inited, started, exited>>
    /\ Idle

LoopEnds ==
    /\ main = "loop" /\ ~running
    /\ main' = "exit" /\ at' = Modules
    /\ UNCHANGED <<running, manager, pidfile, inited, started, exited, early>>
    /\ Idle

\* Mutation: the table is walked forwards, as by modules_init.
ModuleExitForwards ==
    /\ main = "exit" /\ at >= 1
    /\ at' = at - 1
    /\ exited' = exited \cup ({Modules + 1 - at} \cap Enabled)
    /\ UNCHANGED <<main, running, manager, pidfile, inited, started, early>>
    /\ Idle

\* One round of the loop of modules_exit: every enabled module (all have an
\* exit function), whether or not it was ever initialised, last one first.
ModuleExit ==
    /\ main = "exit" /\ at >= 1
    /\ at' = at - 1
    /\ exited' = exited \cup ({at} \cap Enabled)
    /\ UNCHANGED <<main, running, manager, pidfile, inited, started, early>>
    /\ Idle

\* Mutation: the cache manager is freed without joining the monitor thread.
NetlinkExitNoJoin ==
    /\ main = "exit" /\ at = 0
    /\ main' = "cleanup"
    /\ manager' = "freed"
    /\ UNCHANGED <<at, running, pidfile, inited, started, exited, early>>
    /\ Idle

\* netlink_exit: nothing without a manager; else join the monitor thread, if
\* there is one, and free the manager.  A handle that names no thread is joined
\* as well, which may be fatal.
NetlinkExit ==
    /\ main = "exit" /\ at = 0
    /\ \/ /\ manager = "none"
          /\ main' = "cleanup" /\ UNCHANGED manager
       \/ /\ manager # "none"
          /\ handle = "thread" => monitor = "stopped"
          /\ main' = "cleanup" /\ manager' = "freed"
       \/ /\ manager # "none" /\ handle = "stale"
          /\ main' = "crashed" /\ UNCHANGED manager
    /\ UNCHANGED <<at, running, pidfile, inited, started, exited, early>>
    /\ Idle

\* apteryx_shutdown; g_main_loop_unref frees the loop.
Cleanup ==
    /\ main = "cleanup"
    /\ main' = "unlink"
    /\ UNCHANGED <<at, running, manager, pidfile, inited, started, exited, early>>
    /\ Idle

\* main returns, and the process ends with every thread.
Unlink ==
    /\ main = "unlink"
    /\ main' = "done"
    /\ pidfile' = FALSE
    /\ UNCHANGED <<at, running, manager, inited, started, exited, early>>
    /\ Idle

------------------------------------------------------------------------------
(* The monitor thread, netlink_monitor.                                    *)

Ended == main \in {"done", "crashed"}
MainIdle == UNCHANGED <<at, handle, manager, pidfile, inited, started, exited>>

\* Mutation: the thread looks at err only.
MonitorTestErr ==
    /\ monitor = "test" /\ ~Ended
    /\ monitor' = IF err = "ok" THEN "poll" ELSE "stopped"
    /\ UNCHANGED <<main, err, running, early>>
    /\ MainIdle

\* while (err >= 0 && g_main_loop_is_running (g_loop))
MonitorTest ==
    /\ monitor = "test" /\ ~Ended
    /\ monitor' = IF err = "ok" /\ running THEN "poll" ELSE "stopped"
    /\ UNCHANGED <<main, err, running, early>>
    /\ MainIdle

\* Mutation: a failed poll is only logged.
MonitorPollQuiet ==
    /\ monitor = "poll" /\ ~Ended
    /\ err' \in PollResults
    /\ monitor' = "test"
    /\ UNCHANGED <<main, running, early>>
    /\ MainIdle

\* nl_cache_mngr_poll, for at most a second.  A failure is FATAL; an
\* interruption is not, but ends the while loop above.  libnl follows the
\* pointer it is given.
MonitorPoll ==
    /\ monitor = "poll" /\ ~Ended
    /\ \/ /\ manager # "none"
          /\ err' \in PollResults
          /\ IF err' = "failed" THEN Quit /\ monitor' = "stopped"
                                ELSE UNCHANGED <<running, early>> /\ monitor' = "test"
          /\ UNCHANGED main
       \/ /\ manager = "none"
          /\ main' = "crashed" /\ monitor' = "stopped"
          /\ UNCHANGED <<err, running, early>>
    /\ MainIdle

Init ==
    /\ main = "new" /\ at = 1 /\ running = FALSE
    /\ monitor = "none" /\ err = "ok" /\ handle = "unset" /\ manager = "none"
    /\ pidfile = FALSE
    /\ inited = {} /\ started = {} /\ exited = {}
    /\ early = FALSE

MainStep ==
    \/ NewLoop \/ NetlinkInit \/ ModuleInit \/ InitDone \/ ModuleStart \/ StartDone
    \/ PidFile \/ Run \/ LoopEnds \/ ModuleExit \/ NetlinkExit \/ Cleanup \/ Unlink

MonitorStep == MonitorTest \/ MonitorPoll

Next == MainStep \/ Terminate \/ MonitorStep

\* Both threads are scheduled; nobody has to send a signal.
Spec == Init /\ [][Next]_vars /\ WF_vars(MainStep) /\ WF_vars(MonitorStep)

------------------------------------------------------------------------------
(* Properties.                                                             *)

TypeOK ==
    /\ main \in {"new", "netlink", "init", "start", "pidfile", "run", "loop",
                 "exit", "cleanup", "unlink", "done", "crashed"}
    /\ at \in 0 .. Modules + 1
    /\ running \in BOOLEAN /\ pidfile \in BOOLEAN /\ early \in BOOLEAN
    /\ monitor \in {"none", "test", "poll", "stopped"}
    /\ err \in {"ok", "negative", "interrupted", "failed"}
    /\ handle \in {"unset", "thread", "stale"}
    /\ manager \in {"none", "live", "freed"}
    /\ inited \subseteq Enabled /\ started \subseteq Enabled /\ exited \subseteq Enabled

\* The monitor thread and what it uses.  It never polls a manager that was freed,
\* nor runs on when the loop is freed; the manager is freed when every module that
\* may hold a cache or a callback has exited.  All bets are off for the loop when
\* the manager could not be allocated, as netlink_exit then joins nobody; but such
\* a daemon serves only if -m leaves out all modules that need a cache.
Polling == monitor \in {"test", "poll"}
Unallocated == manager = "none" /\ "manager" \in Failures
ManagerSafe ==
    /\ Polling => manager = "live" \/ Unallocated
    /\ Polling /\ main = "unlink" => Unallocated
    /\ manager = "freed" => exited = Enabled
    /\ main = "loop" /\ manager = "none" => Dependents \cap Enabled = {}

\* Modules come and go in bulk: none is started before all are initialised,
\* none is exited while another is still to be started, and each one exits
\* after every later entry of the table.
Ordered ==
    /\ started # {} => inited = Enabled \cap Inits
    /\ exited # {} => main \in {"exit", "cleanup", "unlink", "done", "crashed"}
    /\ \A i \in exited : \A j \in Enabled : j > i => j \in exited

\* The daemon serves without its monitor thread in four cases only: the thread
\* could not be created, which nobody looks at; a poll was interrupted; err held
\* garbage at the start; or the request to quit came before g_main_loop_run,
\* which forgets it.
Watched ==
    main = "loop" /\ running /\ ~Polling
        => handle # "thread" \/ err \in {"interrupted", "negative"} \/ early

\* The pid file could not be opened: main leaves without a request to quit, and
\* netlink_exit may wait for the monitor thread for ever.
NoPidFile == main = "exit" /\ Background /\ ~pidfile /\ started = Enabled \cap Starts

\* A loop told to quit, and any other exit before the loop, ends the process:
\* the monitor thread notices and the main thread joins it (netlink_exit:
\* "Remove the netlink monitoring thread").  It does not crash on the way, but for
\* polling a manager that could not be allocated and joining a thread that could
\* not be created.
Leaving == (main = "loop" /\ ~running) \/ main = "exit"
Stops ==
    Leaving /\ ~NoPidFile
        ~> main = "done" \/ (main = "crashed" /\ (manager = "none" \/ handle = "stale"))
=============================================================================
