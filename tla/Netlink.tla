------------------------------ MODULE Netlink ------------------------------
(***************************************************************************)
(* One kind of kernel object (links, addresses, routes or neighbours) as   *)
(* src/netlink.c carries it to the modules that registered a callback for  *)
(* it.  The main thread registers the callbacks while the modules start,   *)
(* and tells each new one of every object in the cache; the monitor thread *)
(* receives the kernel's notifications, updates the cache and tells all    *)
(* registered callbacks.  Neither takes a lock.  The main thread exits the *)
(* modules while the monitor thread is still delivering.                   *)
(*                                                                         *)
(* Abstractions.  What a client was told is kept as the objects it has to  *)
(* believe in, so a callback is an assignment.  libnl is external: a cache *)
(* is filled and put under the manager's care in one step, and             *)
(* nl_cache_foreach visits a changing cache without harm, in no particular *)
(* order.  An interrupted poll, the uninitialised err and a thread that    *)
(* was not created are in Daemon.                                          *)
(***************************************************************************)
EXTENDS Naturals, Sequences, FiniteSets

CONSTANTS
    NULL,         \* no object, no client
    Client,       \* modules that register a callback for this kind
    Id,           \* identities of kernel objects
    Contents,     \* Contents[i]: what object i may look like
    SocketSize,   \* notifications the netlink socket holds
    Failures      \* what may fail, a subset of FailureKinds

\* "manager": netlink_init's allocation of the cache manager.
\* "alloc", "manage": the two libnl calls of netlink_register.
\* "init": the init function of some module, which ends the daemon.
FailureKinds == {"manager", "alloc", "manage", "init"}

Content == UNION {Contents[i] : i \in Id}

ASSUME NullAssumption == NULL \notin Content \cup Client \cup Id \cup (Id \X (Content \cup {NULL}))
ASSUME SizeAssumption == SocketSize \in Nat \ {0}

VARIABLES
    kernel,      \* the objects the kernel has: [Id -> content or NULL]
    socket,      \* notifications not yet received, oldest first
    overrun,     \* whether the kernel had to drop a notification
    mngr,        \* whether there is a cache manager
    cache,       \* desc->cache
    desc,        \* the cache descriptor
    callbacks,   \* desc->callbacks, first one first
    main,        \* where the main thread is
    left,        \* clients it has still to register, or to exit
    cur,         \* the client it is registering or exiting
    unseen,      \* objects its nl_cache_foreach has still to look at
    held,        \* the object it is about to tell cur of, or NULL
    running,     \* the main loop's is_running flag
    monitor,     \* where the monitor thread is
    change,      \* the change it is delivering
    pos,         \* the client whose list node it stands at; NULL before the first
    told,        \* told[c][i]: what client c was last told of object i
    raced        \* history: <<c, i>> such that object i changed while held for c

sys == <<kernel, socket, overrun>>
mainvars == <<main, left, cur, unseen, held>>
monvars == <<monitor, change, pos>>
vars == <<sys, mngr, cache, desc, callbacks, mainvars, running, monvars, told, raced>>

None == [i \in Id |-> NULL]
Message == {m \in Id \X (Content \cup {NULL}) : m[2] \in Contents[m[1]] \cup {NULL}}

------------------------------------------------------------------------------
(* The kernel.                                                             *)

\* An object appears, changes or goes.  Subscribers are notified, unless their
\* socket is full: the manager stays subscribed once the cache is added.
KernelChange ==
    /\ \E m \in Message :
          /\ m[2] # kernel[m[1]]
          /\ kernel' = [kernel EXCEPT ![m[1]] = m[2]]
          /\ IF desc \notin {"joined", "live", "freed"} THEN UNCHANGED <<socket, overrun>>
             ELSE IF Len(socket) < SocketSize
                 THEN socket' = Append(socket, m) /\ UNCHANGED overrun
                 ELSE overrun' = TRUE /\ UNCHANGED socket
    /\ UNCHANGED <<cache, desc, callbacks, mainvars, running, monvars, told, raced>>

------------------------------------------------------------------------------
(* The main thread.                                                        *)

\* Mutation: a module registers over and over.
RegisterAgain ==
    /\ main = "start"
    /\ \E c \in left :
          /\ cur' = c
          /\ IF desc = "none" THEN main' = "dump" /\ desc' = "joined"
                              ELSE main' = "prepend" /\ UNCHANGED desc
    /\ UNCHANGED <<sys, cache, callbacks, left, unseen, held, running, monvars, told, raced>>

\* netlink_register: find the descriptor, or make one with a cache.  A failure
\* is FATAL; the descriptor stays in the list.  So is a missing manager.
Register ==
    /\ main = "start"
    /\ \E c \in left :
          /\ left' = left \ {c}
          /\ \/ /\ ~mngr
                /\ running' = FALSE
                /\ UNCHANGED <<main, cur, desc>>
             \/ /\ mngr /\ desc # "none"
                /\ main' = "prepend" /\ cur' = c
                /\ UNCHANGED <<desc, running>>
             \/ /\ mngr /\ desc = "none"
                /\ main' = "dump" /\ cur' = c
                /\ desc' = "joined"
                /\ UNCHANGED running
             \/ /\ mngr /\ desc = "none" /\ "alloc" \in Failures
                /\ desc' = "hollow"
                /\ running' = FALSE
                /\ UNCHANGED <<main, cur>>
    /\ UNCHANGED <<sys, cache, callbacks, unseen, held, monvars, told, raced>>

\* ... give the cache to the manager, which subscribes to the kind first and dumps
\* the kernel's objects into the cache then,
Dump ==
    /\ main = "dump"
    /\ \/ /\ main' = "prepend"
          /\ desc' = "live"
          /\ cache' = kernel
          /\ UNCHANGED running
       \/ /\ "manage" \in Failures
          /\ main' = "start"
          /\ desc' = "unmanaged"
          /\ running' = FALSE
          /\ UNCHANGED cache
    /\ UNCHANGED <<sys, callbacks, left, cur, unseen, held, monvars, told, raced>>

\* ... add the callback in front of the others and start nl_cache_foreach,
\* which does not survive a descriptor left without a cache.
Prepend ==
    /\ main = "prepend"
    /\ callbacks' = <<cur>> \o callbacks
    /\ main' = IF desc = "hollow" THEN "dead" ELSE "foreach"
    /\ unseen' = Id
    /\ UNCHANGED <<sys, cache, desc, left, cur, held, running, monvars, told, raced>>

\* nl_cache_foreach takes the next object ...
Fetch ==
    /\ main = "foreach" /\ held = NULL
    /\ \E i \in unseen :
          /\ cache[i] # NULL
          /\ held' = <<i, cache[i]>>
          /\ unseen' = unseen \ {i}
    /\ UNCHANGED <<sys, cache, desc, callbacks, main, left, cur, running, monvars, told, raced>>

\* ... and startup_cb tells the new client of it, as it was then.
Tell ==
    /\ main = "foreach" /\ held # NULL
    /\ told' = [told EXCEPT ![cur][held[1]] = held[2]]
    /\ held' = NULL
    /\ UNCHANGED <<sys, cache, desc, callbacks, main, left, cur, unseen, running, monvars, raced>>

\* Mutation: a new client is not told of the objects that are there already.
ToldNothing ==
    /\ main = "foreach" /\ held = NULL
    /\ main' = "start"
    /\ UNCHANGED <<sys, cache, desc, callbacks, left, cur, unseen, held, running, monvars, told,
                   raced>>

\* The new client has been told of every object: netlink_register returns.
Told ==
    /\ main = "foreach" /\ held = NULL
    /\ \A i \in unseen : cache[i] = NULL
    /\ main' = "start"
    /\ UNCHANGED <<sys, cache, desc, callbacks, left, cur, unseen, held, running, monvars, told,
                   raced>>

\* All modules are started: g_main_loop_run.
Run ==
    /\ main = "start" /\ left = {}
    /\ main' = "loop" /\ running' = TRUE
    /\ UNCHANGED <<sys, cache, desc, callbacks, left, cur, unseen, held, monvars, told, raced>>

\* SIGINT or SIGTERM.
Terminate ==
    /\ main = "loop"
    /\ running' = FALSE
    /\ UNCHANGED <<sys, cache, desc, callbacks, mainvars, monvars, told, raced>>

\* The loop ends, or a module could not be initialised (which is FATAL):
\* modules_exit exits all modules, even those that never registered.
Leave ==
    /\ \/ main = "loop" /\ ~running /\ UNCHANGED running
       \/ main = "start" /\ "init" \in Failures /\ running' = FALSE
    /\ main' = "exit"
    /\ left' = Client
    /\ UNCHANGED <<sys, cache, desc, callbacks, cur, unseen, held, monvars, told, raced>>

\* The node of the list that holds a callback, if one does.
Position(c) == CHOOSE n \in 1 .. Len(callbacks) : callbacks[n] = c
Listed(c) == \E n \in 1 .. Len(callbacks) : callbacks[n] = c

\* Mutation: the wrong callback is looked for, so that none is removed.
WithoutNone(c) == callbacks
\* g_list_remove of c's callback.
Without(c) ==
    IF ~Listed(c) THEN callbacks
    ELSE SubSeq(callbacks, 1, Position(c) - 1)
            \o SubSeq(callbacks, Position(c) + 1, Len(callbacks))

\* netlink_unregister, called by a module's exit function.  The last client
\* takes the descriptor with it; the manager keeps the cache, and its pointer
\* to the descriptor.
Unregister ==
    /\ main = "exit"
    /\ \E c \in left :
          /\ left' = left \ {c}
          /\ main' = "cleanup" /\ cur' = c
          /\ IF desc \in {"none", "freed"} THEN UNCHANGED <<callbacks, desc>>
             ELSE /\ callbacks' = Without(c)
                  /\ desc' = CASE Without(c) # <<>> -> desc
                               [] Without(c) = <<>> /\ desc = "live" -> "freed"
                               [] OTHER -> "none"
    /\ UNCHANGED <<sys, cache, unseen, held, running, monvars, told, raced>>

\* The rest of the exit function: forget what the kernel told us.
Cleanup ==
    /\ main = "cleanup"
    /\ told' = [told EXCEPT ![cur] = None]
    /\ main' = "exit"
    /\ UNCHANGED <<sys, cache, desc, callbacks, left, cur, unseen, held, running, monvars, raced>>

\* netlink_exit joins the monitor thread, if there is a manager.
Join ==
    /\ main = "exit" /\ left = {}
    /\ mngr => monitor = "stopped"
    /\ main' = "done"
    /\ UNCHANGED <<sys, cache, desc, callbacks, left, cur, unseen, held, running, monvars, told,
                   raced>>

------------------------------------------------------------------------------
(* The monitor thread.                                                     *)

\* Mutation: a notification that changes nothing is not consumed.
ReceiveNews ==
    /\ monitor = "poll" /\ socket # <<>>
    /\ desc \in {"live", "freed"} => cache[Head(socket)[1]] # Head(socket)[2]
    /\ LET i == Head(socket)[1]
           x == Head(socket)[2]
       IN  IF desc \notin {"live", "freed"}
               THEN UNCHANGED <<cache, monvars, raced>>
               ELSE /\ cache' = [cache EXCEPT ![i] = x]
                    /\ change' = <<i, x>> /\ pos' = NULL /\ monitor' = "walk"
                    /\ raced' = (raced \ (Client \X {i})) \cup
                                   (IF held # NULL /\ held[1] = i THEN {<<cur, i>>} ELSE {})
    /\ socket' = Tail(socket)
    /\ UNCHANGED <<kernel, overrun, desc, callbacks, mainvars, running, told>>

\* The cache takes a notification in, if there is a cache; change_cb follows if
\* that changed it.
Receive ==
    /\ monitor = "poll" /\ socket # <<>>
    /\ LET i == Head(socket)[1]
           x == Head(socket)[2]
       IN  IF desc \notin {"live", "freed"} \/ cache[i] = x
               THEN UNCHANGED <<cache, monvars, raced>>
               ELSE /\ cache' = [cache EXCEPT ![i] = x]
                    /\ change' = <<i, x>> /\ pos' = NULL /\ monitor' = "walk"
                    /\ raced' = (raced \ (Client \X {i})) \cup
                                   (IF held # NULL /\ held[1] = i THEN {<<cur, i>>} ELSE {})
    /\ socket' = Tail(socket)
    /\ UNCHANGED <<kernel, overrun, desc, callbacks, mainvars, running, told>>

\* Memory change_cb is about to read: the descriptor for the list's head, a
\* node of the list for its successor.
Reads == IF pos = NULL THEN desc \in {"live", "unmanaged"} ELSE Listed(pos)

\* The clients after the one the monitor stands at.
Ahead ==
    IF pos = NULL THEN callbacks ELSE SubSeq(callbacks, Position(pos) + 1, Len(callbacks))

\* Mutation: change_cb stops after the first callback.
WalkFirst ==
    /\ monitor = "walk" /\ Reads
    /\ IF pos # NULL \/ Ahead = <<>> THEN monitor' = "poll" /\ UNCHANGED pos
                                     ELSE monitor' = "call" /\ pos' = Head(Ahead)
    /\ UNCHANGED <<sys, cache, desc, callbacks, mainvars, running, change, told, raced>>

\* change_cb goes to the next callback of the list ...
Walk ==
    /\ monitor = "walk" /\ Reads
    /\ IF Ahead = <<>> THEN monitor' = "poll" /\ UNCHANGED pos
                       ELSE monitor' = "call" /\ pos' = Head(Ahead)
    /\ UNCHANGED <<sys, cache, desc, callbacks, mainvars, running, change, told, raced>>

\* ... and calls it, with no regard to what became of it since.
Call ==
    /\ monitor = "call"
    /\ told' = [told EXCEPT ![pos][change[1]] = change[2]]
    /\ monitor' = "walk"
    /\ UNCHANGED <<sys, cache, desc, callbacks, mainvars, running, change, pos, raced>>

\* Undefined behaviour: the list or its node was freed meanwhile.  The walk
\* ends by luck, or the process dies.
Stray ==
    /\ monitor = "walk" /\ ~Reads
    /\ \/ monitor' = "poll" /\ UNCHANGED main
       \/ main' = "dead" /\ UNCHANGED monitor
    /\ UNCHANGED <<sys, cache, desc, callbacks, left, cur, unseen, held, running, change, pos,
                   told, raced>>

\* Undefined behaviour: nl_cache_mngr_poll follows the NULL pointer it is given.
PollNothing ==
    /\ monitor = "poll" /\ ~mngr
    /\ main' = "dead"
    /\ UNCHANGED <<sys, cache, desc, callbacks, left, cur, unseen, held, running, monvars, told,
                   raced>>

\* A poll that finds the socket overrun fails, which is FATAL; one that returns
\* when the loop has quit is the last one.
Stop ==
    /\ monitor = "poll"
    /\ overrun \/ ~running
    /\ running' = IF overrun THEN FALSE ELSE running
    /\ monitor' = "stopped"
    /\ UNCHANGED <<sys, cache, desc, callbacks, mainvars, change, pos, told, raced>>

------------------------------------------------------------------------------

Init ==
    /\ kernel \in {o \in [Id -> Content \cup {NULL}] :
                       \A i \in Id : o[i] \in Contents[i] \cup {NULL}}
    /\ socket = <<>> /\ overrun = FALSE
    /\ mngr \in {TRUE} \cup (IF "manager" \in Failures THEN {FALSE} ELSE {})
    /\ cache = None /\ desc = "none" /\ callbacks = <<>>
    /\ main = "start" /\ left = Client /\ cur = NULL /\ unseen = {} /\ held = NULL
    /\ running = TRUE
    /\ monitor = "poll" /\ change = NULL /\ pos = NULL
    /\ told = [c \in Client |-> None]
    /\ raced = {}

MainStep ==
    \/ Register \/ Dump \/ Prepend \/ Fetch \/ Tell \/ Told \/ Run
    \/ Leave \/ Unregister \/ Cleanup \/ Join

MonitorStep == Receive \/ Walk \/ Call \/ Stray \/ PollNothing \/ Stop

\* A step while the process lives; what the kernel does once it is gone is left
\* out.  No step makes or frees the manager: netlink_exit is the last.
Live(Step) == main \notin {"dead", "done"} /\ UNCHANGED mngr /\ Step

Next == Live(KernelChange \/ MainStep \/ Terminate \/ MonitorStep)

\* Both threads are scheduled; the kernel need not do anything.
Fairness == WF_vars(Live(MainStep)) /\ WF_vars(Live(MonitorStep))

Spec == Init /\ [][Next]_vars /\ Fairness

------------------------------------------------------------------------------
(* Properties.                                                             *)

TypeOK ==
    /\ kernel \in [Id -> Content \cup {NULL}]
    /\ socket \in Seq(Message) /\ Len(socket) <= SocketSize
    /\ overrun \in BOOLEAN /\ running \in BOOLEAN /\ mngr \in BOOLEAN
    /\ cache \in [Id -> Content \cup {NULL}]
    /\ desc \in {"none", "joined", "hollow", "unmanaged", "live", "freed"}
    /\ callbacks \in Seq(Client) /\ \A m, n \in 1 .. Len(callbacks) :
                                      callbacks[m] = callbacks[n] => m = n
    /\ main \in {"start", "dump", "prepend", "foreach", "loop", "exit", "cleanup", "done", "dead"}
    /\ left \subseteq Client
    /\ cur \in Client \cup {NULL}
    /\ unseen \subseteq Id
    /\ held \in Message \cup {NULL}
    /\ monitor \in {"poll", "walk", "call", "stopped"}
    /\ change \in Message \cup {NULL}
    /\ pos \in Client \cup {NULL}
    /\ told \in [Client -> [Id -> Content \cup {NULL}]]
    /\ raced \subseteq Client \X Id

\* The daemon is in service and nothing is on its way from the kernel to a client.
Quiescent ==
    /\ main \in {"start", "dump", "prepend", "foreach", "loop"}
    /\ desc = "live" /\ monitor = "poll" /\ socket = <<>> /\ ~overrun

\* The clients whose registration is complete.
Settled == {c \in Client : Listed(c) /\ ~(main = "foreach" /\ cur = c)}

\* netlink.c "Watches the kernel for changes".  Whatever the kernel does while
\* callbacks are registered and called, once nothing is on its way every client
\* has been told the truth about every object but those that changed between
\* the two steps in which registration told it of them.
Mirror ==
    Quiescent =>
        /\ cache = kernel
        /\ \A c \in Settled, i \in Id : <<c, i>> \notin raced => told[c][i] = kernel[i]

\* Not even those are missed: a client may believe in an object that is gone or
\* has changed, but is never left ignorant of one that is there.
NothingMissed ==
    Quiescent => \A c \in Settled, i \in Id : kernel[i] # NULL => told[c][i] # NULL

\* The memory change_cb is about to read is there: a descriptor is destroyed only
\* "if their are no other users" (netlink_unregister).
NoUseAfterFree == monitor = "walk" => Reads

\* Once the kernel stays as it is, and nobody asks the daemon to quit, what is on
\* its way arrives: nothing is left to tell, for good, unless the daemon went into
\* service without its monitor thread, or without the cache, after a FATAL.
Settles ==
    <>[][~KernelChange /\ ~Terminate]_vars =>
        <>[](Quiescent \/ monitor = "stopped" \/ main = "dead" \/ desc # "live")

\* The clients that have exited and forgotten what they were told.
Exited == IF main \in {"exit", "cleanup", "done"}
              THEN {c \in Client \ left : main = "cleanup" => c # cur}
              ELSE {}

\* The monitor thread outlives the modules, and a callback it was about to make
\* when its client exited undoes the cleaning up; but that is the last one: what
\* an exited client was told late is never followed by another change.
OneLate == [][\A c \in Exited : told[c] # None => told'[c] = told[c]]_vars
=============================================================================
