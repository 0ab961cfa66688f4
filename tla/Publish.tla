------------------------------ MODULE Publish ------------------------------
(***************************************************************************)
(* The four modules that publish kernel objects in Apteryx:                *)
(* src/interface/ifstatus.c (links), src/iprouting/fib.c (routes),         *)
(* src/ip/address-cache.c and src/ip/neighbor-cache.c (addresses and       *)
(* neighbors, both of them dependents of a link).                          *)
(*                                                                         *)
(* One socket carries the notifications of all kinds in order.  The name   *)
(* a dependent is published under is looked up when it is published: by    *)
(* the kernel while its publisher registers, in the link cache afterwards. *)
(* So what a publisher does depends on how far another kind has come.      *)
(*                                                                         *)
(* The callback of a notification is cut in two only while the daemon      *)
(* exits.  Before, it begins and ends in one step: once in service the     *)
(* main thread does not touch what is published, and a callback that the   *)
(* exit overtakes can as well have begun after it.  What races with        *)
(* registration is Netlink.tla's: there joining, dumping and telling are   *)
(* cut, sockets overrun, and the notifications of a kind whose last client *)
(* has gone meet a freed list; here these are ignored.                     *)
(*                                                                         *)
(* Abstraction.  Of a published subtree one value is kept.                 *)
(***************************************************************************)
EXTENDS Naturals, Sequences, FiniteSets

CONSTANTS
    NULL,         \* no object, value or name
    Id,           \* kernel objects
    KindOf,       \* KindOf[i]: one of Kinds
    On,           \* On[i]: the link of an address or neighbor
    Short,        \* addresses whose prefix is shorter than they are
    Content,      \* what an address, neighbor or route may look like
    Flags,        \* what a link may look like
    Name,         \* interface names
    V2,           \* libnl calls back with an old and a new object (3.3 and later)
    SocketSize,   \* bound on notifications not yet received
    Env           \* which of EnvEvents may happen

\* The order of the module table.
Order == <<"link", "route", "address", "neighbor">>
Kinds == {"link", "route", "address", "neighbor"}

\* "refuse": netlink_register fails.
EnvEvents == {"rename", "reroute", "refuse", "exit", "crash"}

IdOf(k) == {i \in Id : KindOf[i] = k}
Link == IdOf("link")
Route == IdOf("route")
Dependent == IdOf("address") \cup IdOf("neighbor")

LinkContent == Name \X Flags
Object(i) == IF i \in Link THEN LinkContent ELSE Content

ASSUME KindAssumption == KindOf \in [Id -> Kinds]
ASSUME OnAssumption == On \in [Dependent -> Link] /\ Short \subseteq IdOf("address")
ASSUME NullAssumption == NULL \notin Content \cup LinkContent \cup Name \cup Id
ASSUME ModeAssumption == V2 \in BOOLEAN /\ Env \subseteq EnvEvents
ASSUME SizeAssumption == SocketSize \in Nat \ {0}

VARIABLES
    kernel,      \* the kernel's objects: kernel[i] is NULL or looks like it
    socket,      \* notifications not yet received, oldest first
    cache,       \* the caches of all kinds
    joined,      \* kinds the cache manager is subscribed to
    registered,  \* kinds whose publisher has its callback registered
    phase,       \* where the daemon is in its life
    at,          \* the module it is initialising or exiting
    unseen,      \* objects netlink_register has still to call back for
    pub,         \* what is published: [Path -> value or NULL]
    calling,     \* the callback under way while the daemon exits: the object, and
                 \* what it was and became in the cache; or NULL
    blind,       \* history: dependents handled under another name than the link
                 \* cache had for their link
    moved,       \* history: objects whose place changed while published
    abandoned,   \* history: names links gave up
    late         \* history: objects whose callback ended after their publisher
                 \* had cleaned up

life == <<joined, registered, phase, at, unseen>>
history == <<blind, moved, abandoned>>
callback == <<calling, late>>
vars == <<kernel, socket, cache, life, pub, history, callback>>

\* if-alias by index; identity (name, if-index, l3) and status by interface name;
\* an address or neighbor under an interface name (NULL: the empty one); a route
\* by all it consists of.
Path ==
    ({"alias"} \X Link) \cup ({"identity", "status"} \X Name)
        \cup ({"entry"} \X (Name \cup {NULL}) \X Dependent)
        \cup ({"fib"} \X Route \X Content)

\* What the publisher of kind k cleans up: no identities.
PathOf(k) ==
    {p \in Path : \/ k = "link" /\ p[1] \in {"alias", "status"}
                  \/ k = "route" /\ p[1] = "fib"
                  \/ p[1] = "entry" /\ KindOf[p[3]] = k}

\* Whom what is published under a path tells about: a status any link of the name.
About(p) == CASE p[1] = "status" -> Link
              [] p[1] = "entry" -> {p[3]}
              [] OTHER -> {p[2]}

Running == phase \in {"init", "running", "exit"}

------------------------------------------------------------------------------
(* What the callbacks publish.                                             *)

Without(paths) == [p \in Path |-> IF p \in paths THEN NULL ELSE pub[p]]

\* Has the publisher of kind k got the link cache?
Connected(k) ==
    /\ "link" \in joined
    /\ phase # "init" \/ \E n \in 1 .. at - 1 : Order[n] = k

NameIn(links, l) == IF links[l] = NULL THEN NULL ELSE links[l][1]

\* The name of dependent i's link: rtnl_link_i2name, or without a cache if_indextoname.
LinkName(i) == NameIn(IF Connected(KindOf[i]) THEN cache' ELSE kernel, On[i])

\* Mutation: a deleted link's alias stays.
LinkKept(i, old, new) ==
    pub' = IF new = NULL THEN Without({<<"status", old[1]>>})
           ELSE [pub EXCEPT ![<<"alias", i>>] = new[1], ![<<"identity", new[1]>>] = i,
                            ![<<"status", new[1]>>] = new]

\* ifstatus: a link is published under its present name.
LinkCallback(i, old, new) ==
    pub' = IF new = NULL THEN Without({<<"alias", i>>, <<"status", old[1]>>})
           ELSE [pub EXCEPT ![<<"alias", i>>] = new[1], ![<<"identity", new[1]>>] = i,
                            ![<<"status", new[1]>>] = new]

\* fib: a change is refused, and without a new object there is none to look at.
RouteCallback(i, old, new) ==
    CASE new = NULL -> pub' = Without({<<"fib", i, old>>})
      [] old = NULL -> pub' = [pub EXCEPT ![<<"fib", i, new>>] = new]
      [] OTHER -> UNCHANGED pub

\* address-cache and neighbor-cache.  A deleted dependent is looked for under a
\* name that is not initialised when its link is unknown; a deleted address, also
\* under a last component that has the prefix length, where nothing is.
DependentCallback(i, old, new) ==
    LET n == LinkName(i)
    IN  IF new # NULL
            THEN pub' = [pub EXCEPT ![<<"entry", n, i>>] = new]
            ELSE \E m \in IF n # NULL THEN {n} ELSE Name \cup {NULL, "none"} :
                    pub' = IF i \in Short THEN pub ELSE Without({<<"entry", m, i>>})

\* Dependent i is handled where other callbacks will not look for it.
Astray(i) == LinkName(i) = NULL \/ LinkName(i) # NameIn(cache', On[i])

\* What the publisher of object i does when old became new.
Publishes(i, old, new) ==
    \/ i \in Link /\ LinkCallback(i, old, new)
    \/ i \in Route /\ RouteCallback(i, old, new)
    \/ i \in Dependent /\ DependentCallback(i, old, new)

\* Its callback, while the daemon starts or is in service: the histories are kept.
Callback(i, old, new) ==
    /\ Publishes(i, old, new)
    /\ blind' = IF i \in Dependent /\ Astray(i) THEN blind \cup {i} ELSE blind
    /\ moved' = CASE old = NULL \/ new = NULL -> moved
                  [] i \in Link /\ old[1] # new[1] -> moved \cup {i}
                  [] i \in Route -> moved \cup {i}
                  [] OTHER -> moved
    /\ abandoned' = IF i \in Link /\ old # NULL /\ new # NULL /\ old[1] # new[1]
                        THEN abandoned \cup {old[1]} ELSE abandoned

\* route_to_string reads the new object before anything is checked.
Fatal(i, old, new) == i \in Route /\ V2 /\ new = NULL

------------------------------------------------------------------------------
(* The main thread.                                                        *)

\* The daemon starts, with everything a dead one left in the tree.
Start ==
    /\ phase \in {"down", "stopped"}
    /\ phase' = "init" /\ at' = 1 /\ late' = {}
    /\ UNCHANGED <<kernel, socket, cache, joined, registered, unseen, pub, calling, history>>

Forget == blind' = {} /\ moved' = {} /\ abandoned' = {}

\* The process ends: its memory and its socket go.
End(how) ==
    /\ phase' = how /\ at' = 0
    /\ joined' = {} /\ registered' = {} /\ unseen' = {}
    /\ socket' = <<>> /\ cache' = [i \in Id |-> NULL]
    /\ Forget /\ calling' = NULL
    /\ late' = IF how = "stopped" THEN late ELSE {}

\* Mutation: the callback is registered for a kind nobody subscribed to.
RegisterUnjoined ==
    /\ phase = "init" /\ at <= Len(Order) /\ Order[at] \notin joined
    /\ registered' = registered \cup {Order[at]}
    /\ unseen' = IdOf(Order[at])
    /\ pub' = Without(PathOf(Order[at]))
    /\ UNCHANGED <<kernel, socket, cache, joined, phase, at, history, callback>>

\* Mutation: a publisher does not begin with an empty tree.
RegisterOver ==
    /\ phase = "init" /\ at <= Len(Order) /\ Order[at] \notin joined
    /\ joined' = joined \cup {Order[at]} /\ registered' = registered \cup {Order[at]}
    /\ cache' = [i \in Id |-> IF KindOf[i] = Order[at] THEN kernel[i] ELSE cache[i]]
    /\ unseen' = IdOf(Order[at])
    /\ UNCHANGED <<kernel, socket, phase, at, pub, history, callback>>

\* The init function empties its part of the tree and registers its callback.
Register ==
    /\ phase = "init" /\ at <= Len(Order) /\ Order[at] \notin joined
    /\ joined' = joined \cup {Order[at]} /\ registered' = registered \cup {Order[at]}
    /\ cache' = [i \in Id |-> IF KindOf[i] = Order[at] THEN kernel[i] ELSE cache[i]]
    /\ unseen' = IdOf(Order[at])
    /\ pub' = Without(PathOf(Order[at]))
    /\ blind' = blind \ unseen'
    /\ moved' = moved \ unseen'
    /\ abandoned' = IF Order[at] = "link" THEN {} ELSE abandoned
    /\ UNCHANGED <<kernel, socket, phase, at, callback>>

\* The registration fails.  ifstatus and fib do not look and go on; the dependents
\* miss their cache and fail.
Refuse ==
    /\ "refuse" \in Env
    /\ phase = "init" /\ at <= Len(Order) /\ Order[at] \notin joined
    /\ pub' = Without(PathOf(Order[at]))
    /\ IF Order[at] \in {"link", "route"}
           THEN at' = at + 1 /\ UNCHANGED <<phase, history>>
           ELSE at' = Len(Order) /\ phase' = "exit" /\ Forget
    /\ UNCHANGED <<kernel, socket, cache, joined, registered, unseen, callback>>

\* netlink_register calls it back for an object in the cache.
Tell ==
    /\ phase = "init"
    /\ \E i \in unseen :
          /\ unseen' = unseen \ {i}
          /\ UNCHANGED cache
          /\ IF cache[i] = NULL THEN UNCHANGED <<pub, history>> ELSE Callback(i, NULL, cache[i])
    /\ UNCHANGED <<kernel, socket, joined, registered, phase, at, callback>>

\* Mutation: the tree is emptied when the callback has been registered.
RegisteredFirst ==
    /\ phase = "init" /\ at <= Len(Order) /\ Order[at] \in joined /\ unseen = {}
    /\ at' = at + 1
    /\ pub' = Without(PathOf(Order[at]))
    /\ UNCHANGED <<kernel, socket, cache, joined, registered, phase, unseen, history, callback>>

\* The init function returns.
Registered ==
    /\ phase = "init" /\ at <= Len(Order) /\ Order[at] \in joined /\ unseen = {}
    /\ at' = at + 1
    /\ UNCHANGED <<kernel, socket, cache, joined, registered, phase, unseen, pub, history,
                   callback>>

\* All modules are initialised.
Run ==
    /\ phase = "init" /\ at > Len(Order)
    /\ phase' = "running"
    /\ UNCHANGED <<kernel, socket, cache, joined, registered, at, unseen, pub, history, callback>>

\* The daemon is told to quit: modules exit in reverse order.
Quit ==
    /\ "exit" \in Env /\ phase = "running"
    /\ phase' = "exit" /\ at' = Len(Order) /\ Forget
    /\ UNCHANGED <<kernel, socket, cache, joined, registered, unseen, pub, callback>>

\* An exit function unregisters its callback ...
Unregister ==
    /\ phase = "exit" /\ at > 0 /\ Order[at] \in registered
    /\ registered' = registered \ {Order[at]}
    /\ UNCHANGED <<kernel, socket, cache, joined, phase, at, unseen, pub, history, callback>>

\* Mutation: ifstatus_cleanup forgets the if-alias table.
CleanStatus ==
    /\ phase = "exit" /\ at > 0 /\ Order[at] \notin registered
    /\ pub' = Without({p \in PathOf(Order[at]) : p[1] # "alias"})
    /\ at' = at - 1
    /\ UNCHANGED <<kernel, socket, cache, joined, registered, phase, unseen, history, callback>>

\* ... and empties its part of the tree.
Clean ==
    /\ phase = "exit" /\ at > 0 /\ Order[at] \notin registered
    /\ pub' = Without(PathOf(Order[at]))
    /\ at' = at - 1
    /\ UNCHANGED <<kernel, socket, cache, joined, registered, phase, unseen, history, callback>>

\* netlink_exit has waited for the netlink thread.
Stopped ==
    /\ phase = "exit" /\ at = 0 /\ calling = NULL
    /\ End("stopped")
    /\ UNCHANGED <<kernel, pub>>

\* The process dies; what it published stays.
Crash ==
    /\ "crash" \in Env /\ Running
    /\ End("down")
    /\ UNCHANGED <<kernel, pub>>

------------------------------------------------------------------------------
(* The netlink thread and the kernel.                                      *)

\* A notification: the cache takes it in, and the publisher is called back if
\* that changed the cache.
Receive ==
    /\ Running /\ calling = NULL /\ socket # <<>>
    /\ LET i == Head(socket)[1]
           x == Head(socket)[2]
           called == cache[i] # x /\ KindOf[i] \in registered
       IN  IF called /\ Fatal(i, cache[i], x)
               THEN End("down") /\ UNCHANGED pub
               ELSE /\ socket' = Tail(socket)
                    /\ cache' = [cache EXCEPT ![i] = x]
                    /\ IF called /\ phase # "exit" THEN Callback(i, cache[i], x)
                                                   ELSE UNCHANGED <<pub, history>>
                    /\ calling' = IF called /\ phase = "exit" THEN <<i, cache[i], x>> ELSE NULL
                    /\ UNCHANGED <<life, late>>
    /\ UNCHANGED kernel

\* The callback begun during the exit publishes, whether its publisher has
\* unregistered and cleaned up meanwhile or not.
Return ==
    /\ calling # NULL
    /\ UNCHANGED cache
    /\ Publishes(calling[1], calling[2], calling[3])
    /\ calling' = NULL
    /\ late' = IF \E n \in at + 1 .. Len(Order) : Order[n] = KindOf[calling[1]]
                   THEN late \cup {calling[1]} ELSE late
    /\ UNCHANGED <<kernel, socket, life, history>>

\* What the kernel allows object i to become: names are unique, an index is not
\* given again at once, dependents need their link.
Allowed(i, x) ==
    /\ i \in Link /\ x # NULL =>
           /\ \A j \in Link \ {i} : kernel[j] # NULL => kernel[j][1] # x[1]
           /\ kernel[i] # NULL /\ kernel[i][1] # x[1] => "rename" \in Env
           /\ kernel[i] = NULL => \A n \in 1 .. Len(socket) : socket[n] # <<i, NULL>>
    /\ i \in Link /\ x = NULL => \A j \in Dependent : On[j] = i => kernel[j] = NULL
    /\ i \in Dependent /\ x # NULL => kernel[On[i]] # NULL
    /\ i \in Route /\ x # NULL /\ kernel[i] # NULL => "reroute" \in Env

KernelChange ==
    /\ \E i \in Id : \E x \in Object(i) \cup {NULL} :
          /\ x # kernel[i] /\ Allowed(i, x)
          /\ kernel' = [kernel EXCEPT ![i] = x]
          /\ IF Running /\ KindOf[i] \in joined
                 THEN Len(socket) < SocketSize /\ socket' = Append(socket, <<i, x>>)
                 ELSE UNCHANGED socket
    /\ UNCHANGED <<cache, life, pub, history, callback>>

------------------------------------------------------------------------------

Init ==
    /\ kernel = [i \in Id |-> NULL]
    /\ socket = <<>> /\ cache = [i \in Id |-> NULL]
    /\ joined = {} /\ registered = {}
    /\ phase = "down" /\ at = 0 /\ unseen = {}
    /\ pub = [p \in Path |-> NULL]
    /\ blind = {} /\ moved = {} /\ abandoned = {}
    /\ calling = NULL /\ late = {}

MainStep ==
    \/ Start \/ Register \/ Refuse \/ Tell \/ Registered \/ Run
    \/ Quit \/ Unregister \/ Clean \/ Stopped \/ Crash

Next == MainStep \/ Receive \/ Return \/ KernelChange

Spec == Init /\ [][Next]_vars

------------------------------------------------------------------------------
(* Properties.                                                             *)

TypeOK ==
    /\ kernel \in [Id -> Content \cup LinkContent \cup {NULL}]
    /\ cache \in [Id -> Content \cup LinkContent \cup {NULL}]
    /\ \A i \in Id : {kernel[i], cache[i]} \subseteq Object(i) \cup {NULL}
    /\ \A n \in 1 .. Len(socket) :
           socket[n][1] \in Id /\ socket[n][2] \in Object(socket[n][1]) \cup {NULL}
    /\ registered \subseteq joined /\ joined \subseteq Kinds
    /\ phase \in {"down", "init", "running", "exit", "stopped"}
    /\ at \in 0 .. Len(Order) + 1
    /\ unseen \subseteq Id
    /\ DOMAIN pub = Path
    /\ blind \subseteq Dependent /\ moved \subseteq Link \cup Route /\ abandoned \subseteq Name
    /\ calling # NULL => /\ calling[1] \in Id
                         /\ {calling[2], calling[3]} \subseteq Object(calling[1]) \cup {NULL}
    /\ late \subseteq Id

\* The daemon is in service and every change has reached it.
Quiescent == phase = "running" /\ socket = <<>>

Settled(i) == i \notin blind /\ On[i] \notin moved

\* Once all is quiet what the kernel has is published as it is, under the name
\* its link has now: whatever order the kinds came in, changed and went, and
\* whatever an earlier process had left there.  Excluded are links and routes that
\* could not be registered for; and addresses and neighbors published at start when
\* the link cache was behind the kernel, at any time when there is none, or on a link
\* renamed since, and rerouted routes: nothing publishes them again.
Shown ==
    Quiescent =>
        /\ \A l \in Link : kernel[l] # NULL /\ "link" \in registered =>
               /\ pub[<<"alias", l>>] = kernel[l][1]
               /\ pub[<<"identity", kernel[l][1]>>] = l
               /\ pub[<<"status", kernel[l][1]>>] = kernel[l]
        /\ \A i \in Dependent : kernel[i] # NULL /\ Settled(i) =>
               pub[<<"entry", kernel[On[i]][1], i>>] = kernel[i]
        /\ \A r \in Route \ moved : kernel[r] # NULL /\ "route" \in registered =>
               pub[<<"fib", r, kernel[r]>>] = kernel[r]

\* Once all is quiet an if-alias is of a link there is, and so is a status, but
\* for names a link has given up.
LinkReal ==
    Quiescent =>
        /\ \A l \in Link : pub[<<"alias", l>>] # NULL => kernel[l] # NULL
        /\ \A n \in Name \ abandoned : pub[<<"status", n>>] # NULL =>
               \E l \in Link : kernel[l] # NULL /\ kernel[l][1] = n

\* A published entry is of an object there is.
Real(i) ==
    \A n \in (Name \cup {NULL}) \ abandoned : pub[<<"entry", n, i>>] # NULL =>
        kernel[i] # NULL /\ kernel[On[i]][1] = n

\* Once all is quiet nothing is published of neighbors, host addresses and routes
\* that have gone, but for dependents handled at start while the link cache was
\* behind, or without one, names links gave up, and rerouted routes.  In particular a
\* dependent that goes with its link is found under the name it is published under,
\* although by then the kernel knows the link no more.
NothingLeft ==
    Quiescent =>
        /\ \A i \in Dependent \ (blind \cup Short) : Real(i)
        /\ \A r \in Route \ moved, x \in Content : pub[<<"fib", r, x>>] # NULL => kernel[r] = x

\* As NothingLeft, for all addresses: nl_address_cb, "Handle changes in addresses
\* from the kernel", removes a deleted address.
AddressGone == Quiescent => \A i \in IdOf("address") \ blind : Real(i)

\* A daemon that has exited leaves nothing published ("Clear out the cache", "Remove
\* FIB from Apteryx"), though notifications come in while its modules exit, but for
\* what a callback publishes that was under way when its publisher unregistered and
\* cleaned up; of these there is one for each kind at most.  And but for identities,
\* which nothing removes, not even with their link.
CleanExit ==
    phase = "stopped" =>
        /\ \A p \in Path : p[1] # "identity" /\ pub[p] # NULL => \E i \in late : i \in About(p)
        /\ \A i, j \in late : KindOf[i] = KindOf[j] => i = j
=============================================================================
