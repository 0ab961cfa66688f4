# Verification of apteryx-kermond

kermond keeps three things in agreement: the configuration and status tree of
Apteryx, the kernel's network objects (seen over netlink), and its own tables.
This directory models it in TLA+, checks the models with TLC on small instances
and proves the central invariants with TLAPS for every value of the constants.

## Inventory

One process, three threads:

- the **main** thread initialises and starts the modules, replays existing
  configuration into their callbacks, runs the GLib loop, exits the modules;
- the **Apteryx** thread (of the client library) delivers watch events to the
  modules' callbacks, in order, one at a time;
- the **netlink** thread polls the cache manager and calls the modules' callbacks
  for every change of a kernel object.

No lock is shared by the threads, except one inside the entity manager.

| component | source | state | operations | interacts with |
|---|---|---|---|---|
| life cycle | main.c, kermond.h | the loop's flag, the pid file | start, run, terminate, FATAL | module table, netlink |
| module table | module.c | which modules are enabled | init, start, exit of all | every module |
| netlink helper | netlink.c | cache manager, one descriptor (cache, callbacks) per kind, monitor thread | register, unregister, poll, change callback | kernel, every netlink client |
| static routes | iprouting/rib.c | two tables: index -> route | watch callback (add, delete, update), replay, exit | Apteryx, kernel |
| Apteryx helpers | apteryx.c | none | replay of a tree, boolean parsing | all configured modules |
| FIB publisher | iprouting/fib.c | published routes | netlink callback | netlink, Apteryx |
| interface configuration | interface/ifconfig.c | none | watch and netlink callbacks | both |
| interface status | interface/ifstatus.c | published status | netlink callback, clean-up | netlink, Apteryx |
| entities | entity/entity.c | table of watched entities, under a lock | watch, netlink address callback, interface change | all three threads |
| static addresses, static neighbors | ip/address-static.c, ip/neighbor-static.c | none (the tree) | watch and link callbacks | Apteryx, kernel |
| address cache, neighbor cache | ip/address-cache.c, ip/neighbor-cache.c | published objects | netlink callback | netlink, Apteryx |
| settings | icmp/icmp.c, tcp/tcp.c, neighbor/settings.c | sysctls, iptables rules | watch callbacks | Apteryx, kernel |

What makes each component correct, and where it is hard:

- *life cycle*: a daemon told to stop stops; its threads never use what another
  has freed; it does not serve without its monitor thread. Hard: two threads
  and one flag, which `g_main_loop_run` sets whoever cleared it before.
- *netlink helper*: every client's view agrees with the kernel. Hard: the
  callback list, the cache and the descriptor are shared without a lock.
- *static routes*: the kernel has the routes the configuration describes, and no
  route kermond added is ever left behind. Hard: leaves arrive one by one and in
  any order, entries compete for kernel slots, an update is a delete and an add,
  additions fail, links flush routes, the process dies and comes back.
- *publishers* (fib, caches, ifstatus): published objects agree with the kernel's,
  and nothing stays published after exit.
- *static addresses and neighbors*: configuration is applied whether it comes
  before or after its link.
- *entities*: zones see the addresses of their interfaces, and no others. Hard: three
  threads and a lock that does not cover every use of an entity.
- *settings, interface configuration*: the kernel has the configured values, or the
  defaults, for links that come and go too.

All hazards, with their lines, are in `PROJECT.json`.

## Modules

| module | models | checked by | proved in |
|---|---|---|---|
| `Rib` | rib.c, with the replay helper of apteryx.c | `MCRib` | `RibProofs` |
| `RouteOwner` | what rib.c promises: an abstract specification `Rib` implements | `MCRib` | `RibProofs` |
| `Daemon` | main.c, module.c, the monitor thread's life | `MCDaemon` | `DaemonProofs` |
| `Netlink` | netlink.c, for one kind of object | `MCNetlink` | `NetlinkProofs` |
| `Statics` | address-static.c and neighbor-static.c, with the replay helper | `MCStatics` | `StaticsProofs` |
| `Publish` | fib.c, ifstatus.c, address-cache.c and neighbor-cache.c | `MCPublish` | `PublishProofs` |
| `Entity` | entity.c, with the replay helper | `MCEntity` | `EntityProofs` |
| `Settings` | icmp.c, tcp.c, neighbor/settings.c and ifconfig.c, with both helpers of apteryx.c | `MCSettings` | `SettingsProofs` |

`Queues` holds the lemmas about queues of updates that six of the proof modules share.

### Rib

State: `cfg` is the rib tree in Apteryx, `queue` the watch events not delivered,
`table` the two hash tables (as one function of family and index), `kernel` the
static routes of the main table, `links` the links that are up. `phase`,
`passes`, `replay`, `pending` place the module between `rib_init` and the end of
`rib_exit`. `freed` marks table entries that point at a released route (index 0,
which `route_del` does not remove), `orphans` the kernel routes left by a process
that died (history only).

Actions: `Watch` delivers the oldest event and `Replay` one leaf of a snapshot to
`Handle`, the whole of `watch_static_routes`: `HandleAdd`, `HandleDelete`,
`HandleUpdate` are its three branches, `Undefined` its undefined behaviour (a
released route used, two NULL nexthops compared). `Startup`, `Snapshot`,
`StartDone`, `Exit`, `ExitRoute`, `ExitDone` are the module's life; `Crash`,
`Edit`, `LinkDown`, `LinkUp` the environment, switched by `Env`.

Kept: which leaf was written, the order of deliveries, that a new route is built
from the tree as it is *now* while an update uses the *event's* value, the shared
nexthop of gateway and interface, the priority word in two halves and what the
extreme distance and metric do to it, wildcard deletes, NLM_F_EXCL. Abstracted:
addresses are model values; a number is its `strtoull` value; the half word is
`Half` (a small even number) instead of 2^16. A callback is one step. Two threads
can be inside it, in hash tables that no lock protects; what that does is undefined,
so no interleaving inside a callback is modelled.

### RouteOwner

The promise behind the component: each rib entry owns one route of the kernel or
none; a step installs a route for one owner in a free slot, replaces that owner's
route, or withdraws it, and touches nothing else; a process that dies owns nothing
any more (its routes stay). `Rib` implements it (`ImplementsOwner`) with
`OwnedRoutes` as the mapping: the table, but during `rib_exit` only the entries
still to be visited. A callback is one step of its own entry or a stutter, a step of
`rib_exit` a withdrawal.

### Daemon

State: where the main thread is (`main`, `at`), where the monitor thread is
(`monitor`, `err`) and what main knows of it (`handle`), the loop's flag, the cache
manager, the pid file, and which modules have been initialised, started, exited.
`early` is history: a request to quit came before the loop ran. Every step of
`main()` after `g_main_loop_new` is an action; `Failures` says which calls may fail.
`Fragile`, `Registrars`, `Dependents`, `Inits` and `Starts` describe the module table;
`MCDaemon` has the real one in link order.

`netlink_init` looks at no result, so `NetlinkInit` may leave no manager (then every
`Register` is FATAL, a module that needs a cache fails, `MonitorPoll` follows a NULL
pointer, `NetlinkExit` joins nobody) or no thread (`handle` stays unset, or names none;
using it may end the process). The undefined uses end in `crashed`.

### Netlink

State: the kernel's objects, the socket (with overrun), the cache, the descriptor
(`none`, `joined` while it is being filled, `live`, `freed`, and the two shapes a failed
registration leaves behind: `hollow`, without a cache, and `unmanaged`, with one nobody feeds), the callback
list, where both threads are, and `told[c][i]`, what client `c` was last told of
object `i`. `raced` is history: the pairs whose object changed between the two
steps in which `nl_cache_foreach` tells a new client of it.

`Register`/`Dump`/`Prepend`/`Fetch`/`Tell`/`Told` are `netlink_register` cut where the
other thread can see the difference; `Receive`/`Walk`/`Call` are the cache update
and `change_cb`, cut likewise. `Unregister` and `Cleanup` are the exit function of
a client. `mngr` is whether `netlink_init` got a cache manager; without one `Register` is
FATAL and `PollNothing` ends the process. `Stray` is the undefined behaviour of walking
freed memory. libnl is
external: the manager subscribes to a kind, then fills the cache and takes it over
in one step.

### Statics

The two managers are one program over two kinds of kernel object, so one module
models both: `Content` says what a value becomes in the kernel (a link-layer
address that does not parse becomes nothing; for addresses the value is only
there or not).

State: `cfg` and `queue` are the tree and its undelivered events; `links`, `news`,
`cache` the kernel's links, their notifications and the link cache; `kernel` the
addresses or neighbors. `phase` and `sock` are the manager's life. `work[t]` and
`held[t]` are what thread `t` has still to rewatch, and the leaves of the snapshot
it took. `missed` and `raced` are history.

`Start` is the registration that calls back for every link there is, `Open` the
socket that comes after it; `Watch` and `Load` are the start function, `Unwatch`,
`Close`, `Unregister` the exit function. `Rewatch(t)` and `Tell(t)` are
`apteryx_rewatch_tree` in either thread, cut between the snapshot and each
callback; `Deliver` is a watch event, `Receive` a link notification with
`nl_if_cb`. All end in `Handle`, the watch callback, which a manager without a
socket does not survive.

Apteryx is external and taken to do what the managers rely on. Their watches,
unlike those of the other modules, do not end in `/*`; the model has them told of
every leaf below. An admin-down IPv6 link, which loses its addresses but not its
index, is left out.

### Publish

The four publishers are clients of `Netlink` that keep nothing but what they put
into Apteryx. They share the socket, so `Publish` has one queue for all kinds, and
an address or neighbor is published under a name another publisher's kind decides.

State: `kernel`, `socket`, `cache` are the kernel's objects, their notifications
and the caches of all kinds; `pub` the published tree, which survives the process.
`joined`, `registered`, `phase`, `at`, `unseen` say how far the module table has
come. `calling` is the callback under way while the daemon exits. `blind`, `moved`,
`abandoned` and `late` are history: what the code has lost track of.

`Register`, `Tell`, `Registered` are a publisher's init function (prune, register,
be told of what there is, take the link cache), `Unregister` and `Clean` its exit
function. `Refuse` is an init function whose registration fails: ifstatus and fib do not
look and go on, the caches miss theirs and fail, and then the exit functions of all
modules run. `Callback` is the netlink callback, by kind `LinkCallback`,
`RouteCallback`, `DependentCallback`; `LinkName` is where the two sources of a link's
name differ. `Fatal` is the route callback dereferencing a new object that is not
there (`V2`, libnl 3.3 and later): the process ends. A name that is not initialised
(`DependentCallback`) is any name, or none.

A callback that `Receive` begins during the exit ends with `Return`, and the main thread
may unregister and clean up in between (`late` records whose objects). Before the exit a
callback is one step: the main thread does not touch what is published then, and one
that the exit overtakes can as well have begun after it. What races with registration
is cut in `Netlink`.

### Entity

State: `cfg`, `queue`, `kernel`, `news`, `cache` as in the other modules; `list` and
`lock` are `dynamic_entities` and `list_lock`; `walk[t]` is the visit of the cached
addresses thread `t` is in, `call` the callback the netlink thread is in, `pub` the
leaves published, `unread` what the link cache lacks. `lost`, `raced` and `blind` are
history.

`Handle` is `watch_entities`, run by `Deliver` and `Replay`. It ends in `Enlist`, which
extends the list and lets the lock go before it visits addresses, or `Delist`, which
keeps it until they are cleared; `Fetch`, `Set`, `Done` are the visit, cut at each
address. `Receive` and `Call` are the cache update and `nl_addr_cb`, which waits for
the lock in between. At the start the address cache, filled after the link cache, may
have addresses of a link that cache does not know (`unread`, until `ReadLink`): a visit
then finds no index and passes them over (`Known`, `blind`). Later no such address is
cached, as the kernel announces a link before its addresses, withdraws it after them,
and one socket carries both. An object released while another thread visits addresses for it
is a `"freed"` visit: it may set the leaf or clear it.

A registration succeeds (its failures are in `Netlink` and `Daemon`). Leaks are not
modelled.

### Settings

Four modules of one shape: a leaf's value, or its default when it is absent or out of
range, becomes one request. `Accepted`, `Default` and `Given` hold what is particular to
each parameter; `Rule` (a firewall rule, looked for and inserted in two steps),
`Sysctl` and `Change` (a change of a link) are the three kinds of request.

State: `cfg`, `queue`, `links`, `news`, `cache`, `work` and `held` as in `Statics`;
`adding[t]` is the rule thread `t` has found missing and is about to insert;
`kernel[s]` the kernel's value of a setting, for a rule how often it is in its chain.
`missed`, `raced`, `bare` and `doubled` are history. `Start`, `Open`, `Watch`, `Load`,
`Unwatch`, `Close` are the life of the modules, which come and go together; `Open` is
where a link that changes finds ifconfig with a cache and without a socket, and ends
the process (ifconfig.c:157-165).

A text is the number it reads as, `-1` if it reads as none. Commands succeed if what
they change is there; the leak of a failed command (settings.c:27) is left out.

## Runs

| run | shows | bounds |
|---|---|---|
| `rib_shared` | `TableValid`, `KernelOwned` under every environment event | two IPv4 entries, indices 0 and 1, one prefix; one with a metric; one link; one queued event |
| `rib_converge` | `TableInKernel`, `Accurate`, `Complete`, `Converges`, `ImplementsOwner` | three IPv4 entries: two compete for a prefix, the third has an id, two prefixes, an interface and the extreme distance; two queued events; restarts |
| `rib_ipv6` | violation of `Complete`: IPv6 entries are built and loaded from the IPv4 tree | one IPv6 entry |
| `daemon` | `ManagerSafe`, `Ordered`, `Watched`, `Stops` | the real table of 12 modules, all failures, those of `netlink_init` included |
| `netlink` | `Mirror`, `NothingMissed`, `Settles`, `OneLate` | two clients, one object with two contents, two queued notifications |
| `netlink_destroy` | violation of `NoUseAfterFree`: the descriptor is freed under the monitor thread | the same, nothing fails |
| `statics` | `Applied`, `NothingStale`, `KeepsConfigured` | an IPv4 and an IPv6 entry on one link, two good values and a bad one, two queued events, two link notifications, three interface indices |
| `statics_socket` | violation of `SocketReady`: the callback runs before there is a socket | one entry, one good value |
| `publish` | `Shown`, `LinkReal`, `NothingLeft`, `CleanExit`, with callbacks under way during the exit and refused registrations | two links, a neighbor on one, a route; two names, two queued notifications; names are symmetric; libnl before 3.3 |
| `entity` | `Shown`, `NothingLeft`, `KeepsListed` | two hosts with one interface, one address, two queued events, one notification; hosts are symmetric; no refused values |
| `settings` | `Applied`, `Reverted`, `TwiceAtMost` | six settings in five groups, of which clients write one; one link with two indices, two queued events, two notifications |
| `publish_address` | violation of `AddressGone`: a deleted address is pruned under another path | one link, one address |

Why the bounds are enough. *Rib*: entries interact only through a common kernel
slot or a wildcard delete, which takes two entries (one of them without a
priority); a stale event takes two writes of one entry in the queue. Index 0 is
special in the code, so one instance has it. *Netlink*: objects do not interact,
callbacks only through their order in the list, a race takes one change against
one registration, an overrun one change more than the socket holds. *Daemon*: the
instance is the program's own table. *Statics*: entries do not interact, so one of
each family is enough; a race takes a snapshot and two writes; three indices let
the link go and come back with the cache a whole life behind. *Publish*: an entry
depends on itself and its link only, a name on the two links that may have it, and
two notifications let a dependent and its link go together; names are not looked
into, so exchanging them changes nothing. *Entity*: an entry meets another only in
the loop of `nl_addr_cb` and at the lock, which takes two; each address is visited by
itself; a stale event takes two writes in the queue, and refused values, which change
nothing, are left to the proofs. *Settings*: a setting meets only
those of its tree, so clients write one group in a behaviour and the instance has one
of every kind; two notifications let a link go and come back behind the cache.

Limits of the passing runs, each because the code does not do better:

- `TableInKernel` and the properties after it hold only without link changes (rib.c is
  not told of them) and with positive indices. `Accurate`, `Complete` and `Converges`
  need more of clients, which `Plain` says: IPv4 entries, values that parse and are in
  range (a refused value leaves the old one in force), no metric of 65536, one kind of
  nexthop for each entry; and no edits during a start (an old snapshot can overwrite a
  newer event). TLC evaluates `Plain` and `Reachable` in `rib_converge`.
- `Complete` excludes entries whose prefix another entry can take (a refused addition
  is never retried) and those that have lost their id (the next event about another
  leaf may install them again, or none may come).
- `ImplementsOwner` has the same bounds; orphaned routes of a crash are in its proof
  and not in the run, because `Complete` does not hold with them.
- `Stops` excludes the exit after a pid file that cannot be opened (main.c:124): the
  loop's flag is still set, so the monitor thread goes on and the join waits for ever.
- `Watched` allows a daemon without its monitor thread when the thread could not be
  created (netlink.c:181), after an interrupted poll, a garbage `err`, or a request to
  quit that came before the loop. `ManagerSafe` and `Stops` exclude what follows from a
  manager that could not be allocated (netlink.c:178), `Stops` also the join of a thread
  that could not be created.
- `Mirror` and `Settles` exclude a descriptor left by a failed registration
  (netlink.c:114): nothing makes its cache good. `Mirror` excludes the pairs of `raced`.
  `OneLate` says that a callback already under way when its client exits is made, but is
  the last.
- In `Statics`, `Applied` is about IPv4 entries only: `nl_if_cb` searches the IPv4 tree
  (address-static.c:170, neighbor-static.c:185), so a new link's IPv6 entries are not
  applied. With `NothingStale` it excludes those last acted on with an outdated value;
  `NothingStale` also excludes entries edited while no watch was there (`missed`), which
  linger because nothing reads the kernel back. `KeepsConfigured` has no exception.
- `Shown` and `NothingLeft` exclude rerouted routes (`moved`: the callback refuses a
  change), dependents of renamed links, and dependents handled while the link cache
  was behind the kernel, or without one (`blind`); `Shown` also links and routes whose
  registration failed; `LinkReal` excludes names links gave up. `CleanExit` excludes the
  name, index and type of an interface, which the code never removes, and what a callback
  publishes that its publisher's exit overtook (netlink.c:76-80): nothing removes that
  before the next start, but there is one object of each kind at most.
- `publish` has `V2 = FALSE`, so that a route can be withdrawn at all: with the newer
  callback a withdrawn route ends the daemon (fib.c:78). `Crash` covers what follows.
- In `Entity`, `Shown` and `KeepsListed` exclude entries whose object was used after it
  was released, or last handled with an outdated value (`raced`), and addresses that
  another address of the entity is published like (`Sole`); `Shown` also addresses passed
  over at the start while the link cache was behind (`blind`). `NothingLeft` excludes what
  an earlier process published, an addition that came after its address had gone, and
  a removal that missed an address whose callback was waiting for the lock (`lost`):
  no exit function clears anything, and nothing looks for them.
- In `Settings`, `Applied` and `Reverted` exclude settings an outdated snapshot overtook
  (`raced`), a rule inserted twice (`doubled`: a removal deletes one), and the sysctls of
  a link that came later (`bare`: only ifconfig is told of links). `Reverted` excludes
  settings removed while no watch was there (`missed`).
- With the greatest metric parse_parameter accepts (65536) the priority's distance
  half changes and `Accurate` fails; `rib_converge` does not have it.

`CHECK_DEADLOCK FALSE` stands in the Daemon and Netlink configurations, where the
process really ends (or blocks for ever, without its pid file).

Fairness. Weak fairness of each thread's steps (`MainStep`, `MonitorStep`; in
`Rib` the deliveries and the module's life): the operating system runs both
threads. None of the environment: clients, links, crashes, signals, and the
kernel's own changes. `Startup` is fair because a supervisor starts the daemon;
`Converges` needs it after an exit. A poll returns after at most a second, so
`MonitorPoll` is fair too.

## Proofs

`RibProofs`, from the assumptions on the constants in `Rib` (any entries, texts, links,
queue bound, half word, environment) and, where a theorem says so, a few more:

- `TypeCorrect`: `TypeOK` is inductive once `Wanted` is known to return routes;
  the lemmas `ApplyType`, `BuiltFromType`, `WantedType` say what the parsing
  operators return.
- `TableAlwaysValid`: `TableValid` is inductive with `TypeOK`. The case that
  matters is an update whose new object is no route: `Entry` keeps it only at
  index 0.
- `AlwaysOwned`: `KernelOwned` needs `FreedDangles` (a released entry is still in
  the table), or an addition could take over a marked slot. The case that matters
  is `DeleteOwn`: a delete request takes away the route it describes, or that
  route was gone already, whatever else it matches.
- `AlwaysInKernel`, assuming link changes never happen and 0 is no index: the
  strengthening is `AgreeInv`, no two kernel routes in one slot and every table
  entry in the kernel. `DeleteExactly` shows that then even a wildcard request
  takes nothing but its own route.
- `ManagerImplementsOwner`, under the same two assumptions: `Rib` implements
  `RouteOwner` for any entries, values and environment, crashes included. `ExitInv`
  adds to `AgreeInv` what is needed at exit: no entry is released and still in the
  table, and the routes still to be deleted are in the kernel and all different, so
  that each step of `rib_exit` is one withdrawal (`ExitRouteExactly`).
  `HandleImplements` has the branches of the callback: an update is a replacement, or
  a withdrawal when the new route is refused.
- `AlwaysAccurate`, assuming `Plain`, no link changes and no edits during a start, with
  exits and crashes. A plain tree describes one route, in whatever order it is read
  (`WantedIs`), and a leaf applied to a route shows in one field of it (`ApplyFields`).
  So the invariant can go field by field (`RouteInv`): each is what the configuration
  makes of it, or an event about its leaf is in the queue; and the last event about a
  leaf has its value (`QueueInv`).
- `AlwaysComplete`, which assumes also that gateways are reached and that there are no
  crashes (a route left by a dead process occupies its slot). `CompleteInv`: an entry
  without the route it describes has an event in the queue or a place in a snapshot
  (`Due`), and when the callback gets there nothing is in the way (`NoneInTheWay`,
  from `KernelOwned`: every route there is the route of an entry, and no other entry
  has its prefix).

`DaemonProofs`, for any module table and any failures: `TypeCorrect`,
`ManagerAlwaysSafe`, `AlwaysOrdered`, `AlwaysWatched`. The inductive invariant is
`Progress` (which entries the three loops have visited, by where the main thread is)
with `Lifetime` (the state of the manager and of the thread, by the same) and `Blocked`
(without a manager the first loop gets past no module that needs a cache); for
`Watched`, `Reasons` says what has made the monitor thread stop, wherever both are.

`Queues` is about queues of updates `<<key, value>>`, which is what Apteryx and the
kernel send in every model. `Says` is the last word of a queue on a key: appending an
update and taking one off keep "the last word is what is so now", and a cache that
disagrees has an update to come (`Announced`). `Follows` is for keys that are
numbered anew each time they come back, as links are. `After` relates each
prefix of a queue to the state a cache will be in when it has taken that prefix in.

`StaticsProofs`, for any entries, links, values, bounds and failures: `TypeCorrect`,
`AlwaysKeepsConfigured`, `NeverStale` and `AlwaysApplied`. A delete request is made
only for an event without a value, and such an event may be old. So the inductive
invariant says of the queue that an event that no longer agrees with the
configuration is followed by another of its entry (`Corrected`); for that, no event
may outlive its watch (`OnlyWatched`), and for that in turn a manager with watches
must have its socket, or it could die with events in the queue (`InService`).
`NeverStale` adds how the link cache follows the links (`Links`), that nothing is made
of an address on a link the cache has wrong (`Absent`), and that an object which is not
what is configured has an event to come (`Explained`). `AlwaysApplied` adds `Served`:
what is due is in the kernel, or one of the threads has yet to act on it (`ToCome`: an
event, a link notification, a leaf of a snapshot, or a snapshot to be taken).

`SettingsProofs` follows the same argument for settings and has two things more: the
values (`Accepted`, `Default`) are shown to be numbers for any text, and `RuleTwiceAtMost`
counts the threads between looking for a rule and inserting it: `NetlinkOnly` keeps the
third thread out of rules, so there are two. `AlwaysReverted` needs `Counted` (a rule
that is there twice was inserted twice) and `Untouched` (a link the cache has not learnt
of has the kernel's own values), `AlwaysApplied` again `Served`.

`NetlinkProofs`, for any clients, objects, socket size and failures: `TypeCorrect` and the
action property `LastWord` from `Placed` (a callback is in the list from its
registration to its exit, once, whichever thread is where) and `Late` (who was told
something after its exit is not about to be called). `AlwaysMirror` and
`AlwaysInformed` from `Faithful`, which says of every listed client and object that the
client was told what the cache has (`Truthful`), or something (`Informed`); or the walk
under way has not come to the client yet (`Due`), or its registration not to the object
(`Fetched`, `Unfetched`). The steps that matter are `Prepend` during a walk and
`Receive` during a registration.

`EntityProofs`, for any entities, interfaces and addresses: `TypeCorrect` and the action
property `AlwaysKeepsListed` from `Modes` (who clears holds the lock and its entry is off
the list; who publishes has an entry on the list, unless it was released). `AlwaysShown`
and `AlwaysNothingLeft` from two invariants that look at each pair of an entry and an
address: it is shown, or a visit or the netlink thread is about to show it (`Coming`), or
it was passed over at the start (`blind`);
and what is published has a listed entry and a cached address, or one of the two is
being removed by a thread that will come to it (`Justified`). `Cleared` is what the lock
buys: an address a clearing visit has passed is still cached or its callback waits.

`PublishProofs`, for any objects, names and bounds: `TypeCorrect`, `AlwaysCleanExit`
(`Swept`: what has been cleaned stays clean but for late objects, because a callback
touches only the paths of its own kind; `UnderWay` says whose callback may still end, and
`Lateness` that a kind whose publisher has gone is called once more at most), and `AlwaysShown`,
`AlwaysLinkReal`, `AlwaysNothingLeft`. These go in two steps. `CInv` is about the caches:
`Notified` as above; names are unique not only in the kernel (`Sound`) but in every state
the link cache will be in (`Unique`), and when a link's removal is received its
dependents have gone from their cache (`Bereft`). Both hold because one socket keeps
the notifications of all kinds in order, and a kind joined late is dumped as it is
now. `PInv` is about the tree: link by link, dependent by dependent, route by route,
what is cached is published under the name the link cache has and nothing else is,
but for what `blind`, `moved` and `abandoned` record. `RegistersParts`, `LinkParts`,
`RouteParts`, `DependentParts` and `QuietParts` are its five kinds of step.

Each of these strengthenings was checked by TLC on the instance of its run before it
was proved. The proofs assume of the constants what the `ASSUME`s of the
component's module say, and in `Rib` what the theorem states; TLC evaluates all of it in
the component's run.

Only model-checked: everything temporal (`Converges`, `Stops`, `Settles`), since
liveness is out of the prover's reach. Every other property of a passing run is proved.

## Not modelled yet, and the plan

Refinement: `Netlink` (without registration races) implements an abstract mirror.

Not modelled because nothing could be said of it: two threads inside
`watch_static_routes` at once (rib.c:333), which is a data race on two hash tables.

Never: procfs.c by itself (one file read or written, its contents data in `Publish`),
the test harness and tests, option parsing, the YANG files and generators.
