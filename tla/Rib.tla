-------------------------------- MODULE Rib --------------------------------
(***************************************************************************)
(* The static route manager, src/iprouting/rib.c, with the helper it uses  *)
(* to replay existing configuration (src/apteryx.c).                       *)
(*                                                                         *)
(* Clients write leaves of rib entries into Apteryx; each write queues a   *)
(* watch event.  The Apteryx thread handles the events one at a time, the  *)
(* main thread replays snapshots of the tree while the module starts.      *)
(* Both run the same callback, which keeps a table of the routes kermond   *)
(* installed and adds routes to, and deletes them from, the kernel.        *)
(*                                                                         *)
(* Abstractions.  An address text is a model value and Address says what   *)
(* nl_addr_parse makes of it.  A number is the value strtoull returns for  *)
(* its text (0 for a text without digits).  The 32-bit priority is kept as *)
(* its two halves.  One callback is one step, except that its view of the  *)
(* tree is the tree at that step, not the tree when its event was queued.  *)
(***************************************************************************)
EXTENDS Naturals, Sequences, FiniteSets

CONSTANTS
    NULL,        \* an absent leaf, route, address or link
    Index,       \* indices of rib entries
    Text,        \* address texts clients write
    Addr,        \* addresses and prefixes, as parsed
    Address,     \* Address[family][text]: the parsed address, or NULL
    Link,        \* interface names; a name stands for its ifindex too
    LinkOf,      \* LinkOf[a]: the link over which gateway a is reached, or NULL
    Candidates,  \* Candidates[key][leaf]: the values clients write there
    Half,        \* 2^16 in the code; instances use a smaller half word
    MaxQueue,    \* bound on undelivered watch events
    Env          \* which of EnvEvents may happen

Family == {4, 6}
Key == Family \X Index
Leaf == {"id", "prefix", "nexthop", "ifname", "distance", "metric", "protocol"}
EnvEvents == {"crash", "exit", "links", "edits_while_starting"}

Number == Nat

ASSUME NullAssumption == NULL \notin Addr \cup Link
ASSUME IndexAssumption == Index \subseteq Nat
ASSUME AddressAssumption == Address \in [Family -> [Text -> Addr \cup {NULL}]]
ASSUME LinkAssumption == LinkOf \in [Addr -> Link \cup {NULL}]
ASSUME HalfAssumption == Half \in Nat /\ Half >= 2 /\ Half % 2 = 0

\* What the values of a leaf are.
Sort(leaf) ==
    CASE leaf \in {"id", "distance", "metric"} -> Number
      [] leaf \in {"prefix", "nexthop"} -> Text
      [] leaf = "ifname" -> Link
      [] leaf = "protocol" -> {"static", "other"}

ASSUME CandidatesAssumption ==
    \A k \in Key, leaf \in Leaf :
        Candidates[k][leaf] \subseteq Sort(leaf) /\ NULL \notin Candidates[k][leaf]

Choices(k, leaf) == Candidates[k][leaf] \cup {NULL}
Value == UNION {Choices(k, leaf) : k \in Key, leaf \in Leaf}

\* A watch event, or a leaf of a snapshot: entry, leaf, value.
Event == {e \in Key \X Leaf \X Value : e[3] \in Choices(e[1], e[2])}

VARIABLES
    cfg,      \* the rib subtree of Apteryx: [Key -> [Leaf -> value or NULL]]
    queue,    \* watch events not yet delivered, oldest first
    phase,    \* where the module is in its life
    passes,   \* snapshots rib_start has still to take
    replay,   \* leaves of the current snapshot not yet replayed
    table,    \* v4_static_routes and v6_static_routes, as one function
    freed,    \* keys whose table entry points at a released route
    pending,  \* keys rib_exit has still to visit
    kernel,   \* static routes in the kernel's main table
    orphans,  \* history: those of them left by a process that died
    links     \* links that exist and are up, in the kernel and in link_cache

vars == <<cfg, queue, phase, passes, replay, table, freed, pending, kernel,
          orphans, links>>

------------------------------------------------------------------------------
(* Routes.                                                                 *)

Priority == 0 .. Half - 1
Hop == Addr \cup Link

\* A route object: a static route of the main table, unicast, scope 0.
\* Its nexthop, if any, is a gateway or a device, never both.
RouteObject == [fam : Family, dst : Addr \cup {NULL}, nh : Hop \cup {NULL},
                hi : Priority, lo : Priority]

Valid(rr) == rr.dst # NULL /\ rr.nh # NULL

Route == {rr \in RouteObject : Valid(rr)}

ASSUME NullRouteAssumption == NULL \notin RouteObject

Blank(k) == [fam |-> k[1], dst |-> NULL, nh |-> NULL, hi |-> 0, lo |-> 0]

\* A number a uint32_t variable can hold and the distance and metric checks pass.
Stored(v) == v % (Half * Half)
InRange(v) == Stored(v) \in 1 .. Half
Amount(v) == IF v = NULL THEN 0 ELSE Stored(v)

\* prio = (prio & 0xFFFF) | (distance << 16) in 32 bits: 65536 shifts out.
SetDistance(rr, d) == [rr EXCEPT !.hi = IF d = Half THEN 0 ELSE d]

\* prio = (prio & 0xFFFF0000) | metric: 65536 lands in the distance half.
OrOne(n) == IF n % 2 = 0 THEN n + 1 ELSE n
SetMetric(rr, m) ==
    IF m = Half THEN [rr EXCEPT !.lo = 0, !.hi = OrOne(rr.hi)]
                ELSE [rr EXCEPT !.lo = m]

\* parse_parameter accepts value v of a leaf of entry k.
Accepts(k, leaf, v) ==
    CASE leaf = "id" -> v \in {NULL, k[2]}
      [] leaf = "prefix" -> v # NULL /\ Address[k[1]][v] # NULL
      [] leaf = "nexthop" -> v = NULL \/ Address[k[1]][v] # NULL
      [] leaf = "ifname" -> v = NULL \/ v \in links
      [] leaf \in {"distance", "metric"} -> v = NULL \/ InRange(v)
      [] leaf = "protocol" -> v \in {NULL, "static"}

\* What parse_parameter makes of route object rr when it accepts the value.
\* The gateway and the device share the route's only nexthop.
Apply(k, rr, leaf, v) ==
    CASE leaf = "prefix" -> [rr EXCEPT !.dst = Address[k[1]][v]]
      [] leaf = "nexthop" ->
            [rr EXCEPT !.nh = IF v = NULL THEN NULL ELSE Address[k[1]][v]]
      [] leaf = "ifname" -> [rr EXCEPT !.nh = v]
      [] leaf = "distance" -> SetDistance(rr, Amount(v))
      [] leaf = "metric" -> SetMetric(rr, Amount(v))
      [] leaf \in {"id", "protocol"} -> rr

\* The subtree apteryx_to_route reads for entry k: the IPv4 one, always.
TreeOf(k) == cfg[<<4, k[2]>>]

Present(tree) == {leaf \in Leaf : tree[leaf] # NULL}

Put(k, rr, leaf, tree) ==
    IF tree[leaf] = NULL THEN rr ELSE Apply(k, rr, leaf, tree[leaf])

\* The route objects apteryx_to_route can return for entry k.  The children
\* of a tree come in no fixed order, and order shows in two places: nexthop
\* against ifname (the later one stays) and distance against metric.  An
\* object without both a destination and a nexthop is dropped by the caller.
BuiltFrom(k, tree) ==
    LET hops == {Apply(k, Blank(k), leaf, tree[leaf]).nh :
                     leaf \in Present(tree) \cap {"nexthop", "ifname"}}
        prios == {Put(k, Put(k, Blank(k), "distance", tree), "metric", tree),
                  Put(k, Put(k, Blank(k), "metric", tree), "distance", tree)}
    IN  {[Put(k, p, "prefix", tree) EXCEPT !.nh = h] : p \in prios, h \in hops}

\* Mutation: the caller forgets route_valid.
WantedUnchecked(k, tree) ==
    IF \A leaf \in Present(tree) : Accepts(k, leaf, tree[leaf])
        THEN BuiltFrom(k, tree)
        ELSE {}

Wanted(k, tree) ==
    IF \A leaf \in Present(tree) : Accepts(k, leaf, tree[leaf])
        THEN {rr \in BuiltFrom(k, tree) : Valid(rr)}
        ELSE {}

Built(k) == Wanted(k, TreeOf(k))

------------------------------------------------------------------------------
(* The kernel's side of rtnl_route_add and rtnl_route_delete.              *)

SamePrio(r, s) == r.hi = s.hi /\ r.lo = s.lo
PrioLeq(r, s) == r.hi < s.hi \/ (r.hi = s.hi /\ r.lo <= s.lo)
SameSlot(r, s) == r.fam = s.fam /\ r.dst = s.dst /\ SamePrio(r, s)

\* The link a nexthop goes through.
Via(h) == IF h \in Link THEN h ELSE LinkOf[h]

\* NLM_F_EXCL: an occupied slot is EEXIST, whatever its nexthop.
KernelAccepts(routes, rr) ==
    /\ Via(rr.nh) \in links
    /\ \A r \in routes : ~SameSlot(r, rr)

\* A delete request matches on every attribute it carries; a zero priority
\* matches any, and the match of least priority goes.
Matching(routes, rr) ==
    {r \in routes : /\ r.fam = rr.fam
                    /\ r.dst = rr.dst
                    /\ rr.nh \in {NULL, r.nh}
                    /\ SamePrio(r, rr) \/ (rr.hi = 0 /\ rr.lo = 0)}

KernelDelete(routes, rr) ==
    LET hits == Matching(routes, rr)
    IN  routes \ {r \in hits : \A s \in hits : PrioLeq(r, s)}

------------------------------------------------------------------------------
(* The callback, watch_static_routes.                                      *)

Quiet == UNCHANGED <<table, freed, kernel, orphans>>

SetKernel(routes) ==
    /\ kernel' = routes
    /\ orphans' = orphans \cap routes

\* Mutation: the table entry is stored whether or not the addition succeeds.
HandleAddUnchecked(k) ==
    /\ table[k] = NULL
    /\ \/ Built(k) = {} /\ Quiet
       \/ \E rr \in Built(k) :
             /\ table' = [table EXCEPT ![k] = rr]
             /\ SetKernel(IF KernelAccepts(kernel, rr) THEN kernel \cup {rr} ELSE kernel)
             /\ UNCHANGED freed

\* No route known for the entry: build one from the tree and install it.
HandleAdd(k) ==
    /\ table[k] = NULL
    /\ \/ Built(k) = {} /\ Quiet
       \/ \E rr \in Built(k) :
             IF KernelAccepts(kernel, rr)
                 THEN /\ table' = [table EXCEPT ![k] = rr]
                      /\ SetKernel(kernel \cup {rr})
                      /\ UNCHANGED freed
                 ELSE Quiet

\* The entry's id or prefix is gone: withdraw its route and release it.
\* route_del leaves index 0 in the table, so that entry now dangles.
HandleDelete(k, leaf, v) ==
    /\ table[k] # NULL /\ k \notin freed
    /\ v = NULL /\ leaf \in {"id", "prefix"}
    /\ SetKernel(KernelDelete(kernel, table[k]))
    /\ IF k[2] = 0 THEN freed' = freed \cup {k} /\ UNCHANGED table
                   ELSE table' = [table EXCEPT ![k] = NULL] /\ UNCHANGED freed

\* The kernel's routes once the clone of the entry's old route is deleted.
\* Mutation: the changed route is deleted instead of its clone.
RestOfNew(k, new) == KernelDelete(kernel, new)
Rest(k, new) == KernelDelete(kernel, table[k])

\* The table entry after an update: route_del clears it, unless its index is 0,
\* and route_add stores it again.  Mutation: route_del is always given index 0.
EntryKept(k, new, added) == new
Entry(k, new, added) == IF added \/ k[2] = 0 THEN new ELSE NULL

\* Mutation: a change of priority is not a change.
ChangedButPrio(old, new) == old.dst # new.dst \/ old.nh # new.nh
Changed(old, new) == old # new

\* Any other leaf: change the route object in place; if that changed it,
\* delete the old route and add the new one, if it still is a route.
HandleUpdate(k, leaf, v) ==
    /\ table[k] # NULL /\ k \notin freed
    /\ ~(v = NULL /\ leaf \in {"id", "prefix"})
    /\ ~(v = NULL /\ leaf \in {"nexthop", "ifname"} /\ table[k].nh = NULL)
    /\ LET new == Apply(k, table[k], leaf, v)
           rest == Rest(k, new)
           added == Valid(new) /\ KernelAccepts(rest, new)
       IN  IF Accepts(k, leaf, v) /\ Changed(table[k], new)
               THEN /\ SetKernel(IF added THEN rest \cup {new} ELSE rest)
                    /\ table' = [table EXCEPT ![k] = Entry(k, new, added)]
                    /\ UNCHANGED freed
               ELSE Quiet

\* Undefined behaviour, reachable for index 0 only: use of a released route,
\* or rtnl_route_nh_compare of two NULL nexthops.  It may go unnoticed; that
\* it may kill the process is Crash.
Undefined(k, leaf, v) ==
    \/ k \in freed
    \/ /\ table[k] # NULL /\ table[k].nh = NULL
       /\ v = NULL /\ leaf \in {"nexthop", "ifname"}

Handle(k, leaf, v) ==
    \/ HandleAdd(k)
    \/ HandleDelete(k, leaf, v)
    \/ HandleUpdate(k, leaf, v)
    \/ Undefined(k, leaf, v) /\ Quiet

------------------------------------------------------------------------------
(* The module's life: rib_init, rib_start, rib_exit.                       *)

Watching == phase \in {"starting", "running"}

\* rib_init and the apteryx_watch calls of rib_start.
Startup ==
    /\ phase = "down"
    /\ phase' = "starting"
    /\ passes' = 2
    /\ UNCHANGED <<cfg, queue, replay, table, freed, pending, kernel, orphans,
                   links>>

\* Mutation: the IPv6 tree is read, both times.
SnapshotV6 ==
    /\ phase = "starting" /\ replay = {} /\ passes > 0
    /\ passes' = passes - 1
    /\ replay' = {e \in {<<k, leaf, cfg[k][leaf]>> : k \in {6} \X Index, leaf \in Leaf} :
                      e[3] # NULL}
    /\ UNCHANGED <<cfg, queue, phase, table, freed, pending, kernel, orphans,
                   links>>

\* apteryx_rewatch_tree reads a whole tree: the IPv4 one, both times.
Snapshot ==
    /\ phase = "starting" /\ replay = {} /\ passes > 0
    /\ passes' = passes - 1
    /\ replay' = {e \in {<<k, leaf, cfg[k][leaf]>> : k \in {4} \X Index, leaf \in Leaf} :
                      e[3] # NULL}
    /\ UNCHANGED <<cfg, queue, phase, table, freed, pending, kernel, orphans,
                   links>>

\* watch_cb: the main thread runs the callback for a leaf of the snapshot.
Replay ==
    /\ phase = "starting"
    /\ \E x \in replay :
          /\ replay' = replay \ {x}
          /\ Handle(x[1], x[2], x[3])
    /\ UNCHANGED <<cfg, queue, phase, passes, pending, links>>

StartDone ==
    /\ phase = "starting" /\ replay = {} /\ passes = 0
    /\ phase' = "running"
    /\ UNCHANGED <<cfg, queue, passes, replay, table, freed, pending, kernel,
                   orphans, links>>

\* Mutation: the newest event is delivered first.
WatchNewest ==
    /\ Watching /\ queue # <<>>
    /\ queue' = SubSeq(queue, 1, Len(queue) - 1)
    /\ LET e == queue[Len(queue)] IN Handle(e[1], e[2], e[3])
    /\ UNCHANGED <<cfg, phase, passes, replay, pending, links>>

\* The Apteryx thread runs the callback for the oldest event.
Watch ==
    /\ Watching /\ queue # <<>>
    /\ queue' = Tail(queue)
    /\ LET e == Head(queue) IN Handle(e[1], e[2], e[3])
    /\ UNCHANGED <<cfg, phase, passes, replay, pending, links>>

\* The apteryx_unwatch calls of rib_exit: undelivered events are dropped.
Exit ==
    /\ "exit" \in Env
    /\ phase = "running"
    /\ phase' = "exiting"
    /\ queue' = <<>>
    /\ pending' = {k \in Key : table[k] # NULL}
    /\ UNCHANGED <<cfg, passes, replay, table, freed, kernel, orphans, links>>

\* exit_cb for one table entry, the IPv4 table first.  It passes index 0 to
\* route_del, which then leaves the table alone.
ExitRoute ==
    /\ phase = "exiting"
    /\ \E k \in pending :
          /\ \A j \in pending : k[1] <= j[1]
          /\ pending' = pending \ {k}
          /\ IF k \in freed THEN UNCHANGED <<kernel, orphans>>
                            ELSE SetKernel(KernelDelete(kernel, table[k]))
    /\ UNCHANGED <<cfg, queue, phase, passes, replay, table, freed, links>>

NoRoutes == [k \in Key |-> NULL]

ExitDone ==
    /\ phase = "exiting" /\ pending = {}
    /\ phase' = "down"
    /\ table' = NoRoutes
    /\ freed' = {}
    /\ UNCHANGED <<cfg, queue, passes, replay, pending, kernel, orphans, links>>

\* The process dies; what it installed stays in the kernel.
Crash ==
    /\ "crash" \in Env
    /\ phase # "down"
    /\ phase' = "down"
    /\ queue' = <<>> /\ replay' = {} /\ passes' = 0 /\ pending' = {}
    /\ table' = NoRoutes /\ freed' = {}
    /\ orphans' = kernel
    /\ UNCHANGED <<cfg, kernel, links>>

------------------------------------------------------------------------------
(* The environment.                                                        *)

\* A client sets a leaf, or unsets it (v = NULL); watchers are told later.
Edit ==
    /\ phase = "starting" => "edits_while_starting" \in Env
    /\ \E k \in Key, leaf \in Leaf :
       \E v \in Choices(k, leaf) :
          /\ v # NULL \/ cfg[k][leaf] # NULL
          /\ cfg' = [cfg EXCEPT ![k][leaf] = v]
          /\ IF Watching
                 THEN /\ Len(queue) < MaxQueue
                      /\ queue' = Append(queue, <<k, leaf, v>>)
                 ELSE UNCHANGED queue
    /\ UNCHANGED <<phase, passes, replay, table, freed, pending, kernel,
                   orphans, links>>

\* The kernel flushes the routes over a link that goes down; nobody tells
\* rib.c, which has no netlink callback.
LinkDown ==
    /\ "links" \in Env
    /\ \E l \in links :
          /\ links' = links \ {l}
          /\ SetKernel({r \in kernel : Via(r.nh) # l})
    /\ UNCHANGED <<cfg, queue, phase, passes, replay, table, freed, pending>>

LinkUp ==
    /\ "links" \in Env
    /\ \E l \in Link \ links : links' = links \cup {l}
    /\ UNCHANGED <<cfg, queue, phase, passes, replay, table, freed, pending,
                   kernel, orphans>>

Init ==
    /\ cfg = [k \in Key |-> [leaf \in Leaf |-> NULL]]
    /\ queue = <<>>
    /\ phase = "down" /\ passes = 0 /\ replay = {} /\ pending = {}
    /\ table = NoRoutes /\ freed = {}
    /\ kernel = {} /\ orphans = {}
    /\ links = Link

Next ==
    \/ Startup \/ Snapshot \/ Replay \/ StartDone
    \/ Watch
    \/ Exit \/ ExitRoute \/ ExitDone \/ Crash
    \/ Edit \/ LinkDown \/ LinkUp

\* Both threads are scheduled, and the daemon is started.
Fairness ==
    /\ WF_vars(Startup) /\ WF_vars(Snapshot) /\ WF_vars(Replay)
    /\ WF_vars(StartDone) /\ WF_vars(Watch)
    /\ WF_vars(ExitRoute) /\ WF_vars(ExitDone)

Spec == Init /\ [][Next]_vars /\ Fairness

------------------------------------------------------------------------------
(* Properties.                                                             *)

\* Types of the variables.
TypeOK ==
    /\ cfg \in [Key -> [Leaf -> Value]]
    /\ \A k \in Key, leaf \in Leaf : cfg[k][leaf] \in Choices(k, leaf)
    /\ queue \in Seq(Event)
    /\ phase \in {"down", "starting", "running", "exiting"}
    /\ passes \in 0 .. 2
    /\ replay \subseteq Event
    /\ table \in [Key -> RouteObject \cup {NULL}]
    /\ freed \subseteq Key
    /\ pending \subseteq Key
    /\ kernel \subseteq Route
    /\ orphans \subseteq kernel
    /\ links \subseteq Link

\* A table entry of a positive index is a route the kernel could be given:
\* in-place changes never leave half a route behind.
TableValid == \A k \in Key : k[2] # 0 /\ table[k] # NULL => Valid(table[k])

\* "Delete any routes we added" (rib_exit).  A static route in the kernel that
\* this process added is the route of an entry of its table that it can still
\* delete it by (one not released and, while exiting, one still to visit),
\* through any mix of edits, failed additions, link flaps, wildcard deletions,
\* crashes and restarts.  So a process that has exited has left nothing behind:
\* a down process has an empty table.
Tracked == (IF phase = "exiting" THEN pending ELSE Key) \ freed
KernelOwned ==
    /\ \A r \in kernel \ orphans : \E k \in Tracked : table[k] = r
    /\ phase = "down" => table = NoRoutes

\* Without link changes, every route the table claims is in the kernel, and no
\* two entries claim the same slot.
TableInKernel ==
    \A k \in Key : k[2] # 0 /\ phase # "exiting" /\ table[k] # NULL =>
        /\ table[k] \in kernel
        /\ \A j \in Key \ {k} : table[j] = NULL \/ ~SameSlot(table[j], table[k])

\* Once the events have drained, what is installed for an entry is one of the
\* routes the current configuration describes.
Idle == phase = "running" /\ queue = <<>>
Accurate ==
    Idle => \A k \in Key : table[k] # NULL => table[k] \in Wanted(k, cfg[k]) \cap kernel

\* ... and every entry that describes a route has one, unless another entry
\* can claim its prefix, or the entry has lost the id it was given.
Prefixes(k) == {Address[k[1]][text] : text \in Candidates[k]["prefix"]}
Rivals(k) == {j \in Key \ {k} : Prefixes(j) \cap Prefixes(k) # {}}
Identified(k) == Candidates[k]["id"] = {} \/ cfg[k]["id"] # NULL
Complete ==
    Idle => \A k \in Key :
        Wanted(k, cfg[k]) # {} /\ Rivals(k) = {} /\ Identified(k) => table[k] # NULL

\* What the two ask of clients: positive indices; IPv4 entries only; values that
\* parse and are in range, with no metric that spills into the distance; and one
\* kind of nexthop for each entry.
Plain ==
    /\ 0 \notin Index
    /\ \A k \in Key, leaf \in Leaf : \A v \in Candidates[k][leaf] :
          /\ k[1] = 4
          /\ leaf = "id" => v = k[2]
          /\ leaf \in {"prefix", "nexthop"} => Address[k[1]][v] # NULL
          /\ leaf \in {"distance", "metric"} => InRange(v)
          /\ leaf = "metric" => Stored(v) # Half
          /\ leaf = "protocol" => v = "static"
    /\ \A k \in Key : Candidates[k]["nexthop"] = {} \/ Candidates[k]["ifname"] = {}

\* A gateway is reached over some link.
Reachable ==
    \A k \in Key : \A v \in Candidates[k]["nexthop"] : LinkOf[Address[k[1]][v]] # NULL

\* If the clients stop editing and nobody stops the daemon, the kernel ends up
\* with what they configured, after any number of restarts.
Converges ==
    <>[][~Edit /\ ~Exit]_vars =>
        <>[](Idle /\ Accurate /\ Complete)

\* The routes entries own: the table's, but at exit those still to be deleted.
OwnedRoutes ==
    [k \in Key |-> IF phase = "exiting" /\ k \notin pending THEN NULL ELSE table[k]]

Abstract == INSTANCE RouteOwner WITH Owner <- Key, owned <- OwnedRoutes

\* Without link changes and with positive indices the manager implements
\* RouteOwner: no callback, exit or failed addition for one entry costs another
\* entry its route, or takes or leaves a route behind that nobody owns.
ImplementsOwner == Abstract!Spec
=============================================================================
