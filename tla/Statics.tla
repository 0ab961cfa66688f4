------------------------------ MODULE Statics ------------------------------
(***************************************************************************)
(* The static address manager, src/ip/address-static.c, and the static     *)
(* neighbor manager, src/ip/neighbor-static.c: the same program over two   *)
(* kinds of kernel object.                                                 *)
(*                                                                         *)
(* An entry is configured under the name of its link, which may come and   *)
(* go.  Three threads turn configuration into kernel requests, each with   *)
(* its own view of the tree: the Apteryx thread with the value of a watch  *)
(* event, the main thread with a snapshot it takes at start, the netlink   *)
(* thread with one it takes when a link appears.                           *)
(*                                                                         *)
(* Abstractions.  An entry stands for a link, a family and an address; only *)
(* the leaf the managers look at is kept.  A link's notification updates   *)
(* link_cache and calls the manager's callback, as Netlink.tla describes;  *)
(* links are not renamed.  A lookup of a link and the request made with    *)
(* its index are one step.  A subtree is the set of entries it can hold.   *)
(* Apteryx is external, and taken to do what the managers rely on: their   *)
(* watches, which do not end in a wildcard, are told of every leaf below   *)
(* them, and a search for a list finds its entries.                        *)
(***************************************************************************)
EXTENDS Naturals, Sequences, FiniteSets

CONSTANTS
    NULL,         \* an absent value, or kernel object
    Entry,        \* configured addresses or neighbors
    Four,         \* those of family IPv4
    Unparsable,   \* those whose address nl_addr_parse refuses
    Link,         \* link names
    LinkOf,       \* LinkOf[e]: the link of an entry
    Value,        \* what clients write
    Content,      \* Content[v]: what the kernel is given for it, NULL if unusable
    Object,       \* what the kernel may hold for an entry
    Cached,       \* whether some module had a link cache before this one's init
    MaxQueue,     \* bound on undelivered watch events
    MaxNews,      \* bound on undelivered link notifications
    MaxIndex,     \* bound on the interface indices the kernel hands out
    Env           \* which of EnvEvents may happen

\* "crash": the process dies; "connect": nl_connect fails; "exit": the daemon is
\* told to quit, or another module cannot be initialised.
EnvEvents == {"crash", "connect", "exit"}


ASSUME NullAssumption == NULL \notin Value \cup Object \cup Entry
ASSUME EntryAssumption == /\ Four \subseteq Entry /\ Unparsable \subseteq Entry
                          /\ LinkOf \in [Entry -> Link]
ASSUME ContentAssumption == Content \in [Value -> Object \cup {NULL}]
ASSUME ModeAssumption == Cached \in BOOLEAN /\ Env \subseteq EnvEvents
ASSUME BoundAssumption == MaxQueue \in Nat /\ MaxNews \in Nat /\ MaxIndex \in Nat \ {0}

VARIABLES
    cfg,       \* the tree: [Entry -> value or NULL]
    queue,     \* watch events not yet delivered
    links,     \* the kernel's links: [Link -> interface index, 0 if absent]
    fresh,     \* the next index the kernel hands out
    news,      \* link notifications not yet received
    cache,     \* the link cache: [Link -> interface index, 0 if unknown]
    phase,     \* where the manager is in its life
    sock,      \* its request socket
    work,      \* work[t]: subtrees thread t has still to rewatch
    held,      \* held[t]: leaves of thread t's snapshot not yet acted on
    kernel,    \* the kernel's objects: [Entry -> object or NULL]
    missed,    \* history: entries edited behind the manager's back
    raced      \* history: entries last acted on with an outdated value

tree == <<cfg, queue, missed>>
linkvars == <<links, fresh, news>>
life == <<phase, sock>>
vars == <<tree, linkvars, cache, life, work, held, kernel, raced>>

Thread == {"main", "netlink"}
Nothing == [t \in Thread |-> {}]
Six == Entry \ Four
Phase == {"down", "init", "ready", "watch4", "load4", "load6", "running", "closing", "closed",
          "crashed"}

Alive == phase \notin {"down", "crashed"}
Watching(e) ==
    \/ phase \in {"load4", "load6", "running"}
    \/ phase = "watch4" /\ e \in Four
Idle(t) == work[t] = {} /\ held[t] = {}

\* A watch event for the entry is still to come.
Pending(e) == \E n \in 1 .. Len(queue) : queue[n][1] = e

------------------------------------------------------------------------------
(* Kernel requests.                                                        *)

\* rtnl_link_name2i of the cache, or if_nametoindex.
Lookup(l) == IF Cached THEN cache[l] ELSE links[l]

\* Mutation: a deleted leaf's missing value is parsed like any other.
UsableValue(e, v) ==
    /\ e \notin Unparsable
    /\ Lookup(LinkOf[e]) # 0
    /\ v # NULL /\ Content[v] # NULL

\* apteryx_to_address, apteryx_to_neighbor: the leaf makes a request.
Usable(e, v) ==
    /\ e \notin Unparsable
    /\ Lookup(LinkOf[e]) # 0
    /\ v # NULL => Content[v] # NULL

\* Mutation: an object is created but never replaced (NLM_F_EXCL).
AcceptsNew(e) == Lookup(LinkOf[e]) = links[LinkOf[e]] /\ kernel[e] = NULL

\* The kernel takes a request for the link that has the index now.
Accepts(e) == Lookup(LinkOf[e]) = links[LinkOf[e]]

\* The request for a leaf: NLM_F_REPLACE | NLM_F_CREATE, or delete.
Request(e, v) ==
    /\ kernel' = [kernel EXCEPT ![e] = IF v = NULL THEN NULL ELSE Content[v]]
    /\ missed' = missed \ {e}
    /\ raced' = IF v # cfg[e] /\ ~Pending(e)' THEN raced \cup {e} ELSE raced \ {e}

\* Mutation: a value that makes no request deletes what the one before it made.
HandleBad(e, v) ==
    \/ Usable(e, v) /\ sock = "none" /\ phase' = "crashed" /\ UNCHANGED <<kernel, missed, raced>>
    \/ Usable(e, v) /\ sock = "open" /\ Accepts(e) /\ Request(e, v) /\ UNCHANGED phase
    \/ /\ ~Usable(e, v) \/ sock = "closed" \/ (sock = "open" /\ ~Accepts(e))
       /\ kernel' = [kernel EXCEPT ![e] = IF sock = "open" THEN NULL ELSE @]
       /\ UNCHANGED <<missed, raced, phase>>

\* apteryx_static_address_cb, apteryx_static_neighbors_cb on a leaf.  Before the
\* socket is allocated a request is a NULL dereference; errors are logged.
Handle(e, v) ==
    \/ Usable(e, v) /\ sock = "none" /\ phase' = "crashed" /\ UNCHANGED <<kernel, missed, raced>>
    \/ Usable(e, v) /\ sock = "open" /\ Accepts(e) /\ Request(e, v) /\ UNCHANGED phase
    \/ /\ ~Usable(e, v) \/ sock = "closed" \/ (sock = "open" /\ ~Accepts(e))
       /\ UNCHANGED <<kernel, missed, raced, phase>>

------------------------------------------------------------------------------
(* The main thread: the manager's life, and its snapshots.                 *)

\* Mutation: apteryx_rewatch_tree calls back for the whole tree, set or not.
RewatchAll(t) ==
    /\ held[t] = {}
    /\ \E es \in work[t] :
          /\ work' = [work EXCEPT ![t] = @ \ {es}]
          /\ held' = [held EXCEPT ![t] = {<<e, cfg[e]>> : e \in es}]
    /\ UNCHANGED <<tree, linkvars, cache, life, kernel, raced>>

\* apteryx_rewatch_tree: apteryx_get_tree takes a snapshot ...
Rewatch(t) ==
    /\ held[t] = {}
    /\ \E es \in work[t] :
          /\ work' = [work EXCEPT ![t] = @ \ {es}]
          /\ held' = [held EXCEPT ![t] = {<<e, cfg[e]>> : e \in {x \in es : cfg[x] # NULL}}]
    /\ UNCHANGED <<tree, linkvars, cache, life, kernel, raced>>

\* ... and watch_cb calls back for each leaf of it.
Tell(t) ==
    /\ \E m \in held[t] :
          /\ held' = [held EXCEPT ![t] = @ \ {m}]
          /\ UNCHANGED queue
          /\ Handle(m[1], m[2])
    /\ UNCHANGED <<cfg, linkvars, cache, sock, work>>

\* nl_if_cb on a new link: the subtrees apteryx_search finds under its name.
OnLink(l) == {{e} : e \in {x \in Four : LinkOf[x] = l /\ cfg[x] # NULL}}

\* The process starts.  The manager's init function registers nl_if_cb, which
\* netlink_register calls for every link there is.
Start ==
    /\ phase \in {"down", "crashed"}
    /\ phase' = "init" /\ sock' = "none"
    /\ news' = <<>> /\ cache' = links
    /\ work' = [Nothing EXCEPT !["main"] = UNION {OnLink(l) : l \in {x \in Link : links[x] # 0}}]
    /\ held' = Nothing
    /\ UNCHANGED <<tree, links, fresh, kernel, raced>>

\* Only then it allocates its socket and connects it.  A failure is FATAL.
Open ==
    /\ phase = "init" /\ Idle("main")
    /\ \/ phase' = "ready" /\ sock' = "open"
       \/ "connect" \in Env /\ phase' = "closing" /\ sock' = "closed"
    /\ UNCHANGED <<tree, linkvars, cache, work, held, kernel, raced>>

\* The start function watches the IPv4 tree, then the IPv6 tree, ...
Watch ==
    /\ \/ phase = "ready" /\ phase' = "watch4" /\ UNCHANGED work
       \/ phase = "watch4" /\ phase' = "load4" /\ work' = [work EXCEPT !["main"] = {Four}]
    /\ UNCHANGED <<tree, linkvars, cache, sock, held, kernel, raced>>

\* ... and loads them in that order.
Load ==
    /\ Idle("main")
    /\ \/ phase = "load4" /\ phase' = "load6" /\ work' = [work EXCEPT !["main"] = {Six}]
       \/ phase = "load6" /\ phase' = "running" /\ UNCHANGED work
    /\ UNCHANGED <<tree, linkvars, cache, sock, held, kernel, raced>>

\* The exit function.  Events that are not delivered by then are not.
Unwatch ==
    /\ "exit" \in Env /\ phase \in {"ready", "running"}
    /\ phase' = "closing"
    /\ missed' = missed \cup {e \in Entry : Pending(e)}
    /\ queue' = <<>>
    /\ UNCHANGED <<cfg, linkvars, cache, sock, work, held, kernel, raced>>

\* It closes the socket; what the manager configured stays.
Close ==
    /\ phase = "closing"
    /\ phase' = "closed" /\ sock' = "closed"
    /\ UNCHANGED <<tree, linkvars, cache, work, held, kernel, raced>>

\* netlink_unregister, and the end of the process.
Unregister ==
    /\ phase = "closed"
    /\ phase' = "down"
    /\ work' = Nothing /\ held' = Nothing
    /\ UNCHANGED <<tree, linkvars, cache, sock, kernel, raced>>

\* The process dies; the kernel's objects and the configuration stay.
Crash ==
    /\ "crash" \in Env /\ Alive
    /\ phase' = "down"
    /\ missed' = missed \cup {e \in Entry : Pending(e)}
    /\ queue' = <<>>
    /\ work' = Nothing /\ held' = Nothing
    /\ UNCHANGED <<cfg, linkvars, cache, sock, kernel, raced>>

------------------------------------------------------------------------------
(* The Apteryx thread and the netlink thread.                              *)

\* A watch event.
Deliver ==
    /\ Alive /\ queue # <<>>
    /\ queue' = Tail(queue)
    /\ \E m \in {Head(queue)} : Handle(m[1], m[2])
    /\ UNCHANGED <<cfg, linkvars, cache, sock, work, held>>

\* A link notification: the cache takes it in, and nl_if_cb is called unless the
\* link is gone.
Receive ==
    /\ Alive /\ Idle("netlink") /\ news # <<>>
    /\ LET l == Head(news)[1]
           i == Head(news)[2]
       IN  /\ cache' = [cache EXCEPT ![l] = i]
           /\ work' = [work EXCEPT !["netlink"] = IF i = 0 THEN {} ELSE OnLink(l)]
    /\ news' = Tail(news)
    /\ UNCHANGED <<tree, links, fresh, life, held, kernel, raced>>

------------------------------------------------------------------------------
(* Everybody else.                                                         *)

\* A client writes a leaf.  Nothing is told of a write nobody watches.
Edit ==
    /\ \E e \in Entry, v \in Value \cup {NULL} :
          /\ v # cfg[e]
          /\ cfg' = [cfg EXCEPT ![e] = v]
          /\ IF Alive /\ Watching(e)
                 THEN Len(queue) < MaxQueue /\ queue' = Append(queue, <<e, v>>) /\ UNCHANGED missed
                 ELSE missed' = missed \cup {e} /\ UNCHANGED queue
    /\ UNCHANGED <<linkvars, cache, life, work, held, kernel, raced>>

\* A link appears with an index that was never used, ...
LinkUp ==
    /\ fresh <= MaxIndex
    /\ \E l \in Link :
          /\ links[l] = 0
          /\ links' = [links EXCEPT ![l] = fresh]
          /\ IF Alive THEN Len(news) < MaxNews /\ news' = Append(news, <<l, fresh>>)
                      ELSE UNCHANGED news
    /\ fresh' = fresh + 1
    /\ UNCHANGED <<tree, cache, life, work, held, kernel, raced>>

\* ... or goes, and the kernel's objects on it go with it.
LinkGone ==
    /\ \E l \in Link :
          /\ links[l] # 0
          /\ links' = [links EXCEPT ![l] = 0]
          /\ kernel' = [e \in Entry |-> IF LinkOf[e] = l THEN NULL ELSE kernel[e]]
          /\ missed' = {e \in missed : LinkOf[e] # l}
          /\ raced' = {e \in raced : LinkOf[e] # l}
          /\ IF Alive THEN Len(news) < MaxNews /\ news' = Append(news, <<l, 0>>)
                      ELSE UNCHANGED news
    /\ UNCHANGED <<cfg, queue, fresh, cache, life, work, held>>

------------------------------------------------------------------------------

Init ==
    /\ cfg \in [Entry -> Value \cup {NULL}]
    /\ queue = <<>> /\ news = <<>>
    /\ links \in [Link -> {0, 1}] /\ \A l, m \in Link : links[l] = 1 /\ links[m] = 1 => l = m
    /\ fresh = 2
    /\ cache = [l \in Link |-> 0]
    /\ phase = "down" /\ sock = "none"
    /\ work = Nothing /\ held = Nothing
    /\ kernel = [e \in Entry |-> NULL]
    /\ missed = {} /\ raced = {}

MainStep ==
    \/ Start \/ Open \/ Watch \/ Load \/ Unwatch \/ Close \/ Unregister \/ Crash
    \/ Alive /\ (Rewatch("main") \/ Tell("main"))

NetlinkStep == Receive \/ (Alive /\ (Rewatch("netlink") \/ Tell("netlink")))

Next == MainStep \/ NetlinkStep \/ Deliver \/ Edit \/ LinkUp \/ LinkGone

Spec == Init /\ [][Next]_vars

------------------------------------------------------------------------------
(* Properties.                                                             *)

Leaf == Entry \X Value
Index == 0 .. MaxIndex

\* The type invariant: a snapshot has no missing values.
TypeOK ==
    /\ cfg \in [Entry -> Value \cup {NULL}]
    /\ queue \in Seq(Entry \X (Value \cup {NULL}))
    /\ links \in [Link -> Index] /\ cache \in [Link -> Index] /\ fresh \in Nat
    /\ news \in Seq(Link \X Index)
    /\ phase \in Phase /\ sock \in {"none", "open", "closed"}
    /\ work \in [Thread -> SUBSET SUBSET Entry]
    /\ held \in [Thread -> SUBSET Leaf]
    /\ kernel \in [Entry -> Object \cup {NULL}]
    /\ missed \subseteq Entry /\ raced \subseteq Entry

\* The manager is in service, and every change has reached it.
Quiescent ==
    /\ phase = "running" /\ queue = <<>> /\ news = <<>>
    /\ \A t \in Thread : Idle(t)

\* There is an object to configure for the entry.
Due(e) ==
    /\ e \notin Unparsable /\ links[LinkOf[e]] # 0
    /\ cfg[e] # NULL /\ Content[cfg[e]] # NULL

\* "Load existing configuration", "apply configuration to new interfaces" and
\* "Manage changes": whether an entry was configured before its link appeared,
\* after, or before the daemon started, the kernel has it once all is quiet,
\* unless an outdated snapshot overtook the last event.  IPv4 only.
Applied == Quiescent => \A e \in Four \ raced : Due(e) => kernel[e] = Content[cfg[e]]

\* Once all is quiet the kernel has nothing that is configured no more: an
\* object stands for the entry's value, or for an earlier one where the present
\* one is unusable.  Only an entry edited while no watch was there to tell of it
\* may linger (the managers never read the kernel back), and one that raced.
NothingStale ==
    Quiescent => \A e \in Entry \ (missed \cup raced) :
        kernel[e] # NULL => cfg[e] # NULL /\ Content[cfg[e]] \in {NULL, kernel[e]}

\* The kernel never loses the object of an entry that is configured, be it with a
\* value that is in error, while its link stays; unless what undoes that is on
\* its way.  No callback turns a snapshot, a bad value or a restart into a delete.
KeepsConfigured ==
    [][\A e \in Entry : kernel[e] # NULL /\ kernel'[e] = NULL =>
           links'[LinkOf[e]] = 0 \/ cfg[e] = NULL \/ Pending(e)']_vars

\* nl_if_cb, "Netlink callback to apply configuration to new interfaces", has a
\* socket to do it with whenever it is called.
SocketReady == phase # "crashed"

=============================================================================
