------------------------------- MODULE Entity -------------------------------
(***************************************************************************)
(* The entity manager, src/entity/entity.c.                                *)
(*                                                                         *)
(* A client makes an interface an entry of an entity; the manager publishes *)
(* the addresses of the interface as leaves of the entity.  The list of    *)
(* entries is shared by three threads under a lock.  The main thread (the  *)
(* replay at start) and the Apteryx thread (watch events) change it and    *)
(* visit the cached addresses of the entry they were given; a new entry is *)
(* visited after the lock is released, a removed one before.  The netlink  *)
(* thread publishes or clears each address for the entries of its interface. *)
(*                                                                         *)
(* A visit finds nothing while the link cache does not know the interface. *)
(* The address cache is filled after the link cache, so at the start it    *)
(* may hold addresses of links whose notification is still unread.         *)
(*                                                                         *)
(* Abstractions.  A scope is an interface and a family: what entries and   *)
(* addresses are matched by.  Of the link cache there is what it lacks     *)
(* (unread): later on a link that is not known has no cached address, as   *)
(* one socket carries both and the kernel announces a link before its      *)
(* addresses and withdraws it after them.  Links are not renamed.  The     *)
(* list is a set: a second object of an entry has the same effect as the   *)
(* first, and goes with it.  Registration is one step that succeeds        *)
(* (Netlink and Daemon have its failures).                                 *)
(***************************************************************************)
EXTENDS Naturals, Sequences, FiniteSets

CONSTANTS
    NULL,      \* no value, thread, address or walk
    Entry,     \* interfaces of entities, as clients configure them
    EntityOf,  \* EntityOf[e]: the entity of an entry
    ScopeOf,   \* ScopeOf[x]: the link and family of an entry or an address
    Addr,      \* interface addresses
    TextOf,    \* TextOf[a]: an address without its interface, as published
    MaxQueue,  \* bound on undelivered watch events
    MaxNews,   \* bound on undelivered address notifications
    Env        \* which of EnvEvents may happen

EnvEvents == {"crash", "exit", "other"}

\* What a client writes: the name of the interface, or another text.
Value == IF "other" \in Env THEN {"same", "other"} ELSE {"same"}
Thread == {"main", "apteryx"}

LinkOf(x) == ScopeOf[x][1]
Link == {LinkOf(x) : x \in Entry \cup Addr}

LeafOf(e, a) == <<EntityOf[e], TextOf[a]>>
In(e) == {a \in Addr : ScopeOf[a] = ScopeOf[e]}
Leaf == {LeafOf(e, a) : e \in Entry, a \in Addr}
LeavesOf(e) == {LeafOf(e, a) : a \in In(e)}

ASSUME EntryAssumption ==
    \A e, f \in Entry : EntityOf[e] = EntityOf[f] /\ ScopeOf[e] = ScopeOf[f] => e = f
ASSUME BoundAssumption == MaxQueue \in Nat /\ MaxNews \in Nat
ASSUME EnvAssumption == Env \subseteq EnvEvents

VARIABLES
    cfg,      \* the entries in Apteryx: [Entry -> value or NULL]
    queue,    \* watch events not yet delivered
    kernel,   \* the kernel's addresses
    news,     \* notifications not yet received: an address, whether it is there
    cache,    \* addr_cache
    unread,   \* links with cached addresses that link_cache does not know yet
    call,     \* the callback the netlink thread is in: its action and address
    phase,    \* where the manager is in its life
    replay,   \* leaves of the snapshot the main thread has still to act on
    list,     \* dynamic_entities
    lock,     \* the thread that holds list_lock across steps, or NULL
    walk,     \* walk[t]: the visit of cached addresses thread t is in, or NULL
    pub,      \* the published leaves
    lost,     \* history: leaves published behind the back of whoever clears them
    raced,    \* history: entries last acted on with an outdated value or object
    blind     \* history: <<e, a>> such that e was visited when a's link was not known

kernelvars == <<kernel, news>>
treevars == <<cfg, queue>>
netvars == <<cache, unread, call>>
vars == <<treevars, kernelvars, netvars, phase, replay, list, lock, walk, pub, lost, raced, blind>>

\* A visit: the entry, what becomes of its leaves, the addresses it has come to,
\* and the one it has in hand.  The object of a "freed" entry is gone.
Walk == [entry : Entry, mode : {"add", "del", "freed"}, seen : SUBSET Addr,
         cur : Addr \cup {NULL}]
Action == {"new", "del", "change"} \X Addr

ASSUME NullAssumption ==
    NULL \notin Entry \cup Addr \cup {"same", "other"} \cup Thread /\ NULL \notin Walk \cup Action

Visit(e, mode) == [entry |-> e, mode |-> mode, seen |-> {}, cur |-> NULL]
NoWalk == [t \in Thread |-> NULL]
Alive == phase # "down"
Watching == phase \in {"watching", "loading", "running"}
Pending(e) == \E n \in 1 .. Len(queue) : queue[n][1] = e

\* The walks once those of other threads that are at entry e are in a mode.
Spoiled(ws, t, e, mode) ==
    [u \in Thread |-> IF u # t /\ ws[u] # NULL /\ ws[u].entry = e
                          THEN [ws[u] EXCEPT !.mode = mode] ELSE ws[u]]

------------------------------------------------------------------------------
(* watch_entities, in either thread.                                       *)

\* Mutation: a new entry is visited under the lock too.
EnlistLocked(t, e) ==
    /\ lock = NULL
    /\ list' = list \cup {e}
    /\ walk' = [walk EXCEPT ![t] = Visit(e, "add")]
    /\ raced' = IF cfg[e] = NULL /\ ~Pending(e)' THEN raced \cup {e} ELSE raced \ {e}
    /\ blind' = blind \ ({e} \X Addr)
    /\ lock' = t

\* dynamic_enitity_interface_change, add: the list is extended under the lock.
Enlist(t, e) ==
    /\ lock = NULL
    /\ list' = list \cup {e}
    /\ walk' = [walk EXCEPT ![t] = Visit(e, "add")]
    /\ raced' = IF cfg[e] = NULL /\ ~Pending(e)' THEN raced \cup {e} ELSE raced \ {e}
    /\ blind' = blind \ ({e} \X Addr)
    /\ UNCHANGED lock

\* Mutation: the entry is removed without the lock.
DelistUnlocked(t, e) ==
    /\ e \in list
    /\ list' = list \ {e}
    /\ walk' = Spoiled([walk EXCEPT ![t] = Visit(e, "del")], t, e, "del")
    /\ raced' = raced \ {e}
    /\ blind' = blind \ ({e} \X Addr)
    /\ UNCHANGED lock

\* ... or remove: the lock is held until the entry's addresses are cleared, and
\* its object is marked deleted for whoever still visits addresses for it.
Delist(t, e) ==
    /\ lock = NULL /\ e \in list
    /\ lock' = t
    /\ list' = list \ {e}
    /\ walk' = Spoiled([walk EXCEPT ![t] = Visit(e, "del")], t, e, "del")
    /\ raced' = raced \ {e}
    /\ blind' = blind \ ({e} \X Addr)

\* A value that is not the interface's name is refused.
Handle(t, e, v) ==
    \/ v = "same" /\ Enlist(t, e)
    \/ v = NULL /\ Delist(t, e)
    \/ /\ v = "other" \/ (v = NULL /\ lock = NULL /\ e \notin list)
       /\ UNCHANGED <<list, lock, walk, raced, blind>>

\* Whether rtnl_link_name2i finds an index for the entry's interface.
Known(e) == LinkOf(e) \notin unread

\* nl_cache_foreach_filter: the next cached address of the entry's scope ...
Fetch(t) ==
    /\ walk[t] # NULL /\ walk[t].cur = NULL /\ Known(walk[t].entry)
    /\ \E a \in (cache \cap In(walk[t].entry)) \ walk[t].seen :
          walk' = [walk EXCEPT ![t].cur = a, ![t].seen = @ \cup {a}]
    /\ UNCHANGED <<treevars, kernelvars, netvars, phase, replay, list, lock, pub, lost, raced,
                   blind>>

\* Mutation: the value is set whether or not the entry is deleted.
SetAlways(t) ==
    /\ walk[t] # NULL /\ walk[t].cur # NULL
    /\ walk' = [walk EXCEPT ![t].cur = NULL]
    /\ pub' = pub \cup {LeafOf(walk[t].entry, walk[t].cur)}
    /\ UNCHANGED <<treevars, kernelvars, netvars, phase, replay, list, lock, lost, raced, blind>>

\* ... is handed to dynamic_enitity_add_del_address.  With an object that was
\* released (undefined behaviour) it may set the leaf or clear it.
Set(t) ==
    /\ walk[t] # NULL /\ walk[t].cur # NULL
    /\ LET w == walk[t]
           leaf == LeafOf(w.entry, w.cur)
       IN  /\ walk' = [walk EXCEPT ![t].cur = NULL]
           /\ \/ /\ w.mode \in {"add", "freed"}
                 /\ pub' = pub \cup {leaf}
                 /\ lost' = IF w.cur \in cache /\ w.mode = "add" THEN lost \ {leaf}
                                                                 ELSE lost \cup {leaf}
              \/ /\ w.mode \in {"del", "freed"}
                 /\ pub' = pub \ {leaf}
                 /\ lost' = lost \ {leaf}
           /\ raced' = IF w.mode = "freed" THEN raced \cup {w.entry} ELSE raced
    /\ UNCHANGED <<treevars, kernelvars, netvars, phase, replay, list, lock, blind>>

\* No address is left to visit, or the interface has no index and none was.  A
\* removed entry is released, then the lock is; an address whose callback waits
\* for the lock was not found in the cache.
Done(t) ==
    /\ walk[t] # NULL /\ walk[t].cur = NULL
    /\ LET e == walk[t].entry
           rest == [walk EXCEPT ![t] = NULL]
       IN  /\ Known(e) => cache \cap In(e) \subseteq walk[t].seen
           /\ IF lock = t
                  THEN /\ lock' = NULL
                       /\ walk' = Spoiled(rest, t, e, "freed")
                       /\ lost' = lost \cup (pub \cap {LeafOf(e, a) : a \in In(e) \ cache})
                  ELSE walk' = rest /\ UNCHANGED <<lock, lost>>
           /\ blind' = IF ~Known(e) /\ walk[t].mode = "add"
                           THEN blind \cup ({e} \X (In(e) \cap cache)) ELSE blind
    /\ UNCHANGED <<treevars, kernelvars, netvars, phase, replay, list, pub, raced>>

------------------------------------------------------------------------------
(* The main thread: the manager's life.                                    *)

\* entity_start registers and takes the caches; the list is empty.  The link cache
\* may lack any link that came after it was filled.
Start ==
    /\ phase = "down"
    /\ phase' = "ready"
    /\ cache' = kernel /\ news' = <<>>
    /\ unread' \in SUBSET Link
    /\ UNCHANGED <<treevars, kernel, call, replay, list, lock, walk, pub, lost, raced, blind>>

Watch ==
    /\ phase = "ready"
    /\ phase' = "watching"
    /\ UNCHANGED <<treevars, kernelvars, netvars, replay, list, lock, walk, pub, lost, raced,
                   blind>>

\* apteryx_rewatch_tree: a snapshot ...
Load ==
    /\ phase = "watching"
    /\ phase' = "loading"
    /\ replay' = {<<e, cfg[e]>> : e \in {x \in Entry : cfg[x] # NULL}}
    /\ UNCHANGED <<treevars, kernelvars, netvars, list, lock, walk, pub, lost, raced, blind>>

\* ... replayed leaf by leaf.
Replay ==
    /\ phase = "loading" /\ walk["main"] = NULL
    /\ \E x \in replay :
          /\ replay' = replay \ {x}
          /\ UNCHANGED queue
          /\ Handle("main", x[1], x[2])
    /\ UNCHANGED <<cfg, kernelvars, netvars, phase, pub, lost>>

Loaded ==
    /\ phase = "loading" /\ replay = {} /\ walk["main"] = NULL
    /\ phase' = "running"
    /\ UNCHANGED <<treevars, kernelvars, netvars, replay, list, lock, walk, pub, lost, raced,
                   blind>>

\* entity_exit: the watch goes, with the events it has not delivered, ...
Unwatch ==
    /\ "exit" \in Env /\ phase = "running"
    /\ phase' = "exiting"
    /\ queue' = <<>>
    /\ UNCHANGED <<cfg, kernelvars, netvars, replay, list, lock, walk, pub, lost, raced, blind>>

\* What the process leaves behind is published, and nobody knows why.
Gone ==
    /\ phase' = "down"
    /\ queue' = <<>> /\ news' = <<>> /\ call' = NULL /\ cache' = {} /\ unread' = {}
    /\ replay' = {} /\ list' = {} /\ lock' = NULL /\ walk' = NoWalk
    /\ lost' = pub /\ raced' = {} /\ blind' = {}
    /\ UNCHANGED <<cfg, kernel, pub>>

\* ... then the callback, and the process ends.
Unregister == phase = "exiting" /\ Gone
Crash == "crash" \in Env /\ Alive /\ Gone

------------------------------------------------------------------------------
(* The Apteryx thread and the netlink thread.                              *)

Deliver ==
    /\ Watching /\ walk["apteryx"] = NULL /\ queue # <<>>
    /\ queue' = Tail(queue)
    /\ \E m \in {Head(queue)} : Handle("apteryx", m[1], m[2])
    /\ UNCHANGED <<cfg, kernelvars, netvars, phase, replay, pub, lost>>

\* The link cache takes in a link that came before the address cache was filled.
ReadLink ==
    /\ Alive /\ call = NULL
    /\ \E l \in unread : unread' = unread \ {l}
    /\ UNCHANGED <<treevars, kernelvars, cache, call, phase, replay, list, lock, walk, pub, lost,
                   raced, blind>>

\* The cache takes in a notification, all of which are younger, and change_cb is
\* called with the action.
Receive ==
    /\ Alive /\ call = NULL /\ unread = {} /\ news # <<>>
    /\ LET a == Head(news)[1]
           there == Head(news)[2]
       IN  /\ cache' = IF there THEN cache \cup {a} ELSE cache \ {a}
           /\ call' = <<IF ~there THEN "del" ELSE IF a \in cache THEN "change" ELSE "new", a>>
    /\ news' = Tail(news)
    /\ UNCHANGED <<treevars, kernel, unread, phase, replay, list, lock, walk, pub, lost, raced,
                   blind>>

\* The leaves nl_addr_cb finds.  Mutation: it stops at the first entry.
FoundFirst(a) ==
    LET hits == {e \in list : a \in In(e)}
    IN  IF hits = {} THEN {} ELSE {LeafOf(CHOOSE e \in hits : TRUE, a)}
Found(a) == {LeafOf(e, a) : e \in {x \in list : a \in In(x)}}

\* nl_addr_cb, under the lock.  It refuses a change.
Call ==
    /\ call # NULL /\ lock = NULL
    /\ LET leaves == Found(call[2])
       IN  CASE call[1] = "new" -> pub' = pub \cup leaves /\ lost' = lost \ leaves
             [] call[1] = "del" -> pub' = pub \ leaves /\ lost' = lost \ leaves
             [] call[1] = "change" -> UNCHANGED <<pub, lost>>
    /\ blind' = IF call[1] = "new" THEN blind \ (list \X {call[2]}) ELSE blind
    /\ call' = NULL
    /\ UNCHANGED <<treevars, kernelvars, cache, unread, phase, replay, list, lock, walk, raced>>

------------------------------------------------------------------------------
(* Everybody else.                                                         *)

\* A client writes or unsets an entry.
Edit ==
    /\ \E e \in Entry, v \in Value \cup {NULL} :
          /\ v # NULL \/ cfg[e] # NULL
          /\ cfg' = [cfg EXCEPT ![e] = v]
          /\ IF Watching THEN Len(queue) < MaxQueue /\ queue' = Append(queue, <<e, v>>)
                         ELSE UNCHANGED queue
    /\ UNCHANGED <<kernelvars, netvars, phase, replay, list, lock, walk, pub, lost, raced, blind>>

\* The kernel adds, removes or updates an address.
KernelChange ==
    /\ \E a \in Addr, there \in BOOLEAN :
          /\ a \in kernel \/ there
          /\ kernel' = IF there THEN kernel \cup {a} ELSE kernel \ {a}
          /\ IF Alive THEN Len(news) < MaxNews /\ news' = Append(news, <<a, there>>)
                      ELSE UNCHANGED news
    /\ UNCHANGED <<treevars, netvars, phase, replay, list, lock, walk, pub, lost, raced, blind>>

Init ==
    /\ cfg \in [Entry -> Value \cup {NULL}]
    /\ kernel \in SUBSET Addr
    /\ queue = <<>> /\ news = <<>> /\ cache = {} /\ unread = {} /\ call = NULL
    /\ phase = "down" /\ replay = {} /\ list = {} /\ lock = NULL /\ walk = NoWalk
    /\ pub = {} /\ lost = {} /\ raced = {} /\ blind = {}

WalkStep == \E t \in Thread : Fetch(t) \/ Set(t) \/ Done(t)
MainStep == Start \/ Watch \/ Load \/ Replay \/ Loaded \/ Unwatch \/ Unregister \/ Crash
NetlinkStep == ReadLink \/ Receive \/ Call

Next == MainStep \/ WalkStep \/ Deliver \/ NetlinkStep \/ Edit \/ KernelChange

Spec == Init /\ [][Next]_vars

------------------------------------------------------------------------------
(* Properties.                                                             *)

\* The type invariant: only a thread that clears the addresses of an entry it has
\* removed holds the lock from one step to the next.
TypeOK ==
    /\ cfg \in [Entry -> Value \cup {NULL}]
    /\ queue \in Seq(Entry \X (Value \cup {NULL}))
    /\ kernel \subseteq Addr /\ cache \subseteq Addr
    /\ news \in Seq(Addr \X BOOLEAN)
    /\ call \in Action \cup {NULL} /\ unread \subseteq Link
    /\ phase \in {"down", "ready", "watching", "loading", "running", "exiting"}
    /\ replay \subseteq Entry \X Value
    /\ list \subseteq Entry
    /\ walk \in [Thread -> Walk \cup {NULL}]
    /\ lock \in Thread \cup {NULL}
    /\ lock # NULL => walk[lock] # NULL /\ walk[lock].mode = "del"
    /\ pub \subseteq Leaf /\ lost \subseteq Leaf /\ raced \subseteq Entry
    /\ blind \subseteq Entry \X Addr

Quiescent ==
    /\ phase = "running" /\ queue = <<>> /\ news = <<>> /\ unread = {} /\ call = NULL
    /\ walk = NoWalk

\* No other address can be published as the same leaf.
Sole(e, a) ==
    \A f \in Entry : \A b \in In(f) : LeafOf(f, b) = LeafOf(e, a) => b = a

\* Whatever the order in which an entry is configured, an address appears, and the
\* three threads hear of it, a configured entry shows every address of its
\* interface once all is quiet.  An entry whose object was used after it was
\* released (raced) may not, nor one that has the same address twice; nor is an
\* address shown that was cached at the start, and passed over as the link cache
\* was still behind (blind), before it goes and comes again.
Shown ==
    Quiescent => \A e \in Entry \ raced : \A a \in In(e) \cap kernel :
        cfg[e] = "same" /\ Sole(e, a) /\ <<e, a>> \notin blind => LeafOf(e, a) \in pub

\* ... and nothing else is published: no address that is gone, no entry that was
\* removed; but for what an earlier process published, an addition that came after
\* its address was removed, and a removal that missed an address whose callback
\* was waiting for the lock (lost).
NothingLeft ==
    Quiescent => \A leaf \in pub \ lost :
        \E e \in Entry : \E a \in In(e) \cap kernel :
            LeafOf(e, a) = leaf /\ (cfg[e] # NULL \/ e \in raced)

\* The lock does its work: while an entry is listed and an address cached, no
\* thread clears the leaf, unless with an object it should not have any more.
KeepsListed ==
    [][\A e \in list : \A a \in In(e) \cap cache :
           LeafOf(e, a) \in pub /\ Sole(e, a) =>
               LeafOf(e, a) \in pub' \/ e \in raced']_vars
=============================================================================
