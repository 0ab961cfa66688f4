------------------------------ MODULE Settings ------------------------------
(***************************************************************************)
(* The modules that hand settings to the kernel: src/icmp/icmp.c,          *)
(* src/tcp/tcp.c, src/neighbor/settings.c and src/interface/ifconfig.c.    *)
(*                                                                         *)
(* Each turns the value of a leaf, or its default, into one request: a     *)
(* sysctl, a change of a link, or a firewall rule that is there or not.    *)
(* The Apteryx thread does so for a watch event, the main thread for a     *)
(* snapshot at start, the netlink thread, for ifconfig only, for a snapshot *)
(* it takes when a link appears.                                           *)
(*                                                                         *)
(* Abstractions.  A setting is a parameter of a target.  A text is the     *)
(* number it reads as: a boolean is 0 or 1, an enumerated value its place, *)
(* and a text that reads as none is -1, out of every range.  A request is  *)
(* one step, but the rule is looked for in a step of its own.  Commands    *)
(* succeed if what they change is there.  The four modules are started and *)
(* stopped together: their settings have nothing in common.  Apteryx tells *)
(* a watch of every leaf below it; links are not renamed.                  *)
(***************************************************************************)
EXTENDS Integers, Sequences, FiniteSets

CONSTANTS
    NULL,        \* an absent value, or setting
    Link,        \* link names
    Setting,     \* the settings there are: a parameter and its target
    Candidates,  \* Candidates[s]: the values clients write
    Groups,      \* the sets of settings clients write in one behaviour
    Factory,     \* Factory[s]: the kernel's own value
    MaxQueue,    \* bound on undelivered watch events
    MaxNews,     \* bound on undelivered link notifications
    MaxIndex,    \* bound on the interface indices the kernel hands out
    Env          \* which of EnvEvents may happen

EnvEvents == {"crash", "connect", "exit"}

------------------------------------------------------------------------------
(* Parameters.                                                             *)

\* The module of a parameter, and how it makes a value take effect.
Neighbor == {"opportunistic-nd", "aging-timeout", "mac-disparity", "proxy-arp",
             "optimistic-nd"}
Module(p) ==
    CASE p \in {"send-destination-unreachable", "error-ratelimit"} -> "icmp"
      [] p = "synack-retries" -> "tcp"
      [] p \in Neighbor -> "neighbor"
      [] p \in {"admin-status", "mtu"} -> "ifconfig"

IsRule(s) == s[1] = "send-destination-unreachable"
IsLink(s) == Module(s[1]) = "ifconfig"

Least(p) == IF p = "mtu" THEN 68 ELSE 0
Greatest(p) ==
    CASE p = "error-ratelimit" -> 2147483647
      [] p = "synack-retries" -> 255
      [] p = "aging-timeout" -> 432000
      [] p = "proxy-arp" -> 3
      [] p = "mtu" -> 16535
      [] OTHER -> 1
\* The values that are in range.
Accepted(p) == {n \in Nat : Least(p) <= n /\ n <= Greatest(p)}

Default(p) ==
    CASE p = "error-ratelimit" -> 1000
      [] p = "synack-retries" -> 5
      [] p = "aging-timeout" -> 300
      [] p = "mtu" -> 1500
      [] p \in {"send-destination-unreachable", "optimistic-nd", "admin-status"} -> 1
      [] OTHER -> 0

\* The value the kernel is given: seconds become milliseconds.
Effective(p, v) == IF v # NULL /\ v \in Accepted(p) THEN v ELSE Default(p)
Given(s, v) == Effective(s[1], v) * (IF s[1] = "aging-timeout" THEN 1000 ELSE 1)

\* The tree a setting is loaded with.
Tree(s) == <<Module(s[1]), IF IsLink(s) \/ s[2] = "ipv6" THEN s[2] ELSE "ipv4">>
Within(tree) == {s \in Setting : Tree(s) = tree}

ASSUME SettingAssumption ==
    /\ NULL \notin Setting \cup Int
    /\ \A s \in Setting : /\ s[2] \in Link \cup {"ipv4", "ipv6"}
                          /\ IsLink(s) => s[2] \in Link
                          /\ Candidates[s] \subseteq Int
                          /\ IsRule(s) => Factory[s] = 0
    /\ Factory \in [Setting -> Nat]
    /\ UNION Groups \subseteq Setting
ASSUME NullAssumption == NULL \notin Setting \X (Int \cup {NULL})
ASSUME BoundAssumption == MaxQueue \in Nat /\ MaxNews \in Nat /\ MaxIndex \in Nat \ {0}

VARIABLES
    cfg,       \* the tree: [Setting -> value or NULL]
    inUse,     \* the settings clients write
    queue,     \* watch events not yet delivered
    links,     \* the kernel's links: [Link -> interface index, 0 if absent]
    fresh,     \* the next index the kernel hands out
    news,      \* link notifications not yet received
    cache,     \* the cache manager's links
    phase,     \* where the modules are in their life
    work,      \* work[t]: trees thread t has still to rewatch
    held,      \* held[t]: leaves of thread t's snapshot not yet acted on
    adding,    \* adding[t]: the rule thread t has found missing, or NULL
    kernel,    \* the kernel's values; of a rule, how often it is in its chain
    missed,    \* history: settings edited while no watch was there
    raced,     \* history: settings last acted on with an outdated value
    bare,      \* history: settings whose link is newer than their last request
    doubled    \* history: rules that were inserted while they were there

clients == <<cfg, inUse>>
linkvars == <<links, fresh>>
history == <<missed, raced, bare, doubled>>
threads == <<work, held, adding>>
vars == <<clients, queue, linkvars, news, cache, phase, threads, kernel, history>>

Thread == {"main", "apteryx", "netlink"}
NoWork == [t \in Thread |-> {}]
NoRule == [t \in Thread |-> NULL]
Phase == {"down", "registered", "cached", "ready", "watching", "loading", "running",
          "closing", "crashed"}
Alive == phase \notin {"down", "crashed"}
Watching == phase \in {"watching", "loading", "running"}
Pending(s) == \E n \in 1 .. Len(queue) : queue[n][1] = s
Free(t) == adding[t] = NULL
Idle(t) == work[t] = {} /\ held[t] = {} /\ Free(t)
Exists(s) == s[2] \in Link => links[s[2]] # 0

------------------------------------------------------------------------------
(* The watch callbacks.                                                    *)

\* A request with value v is made for the setting.
Acted(s, v) ==
    /\ missed' = missed \ {s} /\ bare' = bare \ {s}
    /\ raced' = IF v # cfg[s] /\ ~Pending(s)' THEN raced \cup {s} ELSE raced \ {s}

NoRequest == UNCHANGED <<kernel, history, phase>>

\* Mutation: the rule is inserted without looking for it.
LookForNothing(t, s, v) ==
    /\ adding' = [adding EXCEPT ![t] = <<s, v>>]
    /\ NoRequest

\* iptables -C: the rule is there, or this thread is about to insert it.
LookFor(t, s, v) ==
    /\ IF kernel[s] > 0
           THEN Acted(s, v) /\ UNCHANGED <<adding, kernel, phase, doubled>>
           ELSE adding' = [adding EXCEPT ![t] = <<s, v>>] /\ NoRequest

\* iptables -I.
Insert(t) ==
    /\ ~Free(t)
    /\ UNCHANGED <<clients, queue, linkvars, news, cache, phase, work, held>>
    /\ \E m \in {adding[t]} :
          /\ kernel' = [kernel EXCEPT ![m[1]] = @ + 1]
          /\ doubled' = IF kernel[m[1]] > 0 THEN doubled \cup {m[1]} ELSE doubled
          /\ Acted(m[1], m[2])
    /\ adding' = [adding EXCEPT ![t] = NULL]

\* Mutation: a rule that is not configured any more is left alone.
DeleteConfigured(s, v) ==
    /\ kernel' = [kernel EXCEPT ![s] = IF v # NULL /\ @ > 0 THEN @ - 1 ELSE @]
    /\ doubled' = IF kernel[s] = 1 THEN doubled \ {s} ELSE doubled
    /\ Acted(s, v)
    /\ UNCHANGED <<adding, phase>>

\* iptables -D: one of them goes, if there is one.
Delete(s, v) ==
    /\ kernel' = [kernel EXCEPT ![s] = IF @ > 0 THEN @ - 1 ELSE 0]
    /\ doubled' = IF kernel[s] = 1 THEN doubled \ {s} ELSE doubled
    /\ Acted(s, v)
    /\ UNCHANGED <<adding, phase>>

\* Mutation: any value asks for the rule.
RuleAnyway(t, s, v) == LookFor(t, s, v)

Rule(t, s, v) == IF Given(s, v) = 0 THEN LookFor(t, s, v) ELSE Delete(s, v)

\* sysctl -w writes a file that is there if its target is.
Sysctl(s, v) ==
    /\ IF Exists(s) THEN /\ kernel' = [kernel EXCEPT ![s] = Given(s, v)]
                         /\ Acted(s, v)
                         /\ UNCHANGED <<doubled, phase>>
                    ELSE NoRequest
    /\ UNCHANGED adding

\* link_cache, which apteryx_if_cb looks a link up in.
Known(l) == IF phase = "registered" THEN 0 ELSE cache[l]

\* rtnl_link_change is refused when the index is not the link's any more.  Before
\* the socket is allocated it is a NULL dereference.
Change(s, v) ==
    /\ LET l == s[2]
       IN  CASE Known(l) = 0 -> NoRequest
             [] Known(l) # 0 /\ phase = "cached" ->
                    phase' = "crashed" /\ UNCHANGED <<kernel, history>>
             [] Known(l) # 0 /\ phase # "cached" ->
                    IF links[l] = cache[l]
                        THEN /\ kernel' = [kernel EXCEPT ![s] = Given(s, v)]
                             /\ Acted(s, v)
                             /\ UNCHANGED <<doubled, phase>>
                        ELSE NoRequest
    /\ UNCHANGED adding

Handle(t, s, v) ==
    \/ IsRule(s) /\ Rule(t, s, v)
    \/ IsLink(s) /\ Change(s, v)
    \/ ~IsRule(s) /\ ~IsLink(s) /\ Sysctl(s, v)

------------------------------------------------------------------------------
(* apteryx_rewatch_tree, in either thread.                                 *)

Rewatch(t) ==
    /\ held[t] = {} /\ Free(t)
    /\ \E tree \in work[t] :
          /\ work' = [work EXCEPT ![t] = @ \ {tree}]
          /\ held' = [held EXCEPT ![t] = {<<s, cfg[s]>> : s \in
                                              {x \in Within(tree) : cfg[x] # NULL}}]
    /\ UNCHANGED <<clients, queue, linkvars, news, cache, phase, adding, kernel, history>>

Tell(t) ==
    /\ Free(t)
    /\ \E m \in held[t] :
          /\ held' = [held EXCEPT ![t] = @ \ {m}]
          /\ UNCHANGED queue
          /\ Handle(t, m[1], m[2])
    /\ UNCHANGED <<clients, linkvars, news, cache, work>>

------------------------------------------------------------------------------
(* The main thread: init, start and exit of the modules.                   *)

\* What a process had under way ends with it.
NothingUnderWay ==
    news' = <<>> /\ work' = NoWork /\ held' = NoWork /\ adding' = NoRule

\* ifconfig_init registers: its callback is called for every link, and finds no
\* link_cache yet.  (icmp_init makes the chains the rules are in.)
Start ==
    /\ phase \in {"down", "crashed"}
    /\ phase' = "registered"
    /\ cache' = links
    /\ NothingUnderWay
    /\ UNCHANGED <<clients, queue, linkvars, kernel, history>>

\* The end of the process: events that are not delivered by then are not.
Gone ==
    /\ missed' = missed \cup {s \in Setting : Pending(s)}
    /\ queue' = <<>>
    /\ NothingUnderWay
    /\ UNCHANGED <<clients, linkvars, cache, kernel, raced, bare, doubled>>

\* It takes the cache, then it allocates its socket and connects it, or quits.
Open ==
    \/ /\ \/ phase = "registered" /\ phase' = "cached"
          \/ phase = "cached" /\ phase' = "ready"
       /\ UNCHANGED <<clients, queue, linkvars, news, cache, threads, kernel, history>>
    \/ /\ "connect" \in Env /\ phase = "cached" /\ phase' = "down"
       /\ Gone

Watch ==
    /\ phase = "ready"
    /\ phase' = "watching"
    /\ UNCHANGED <<clients, queue, linkvars, news, cache, threads, kernel, history>>

\* The trees of all modules are loaded; ifconfig's where a search finds one.
Load ==
    \/ /\ phase = "watching" /\ phase' = "loading"
       /\ work' = [work EXCEPT !["main"] =
                       {Tree(s) : s \in {x \in Setting : IsLink(x) => cfg[x] # NULL}}]
       /\ UNCHANGED <<clients, queue, linkvars, news, cache, held, adding, kernel, history>>
    \/ /\ phase = "loading" /\ Idle("main") /\ phase' = "running"
       /\ UNCHANGED <<clients, queue, linkvars, news, cache, threads, kernel, history>>

\* The watches go, and the events they have not delivered.
Unwatch ==
    /\ "exit" \in Env /\ phase = "running"
    /\ phase' = "closing"
    /\ missed' = missed \cup {s \in Setting : Pending(s)}
    /\ queue' = <<>>
    /\ UNCHANGED <<clients, linkvars, news, cache, threads, kernel, raced, bare, doubled>>

\* ifconfig closes its socket and unregisters, and the process ends.
Close == phase = "closing" /\ phase' = "down" /\ Gone
Crash == "crash" \in Env /\ Alive /\ phase' = "down" /\ Gone

------------------------------------------------------------------------------
(* The Apteryx thread and the netlink thread.                              *)

Deliver ==
    /\ Watching /\ Free("apteryx") /\ queue # <<>>
    /\ queue' = Tail(queue)
    /\ \E m \in {Head(queue)} : Handle("apteryx", m[1], m[2])
    /\ UNCHANGED <<clients, linkvars, news, cache, work, held>>

\* Mutation: nl_if_cb is not interested in new links.
ReceiveOnly ==
    /\ Alive /\ Idle("netlink") /\ news # <<>>
    /\ cache' = [cache EXCEPT ![Head(news)[1]] = Head(news)[2]]
    /\ news' = Tail(news)
    /\ UNCHANGED <<clients, queue, linkvars, phase, threads, kernel, history>>

\* The cache takes in a notification, and nl_if_cb loads the settings of a new link.
Receive ==
    /\ Alive /\ Idle("netlink") /\ news # <<>>
    /\ LET l == Head(news)[1]
           i == Head(news)[2]
       IN  /\ cache' = [cache EXCEPT ![l] = i]
           /\ work' = [work EXCEPT !["netlink"] = IF i = 0 THEN {} ELSE {<<"ifconfig", l>>}]
    /\ news' = Tail(news)
    /\ UNCHANGED <<clients, queue, linkvars, phase, held, adding, kernel, history>>

------------------------------------------------------------------------------
(* Everybody else.                                                         *)

Edit ==
    /\ \E s \in inUse : \E v \in Candidates[s] \cup {NULL} :
          /\ v # cfg[s]
          /\ cfg' = [cfg EXCEPT ![s] = v]
          /\ IF Watching
                 THEN Len(queue) < MaxQueue /\ queue' = Append(queue, <<s, v>>) /\ UNCHANGED missed
                 ELSE missed' = missed \cup {s} /\ UNCHANGED queue
    /\ UNCHANGED <<inUse, linkvars, news, cache, phase, threads, kernel, raced, bare, doubled>>

On(l) == {s \in Setting : s[2] = l}

\* A link appears or goes; what it is set to starts and ends with it.
SetLink(l, i) ==
    /\ links' = [links EXCEPT ![l] = i]
    /\ kernel' = [s \in Setting |-> IF s \in On(l) THEN Factory[s] ELSE kernel[s]]
    /\ missed' = missed \ On(l) /\ raced' = raced \ On(l)
    /\ bare' = IF i = 0 THEN bare \ On(l) ELSE bare \cup On(l)
    /\ IF Alive THEN Len(news) < MaxNews /\ news' = Append(news, <<l, i>>)
                ELSE UNCHANGED news
    /\ UNCHANGED <<clients, queue, cache, phase, threads, doubled>>

LinkUp ==
    /\ fresh <= MaxIndex /\ fresh' = fresh + 1
    /\ \E l \in Link : links[l] = 0 /\ SetLink(l, fresh)

LinkGone ==
    /\ UNCHANGED fresh
    /\ \E l \in Link : links[l] # 0 /\ SetLink(l, 0)

Init ==
    /\ inUse \in Groups
    /\ cfg = [s \in Setting |-> NULL]
    /\ links = [l \in Link |-> 0] /\ fresh = 1 /\ cache = links
    /\ queue = <<>> /\ news = <<>>
    /\ phase = "down" /\ work = NoWork /\ held = NoWork /\ adding = NoRule
    /\ kernel = Factory
    /\ missed = {} /\ raced = {} /\ bare = {} /\ doubled = {}

MainStep == Start \/ Open \/ Watch \/ Load \/ Unwatch \/ Close \/ Crash
NetlinkStep == Receive
CallbackStep == Alive /\ \E t \in Thread : Rewatch(t) \/ Tell(t) \/ Insert(t)

Next == MainStep \/ NetlinkStep \/ CallbackStep \/ Deliver \/ Edit \/ LinkUp \/ LinkGone

Spec == Init /\ [][Next]_vars

------------------------------------------------------------------------------
(* Properties.                                                             *)

\* Leaves that are set, and watch events, which may be of one that was unset.
Leaf == {m \in Setting \X Int : m[2] \in Candidates[m[1]]}
Event == {m \in Setting \X (Int \cup {NULL}) : m[2] \in Candidates[m[1]] \cup {NULL}}

Trees == {Tree(s) : s \in Setting} \cup ({"ifconfig"} \X Link)

\* The type invariant: only rules are looked for, and only a value that asks for
\* one makes a thread insert it.
TypeOK ==
    /\ inUse \subseteq Setting
    /\ cfg \in [Setting -> Int \cup {NULL}] /\ \A s \in Setting : <<s, cfg[s]>> \in Event
    /\ queue \in Seq(Event)
    /\ links \in [Link -> 0 .. MaxIndex] /\ cache \in [Link -> 0 .. MaxIndex]
    /\ fresh \in 1 .. MaxIndex + 1
    /\ news \in Seq(Link \X (0 .. MaxIndex))
    /\ phase \in Phase
    /\ work \in [Thread -> SUBSET Trees]
    /\ held \in [Thread -> SUBSET Leaf]
    /\ adding \in [Thread -> Event \cup {NULL}]
    /\ \A t \in Thread : ~Free(t) => IsRule(adding[t][1]) /\ Given(adding[t][1], adding[t][2]) = 0
    /\ kernel \in [Setting -> Nat]
    /\ UNION {missed, raced, bare, doubled} \subseteq Setting

Quiescent ==
    /\ phase = "running" /\ queue = <<>> /\ news = <<>>
    /\ \A t \in Thread : Idle(t)

\* The kernel has what value v asks for.
Has(s, v) ==
    IF IsRule(s) THEN (kernel[s] > 0) = (Given(s, v) = 0) ELSE kernel[s] = Given(s, v)

\* Once all is quiet every setting whose target is there has taken effect, with
\* the default in place of a bad value, whether it was written before the daemon
\* started, while it did, or before its link came.  Excused are what an outdated
\* snapshot overtook (raced), a rule that was inserted twice and deleted once
\* (doubled), and the sysctls of a link that came later (bare: only ifconfig is
\* told of new links).
Excused(s) == s \in raced \cup doubled \/ (s \in bare /\ ~IsLink(s))
Applied ==
    Quiescent => \A s \in Setting : cfg[s] # NULL /\ Exists(s) /\ ~Excused(s) => Has(s, cfg[s])

\* ... and a setting that is not configured has its default, or the value the
\* kernel gave it; unless it was removed while no watch was there (missed).
Reverted ==
    Quiescent => \A s \in Setting \ missed :
        cfg[s] = NULL /\ Exists(s) /\ ~Excused(s) => Has(s, NULL) \/ kernel[s] = Factory[s]

\* "Add the rule only if it does not exist in the table" (icmp.c), in two commands:
\* however often the daemon is restarted and the rule wanted, removed and wanted
\* again, it is there twice at most, once for each thread that can have missed it.
Adding(s) == {t \in Thread : ~Free(t) /\ adding[t][1] = s}
TwiceAtMost == \A s \in Setting : IsRule(s) => kernel[s] + Cardinality(Adding(s)) <= 2
=============================================================================
