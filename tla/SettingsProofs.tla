--------------------------- MODULE SettingsProofs ---------------------------
(***************************************************************************)
(* What holds of Settings for every set of links, settings and values,     *)
(* every bound and every failure: a rule is in its chain twice at most,    *)
(* and once all is quiet the kernel has what is configured, or else the    *)
(* default; but for what an outdated snapshot overtook, for rules that     *)
(* were inserted twice, and for sysctls of links that came later.          *)
(***************************************************************************)
EXTENDS Settings, Queues, FiniteSetTheorems

LEMMA AcceptedType == ASSUME NEW p PROVE Accepted(p) \subseteq Nat
BY DEF Accepted

LEMMA DefaultType == ASSUME NEW p PROVE Default(p) \in Nat
<1>1. CASE p = "error-ratelimit"
  <2>1. Default(p) = 1000 BY <1>1 DEF Default
  <2>2. QED BY <2>1
<1>2. CASE p = "synack-retries"
  <2>1. Default(p) = 5 BY <1>2 DEF Default
  <2>2. QED BY <2>1
<1>3. CASE p = "aging-timeout"
  <2>1. Default(p) = 300 BY <1>3 DEF Default
  <2>2. QED BY <2>1
<1>4. CASE p = "mtu"
  <2>1. Default(p) = 1500 BY <1>4 DEF Default
  <2>2. QED BY <2>1
<1>5. CASE p \in {"send-destination-unreachable", "optimistic-nd", "admin-status"}
  <2>1. Default(p) = 1 BY <1>5 DEF Default
  <2>2. QED BY <2>1
<1>6. CASE p \notin {"error-ratelimit", "synack-retries", "aging-timeout", "mtu",
                     "send-destination-unreachable", "optimistic-nd", "admin-status"}
  <2>1. Default(p) = 0 BY <1>6 DEF Default
  <2>2. QED BY <2>1
<1>7. QED BY <1>1, <1>2, <1>3, <1>4, <1>5, <1>6

\* The kernel is given a number, for whatever text.
LEMMA GivenType ==
    ASSUME NEW s, NEW v
    PROVE  Given(s, v) \in Nat
<1>1. Effective(s[1], v) \in Nat
  BY AcceptedType, DefaultType, SMT DEF Effective
<1>2. QED BY <1>1 DEF Given

\* Rules are none of ifconfig's, and the trees of links are.
LEMMA RuleNoLink == ASSUME NEW s, IsRule(s) PROVE ~IsLink(s)
<1>1. Module(s[1]) = "icmp"
  BY DEF IsRule, Module, Neighbor
<1>2. QED BY <1>1 DEF IsLink

LEMMA TreeOfLink == ASSUME NEW s, NEW l, Tree(s) = <<"ifconfig", l>> PROVE IsLink(s)
BY DEF Tree, IsLink

USE SettingAssumption, BoundAssumption

------------------------------------------------------------------------------
(* Type correctness.                                                       *)

LEMMA EventParts ==
    /\ \A m \in Leaf : m[1] \in Setting /\ m \in Event
    /\ \A m \in Event : m[1] \in Setting /\ m = <<m[1], m[2]>>
    /\ \A s \in Setting : \A v \in Candidates[s] \cup {NULL} : <<s, v>> \in Event
    /\ \A s \in Setting : \A v : <<s, v>> \in Event /\ v # NULL => <<s, v>> \in Leaf
BY DEF Leaf, Event

\* What acting on a leaf does to the state, whichever way it ends.
LEMMA HandleType ==
    ASSUME TypeOK, NEW t \in Thread, NEW m \in Event, Handle(t, m[1], m[2])
    PROVE  /\ kernel' \in [Setting -> Nat]
           /\ phase' \in Phase
           /\ adding' \in [Thread -> Event \cup {NULL}]
           /\ \A u \in Thread : adding'[u] # NULL =>
                  IsRule(adding'[u][1]) /\ Given(adding'[u][1], adding'[u][2]) = 0
           /\ missed' \in SUBSET Setting /\ raced' \in SUBSET Setting
           /\ bare' \in SUBSET Setting /\ doubled' \in SUBSET Setting
<1>1. m[1] \in Setting /\ m = <<m[1], m[2]>>
  BY EventParts
<1>2. Given(m[1], m[2]) \in Nat
  BY GivenType
<1>3. CASE NoRequest /\ UNCHANGED adding
  BY <1>3 DEF TypeOK, NoRequest, history, Free
<1>4. CASE /\ kernel' = [kernel EXCEPT ![m[1]] = Given(m[1], m[2])]
           /\ Acted(m[1], m[2]) /\ UNCHANGED <<doubled, phase, adding>>
  BY <1>1, <1>2, <1>4 DEF TypeOK, Acted, Free
<1>5. CASE IsRule(m[1]) /\ Rule(t, m[1], m[2])
  <2>1. CASE Given(m[1], m[2]) = 0 /\ kernel[m[1]] > 0
    BY <1>1, <1>5, <2>1 DEF TypeOK, Rule, LookFor, Acted, Free
  <2>2. CASE Given(m[1], m[2]) = 0 /\ ~(kernel[m[1]] > 0)
    <3>1. adding' = [adding EXCEPT ![t] = m] /\ NoRequest
      BY <1>1, <1>5, <2>2 DEF Rule, LookFor
    <3>2. adding' \in [Thread -> Event \cup {NULL}]
      BY <3>1 DEF TypeOK
    <3>3. \A u \in Thread : adding'[u] # NULL =>
              IsRule(adding'[u][1]) /\ Given(adding'[u][1], adding'[u][2]) = 0
      BY <1>5, <2>2, <3>1 DEF TypeOK, Free
    <3>4. QED BY <3>1, <3>2, <3>3 DEF TypeOK, NoRequest, history
  <2>3. CASE Given(m[1], m[2]) # 0
    <3>1. Delete(m[1], m[2])
      BY <1>5, <2>3 DEF Rule
    <3>2. kernel' \in [Setting -> Nat]
      BY <1>1, <3>1 DEF TypeOK, Delete
    <3>3. QED BY <1>1, <3>1, <3>2 DEF TypeOK, Delete, Acted, Free
  <2>4. QED BY <2>1, <2>2, <2>3
<1>6. CASE Change(m[1], m[2])
  <2>1. CASE phase' = "crashed" /\ UNCHANGED <<kernel, history, adding>>
    BY <2>1 DEF TypeOK, history, Phase, Free
  <2>2. QED BY <1>3, <1>4, <1>6, <2>1 DEF Change
<1>7. CASE Sysctl(m[1], m[2])
  BY <1>3, <1>4, <1>7 DEF Sysctl
<1>8. QED BY <1>5, <1>6, <1>7 DEF Handle

LEMMA InitType == Init => TypeOK
BY DEF Init, TypeOK, Event, Phase, NoWork, NoRule, Free, Leaf

LEMMA TellType == ASSUME TypeOK, NEW t \in Thread, Tell(t) PROVE TypeOK'
<1>1. PICK m \in held[t] : /\ held' = [held EXCEPT ![t] = @ \ {m}]
                           /\ UNCHANGED queue
                           /\ Handle(t, m[1], m[2])
  BY DEF Tell
<1>2. m \in Event
  BY <1>1, EventParts DEF TypeOK
<1>3. held' \in [Thread -> SUBSET Leaf]
  BY <1>1 DEF TypeOK
<1>4. QED
  BY <1>1, <1>2, <1>3, HandleType DEF TypeOK, Tell, clients, linkvars, Free

LEMMA DeliverType == ASSUME TypeOK, Deliver PROVE TypeOK'
<1>1. /\ queue \in Seq(Event) /\ queue # <<>> /\ queue' = Tail(queue)
      /\ Handle("apteryx", Head(queue)[1], Head(queue)[2])
  BY DEF TypeOK, Deliver
<1>2. Head(queue) \in Event /\ queue' \in Seq(Event)
  BY <1>1
<1>3. QED
  BY <1>1, <1>2, HandleType DEF TypeOK, Deliver, clients, linkvars, Free, Thread

LEMMA RewatchType == ASSUME TypeOK, NEW t \in Thread, Rewatch(t) PROVE TypeOK'
<1>1. PICK tree \in work[t] :
          /\ work' = [work EXCEPT ![t] = @ \ {tree}]
          /\ held' = [held EXCEPT ![t] = {<<s, cfg[s]>> : s \in
                                              {x \in Within(tree) : cfg[x] # NULL}}]
  BY DEF Rewatch
<1>2. {<<s, cfg[s]>> : s \in {x \in Within(tree) : cfg[x] # NULL}} \in SUBSET Leaf
  BY EventParts DEF TypeOK, Within
<1>3. QED
  BY <1>1, <1>2 DEF TypeOK, Rewatch, clients, linkvars, history, Free

LEMMA InsertType == ASSUME TypeOK, NEW t \in Thread, Insert(t) PROVE TypeOK'
<1>1. adding[t] \in Event
  BY DEF TypeOK, Insert, Free
<1>2. adding[t][1] \in Setting
  BY <1>1, EventParts
<1>3. QED
  BY <1>2 DEF TypeOK, Insert, Acted, clients, linkvars, Free

LEMMA SetLinkType ==
    ASSUME TypeOK, NEW l \in Link, NEW i \in 0 .. MaxIndex, SetLink(l, i),
           fresh' \in 1 .. MaxIndex + 1
    PROVE  TypeOK'
<1>1. links' \in [Link -> 0 .. MaxIndex] /\ kernel' \in [Setting -> Nat]
  BY DEF TypeOK, SetLink
<1>2. news' \in Seq(Link \X (0 .. MaxIndex))
  <2>1. news' = Append(news, <<l, i>>) \/ news' = news
    BY DEF SetLink
  <2>2. news \in Seq(Link \X (0 .. MaxIndex)) /\ <<l, i>> \in Link \X (0 .. MaxIndex)
    BY DEF TypeOK
  <2>3. Append(news, <<l, i>>) \in Seq(Link \X (0 .. MaxIndex))
    BY <2>2, AppendIndices, Zenon
  <2>4. QED BY <2>1, <2>2, <2>3
<1>3. UNION {missed', raced', bare', doubled'} \subseteq Setting
  BY DEF TypeOK, SetLink, On
<1>4. QED
  BY <1>1, <1>2, <1>3 DEF TypeOK, SetLink, clients, threads, Free

LEMMA EditType == ASSUME TypeOK, Edit PROVE TypeOK'
<1>1. PICK s \in inUse : \E v \in Candidates[s] \cup {NULL} :
          /\ cfg' = [cfg EXCEPT ![s] = v]
          /\ \/ queue' = Append(queue, <<s, v>>) /\ UNCHANGED missed
             \/ missed' = missed \cup {s} /\ UNCHANGED queue
  BY DEF Edit
<1>2. PICK v \in Candidates[s] \cup {NULL} :
          /\ cfg' = [cfg EXCEPT ![s] = v]
          /\ \/ queue' = Append(queue, <<s, v>>) /\ UNCHANGED missed
             \/ missed' = missed \cup {s} /\ UNCHANGED queue
  BY <1>1
<1>3. s \in Setting /\ <<s, v>> \in Event /\ v \in Int \cup {NULL}
  BY <1>1, EventParts DEF TypeOK
<1>4. /\ cfg' \in [Setting -> Int \cup {NULL}]
      /\ \A x \in Setting : <<x, cfg'[x]>> \in Event
  BY <1>2, <1>3 DEF TypeOK
<1>5. queue' \in Seq(Event)
  <2>1. queue \in Seq(Event)
    BY DEF TypeOK
  <2>2. Append(queue, <<s, v>>) \in Seq(Event)
    BY <1>3, <2>1, AppendIndices, Zenon
  <2>3. QED BY <1>2, <2>1, <2>2
<1>6. missed' \in SUBSET Setting
  BY <1>2, <1>3 DEF TypeOK
<1>7. QED
  BY <1>4, <1>5, <1>6 DEF TypeOK, Edit, linkvars, threads, Free

LEMMA MainType == ASSUME TypeOK, MainStep PROVE TypeOK'
<1> USE DEF clients, linkvars, threads, history, NothingUnderWay, NoWork, NoRule, Free
<1>1. CASE Start
  BY <1>1 DEF TypeOK, Start, Phase
<1>2. ASSUME Gone, phase' = "down" PROVE TypeOK'
  BY <1>2 DEF TypeOK, Gone, Phase
<1>3. CASE Open
  BY <1>2, <1>3 DEF TypeOK, Open, Phase
<1>4. CASE Watch
  BY <1>4 DEF TypeOK, Watch, Phase
<1>5. CASE Load
  <2>1. {Tree(s) : s \in {x \in Setting : IsLink(x) => cfg[x] # NULL}} \in SUBSET Trees
    BY DEF Trees
  <2>2. work' \in [Thread -> SUBSET Trees]
    BY <1>5, <2>1 DEF TypeOK, Load
  <2>3. QED BY <1>5, <2>2 DEF TypeOK, Load, Phase
<1>6. CASE Unwatch
  BY <1>6 DEF TypeOK, Unwatch, Phase
<1>7. CASE Close \/ Crash
  BY <1>2, <1>7 DEF Close, Crash
<1>8. QED BY <1>1, <1>3, <1>4, <1>5, <1>6, <1>7 DEF MainStep

LEMMA ReceiveType == ASSUME TypeOK, Receive PROVE TypeOK'
<1>1. /\ news \in Seq(Link \X (0 .. MaxIndex)) /\ news # <<>>
  BY DEF TypeOK, Receive
<1>2. /\ Head(news)[1] \in Link /\ Head(news)[2] \in 0 .. MaxIndex
      /\ Tail(news) \in Seq(Link \X (0 .. MaxIndex))
  BY <1>1
<1>3. cache' \in [Link -> 0 .. MaxIndex]
  BY <1>2 DEF TypeOK, Receive
<1>4. work' \in [Thread -> SUBSET Trees]
  <2>1. (IF Head(news)[2] = 0 THEN {} ELSE {<<"ifconfig", Head(news)[1]>>}) \in SUBSET Trees
    BY <1>2 DEF Trees
  <2>2. QED BY <2>1 DEF TypeOK, Receive
<1>5. QED
  BY <1>2, <1>3, <1>4 DEF TypeOK, Receive, clients, linkvars, history, Free

LEMMA NextType == TypeOK /\ [Next]_vars => TypeOK'
<1> SUFFICES ASSUME TypeOK, [Next]_vars PROVE TypeOK'
  OBVIOUS
<1>1. CASE \E t \in Thread : Rewatch(t) \/ Tell(t) \/ Insert(t)
  BY <1>1, RewatchType, TellType, InsertType
<1>2. CASE LinkUp
  <2>1. PICK l \in Link : SetLink(l, fresh)
    BY <1>2 DEF LinkUp
  <2>2. fresh \in 0 .. MaxIndex /\ fresh' \in 1 .. MaxIndex + 1
    BY <1>2 DEF LinkUp, TypeOK
  <2>3. QED BY <2>1, <2>2, SetLinkType
<1>3. CASE LinkGone
  <2>1. PICK l \in Link : SetLink(l, 0)
    BY <1>3 DEF LinkGone
  <2>2. 0 \in 0 .. MaxIndex /\ fresh' \in 1 .. MaxIndex + 1
    BY <1>3 DEF LinkGone, TypeOK
  <2>3. QED BY <2>1, <2>2, SetLinkType
<1>4. CASE UNCHANGED vars
  BY <1>4 DEF vars, clients, linkvars, threads, history, TypeOK, Free
<1>5. QED
  BY <1>1, <1>2, <1>3, <1>4, MainType, ReceiveType, DeliverType, EditType
  DEF Next, NetlinkStep, CallbackStep

\* Every variable keeps its type: a thread inserts only rules, and for a value
\* that asks for one.
THEOREM TypeCorrect == Spec => []TypeOK
BY InitType, NextType, PTL DEF Spec

------------------------------------------------------------------------------
(* How often a rule is in its chain.                                       *)

\* The netlink thread acts on nothing but the settings of links.
NetlinkOnly ==
    /\ work["netlink"] \subseteq {"ifconfig"} \X Link
    /\ \A m \in held["netlink"] : IsLink(m[1])
    /\ Free("netlink")

LEMMA FewThreads ==
    ASSUME NEW A \in SUBSET {"main", "apteryx"}
    PROVE  /\ Cardinality(A) \in 0 .. 2
           /\ A = {} => Cardinality(A) = 0
           /\ \A t \in A : Cardinality(A \ {t}) = Cardinality(A) - 1
<1>1. IsFiniteSet({"main", "apteryx"}) /\ Cardinality({"main", "apteryx"}) = 2
  <2>1. {"main", "apteryx"} = {"main"} \cup {"apteryx"} /\ "apteryx" \notin {"main"}
    OBVIOUS
  <2>2. IsFiniteSet({"main"}) /\ Cardinality({"main"}) = 1
    BY FS_Singleton
  <2>3. IsFiniteSet({"main"} \cup {"apteryx"}) /\ Cardinality({"main"} \cup {"apteryx"}) = 1 + 1
    BY <2>1, <2>2, FS_AddElement
  <2>4. QED BY <2>1, <2>3
<1>2. IsFiniteSet(A) /\ Cardinality(A) <= 2 /\ Cardinality(A) \in Nat
  <2>1. IsFiniteSet(A) /\ Cardinality(A) <= Cardinality({"main", "apteryx"})
    BY <1>1, FS_Subset
  <2>2. QED BY <1>1, <2>1, FS_CardinalityType
<1>3. A = {} => Cardinality(A) = 0
  BY FS_EmptySet
<1>4. \A t \in A : Cardinality(A \ {t}) = Cardinality(A) - 1
  BY <1>2, FS_RemoveElement
<1>5. QED BY <1>2, <1>3, <1>4

LEMMA AddingFew ==
    Free("netlink") => \A s : Adding(s) \in SUBSET {"main", "apteryx"}
BY DEF Adding, Free, Thread

LEMMA AddingSame ==
    ASSUME UNCHANGED adding PROVE \A s : Adding(s)' = Adding(s)
BY DEF Adding, Free

\* Acting on a leaf adds a thread only to those that insert a rule that is not there.
LEMMA HandleTwice ==
    ASSUME TypeOK, TwiceAtMost, NetlinkOnly, NEW t \in Thread, NEW m \in Event, Free(t),
           t = "netlink" => IsLink(m[1]), Handle(t, m[1], m[2])
    PROVE  TwiceAtMost' /\ Free("netlink")'
<1>1. m[1] \in Setting /\ m = <<m[1], m[2]>>
  BY EventParts
<1>2. CASE ~IsRule(m[1])
  <2>1. UNCHANGED adding
    BY <1>2 DEF Handle, Change, Sysctl
  <2>2. \A s \in Setting : IsRule(s) => kernel'[s] = kernel[s]
    BY <1>1, <1>2 DEF Handle, Change, Sysctl, NoRequest, TypeOK
  <2>3. QED BY <2>1, <2>2, AddingSame DEF TwiceAtMost, NetlinkOnly, Free
<1>3. CASE IsRule(m[1])
  <2>1. Rule(t, m[1], m[2]) /\ t # "netlink"
    BY <1>1, <1>3, RuleNoLink DEF Handle
  <2>2. CASE UNCHANGED adding /\ \A s \in Setting : kernel'[s] \in Nat /\ kernel'[s] <= kernel[s]
    <3>1. Free("netlink")'
      BY <2>2 DEF NetlinkOnly, Free
    <3>2. \A s \in Setting : Cardinality(Adding(s)) \in 0 .. 2 /\ Adding(s)' = Adding(s)
      BY <2>2, AddingFew, AddingSame, FewThreads DEF NetlinkOnly
    <3>3. \A s \in Setting : kernel[s] \in Nat
      BY DEF TypeOK
    <3>4. QED BY <2>2, <3>1, <3>2, <3>3 DEF TwiceAtMost
  <2>3. CASE kernel[m[1]] = 0 /\ adding' = [adding EXCEPT ![t] = m] /\ UNCHANGED kernel
    <3>1. Free("netlink")'
      BY <2>1, <2>3 DEF NetlinkOnly, Free, TypeOK
    <3>2. Adding(m[1])' \in SUBSET {"main", "apteryx"}
      BY <3>1 DEF Adding, Free, Thread
    <3>3. \A s \in Setting : s # m[1] => Adding(s)' = Adding(s)
      BY <2>3 DEF Adding, Free, TypeOK
    <3>4. QED BY <1>1, <2>3, <3>1, <3>2, <3>3, FewThreads DEF TwiceAtMost
  <2>4. CASE Given(m[1], m[2]) = 0
    <3>1. kernel[m[1]] \in Nat
      BY <1>1 DEF TypeOK
    <3>2. CASE kernel[m[1]] > 0
      BY <2>1, <2>2, <2>4, <3>2 DEF Rule, LookFor, TypeOK
    <3>3. CASE ~(kernel[m[1]] > 0)
      <4>1. adding' = [adding EXCEPT ![t] = m] /\ UNCHANGED kernel /\ kernel[m[1]] = 0
        BY <1>1, <2>1, <2>4, <3>1, <3>3 DEF Rule, LookFor, NoRequest
      <4>2. QED BY <2>3, <4>1
    <3>4. QED BY <3>2, <3>3
  <2>5. CASE Given(m[1], m[2]) # 0
    <3>1. Delete(m[1], m[2])
      BY <2>1, <2>5 DEF Rule
    <3>2. QED BY <1>1, <2>2, <3>1 DEF Delete, TypeOK
  <2>6. QED BY <2>4, <2>5
<1>4. QED BY <1>2, <1>3

LEMMA InsertTwice ==
    ASSUME TypeOK, TwiceAtMost, NetlinkOnly, NEW t \in Thread, Insert(t)
    PROVE  TwiceAtMost' /\ Free("netlink")'
<1>. PICK r : r = adding[t][1]
  OBVIOUS
<1>1. adding[t] \in Event /\ r \in Setting /\ ~Free(t)
  BY EventParts DEF TypeOK, Insert, Free
<1>2. /\ adding' = [adding EXCEPT ![t] = NULL]
      /\ kernel' = [kernel EXCEPT ![r] = @ + 1]
  BY DEF Insert
<1>3. Free("netlink")'
  BY <1>2 DEF NetlinkOnly, Free, TypeOK
<1>4. t \in Adding(r) /\ Adding(r)' = Adding(r) \ {t}
  <2>1. adding \in [Thread -> Event \cup {NULL}] /\ adding'[t] = NULL
        /\ \A u \in Thread : u # t => adding'[u] = adding[u]
    BY <1>2 DEF TypeOK
  <2>2. QED BY <1>1, <2>1 DEF Adding, Free
<1>5. kernel'[r] = kernel[r] + 1 /\ kernel[r] \in Nat
  BY <1>1, <1>2 DEF TypeOK
<1>6. ASSUME NEW s \in Setting, IsRule(s) PROVE kernel'[s] + Cardinality(Adding(s)') <= 2
  <2>1. CASE s = r
    <3>1. Adding(r) \in SUBSET {"main", "apteryx"}
      BY AddingFew DEF NetlinkOnly
    <3>2. Cardinality(Adding(r)') = Cardinality(Adding(r)) - 1 /\ Cardinality(Adding(r)) \in 0 .. 2
      BY <1>4, <3>1, FewThreads
    <3>3. kernel[r] + Cardinality(Adding(r)) <= 2
      BY <1>6, <2>1 DEF TwiceAtMost
    <3>4. QED BY <1>5, <2>1, <3>2, <3>3
  <2>2. CASE s # r
    <3>1. Adding(s)' = Adding(s)
      BY <1>2, <2>2 DEF Adding, Free, TypeOK
    <3>2. kernel'[s] = kernel[s]
      BY <1>2, <2>2 DEF TypeOK
    <3>3. QED BY <1>6, <3>1, <3>2 DEF TwiceAtMost
  <2>3. QED BY <2>1, <2>2
<1>7. QED BY <1>3, <1>6 DEF TwiceAtMost

LEMMA InitTwice == Init => NetlinkOnly /\ TwiceAtMost
<1>. SUFFICES ASSUME Init PROVE NetlinkOnly /\ TwiceAtMost
  OBVIOUS
<1>1. NetlinkOnly
  BY DEF Init, NetlinkOnly, NoWork, NoRule, Free, Thread
<1>2. \A s : Adding(s) = {}
  BY DEF Init, Adding, NoRule, Free
<1>3. \A s \in Setting : IsRule(s) => kernel[s] = 0
  BY DEF Init
<1>4. QED BY <1>1, <1>2, <1>3, FewThreads DEF TwiceAtMost

\* Every step but those that insert a rule, or act on a leaf, leaves the rules alone.
LEMMA StepTwice ==
    ASSUME TypeOK, TwiceAtMost, NetlinkOnly, Free("netlink")',
           UNCHANGED adding \/ adding' = NoRule,
           \A s \in Setting : IsRule(s) => kernel'[s] \in {0, kernel[s]}
    PROVE  TwiceAtMost'
<1>1. ASSUME NEW s \in Setting, IsRule(s)
      PROVE  /\ Adding(s) \in SUBSET {"main", "apteryx"} /\ kernel[s] \in Nat
             /\ Adding(s)' = Adding(s) \/ Adding(s)' = {}
  BY AddingFew, AddingSame DEF Adding, Free, NoRule, NetlinkOnly, TypeOK
<1>2. ASSUME NEW s \in Setting, IsRule(s) PROVE kernel'[s] + Cardinality(Adding(s)') <= 2
  <2>1. Cardinality(Adding(s)) \in 0 .. 2 /\ Cardinality({}) = 0
    BY <1>1, <1>2, FewThreads
  <2>2. kernel[s] + Cardinality(Adding(s)) <= 2 /\ kernel'[s] \in {0, kernel[s]}
    BY <1>2 DEF TwiceAtMost
  <2>3. CASE Adding(s)' = Adding(s)
    <3>1. Cardinality(Adding(s)') = Cardinality(Adding(s))
      BY <2>3, Zenon
    <3>2. QED BY <1>1, <1>2, <2>1, <2>2, <3>1
  <2>4. CASE Adding(s)' = {}
    <3>1. Cardinality(Adding(s)') = Cardinality({})
      BY <2>4, Zenon
    <3>2. QED BY <1>1, <1>2, <2>1, <2>2, <3>1
  <2>5. QED BY <1>1, <1>2, <2>3, <2>4
<1>3. QED BY <1>2 DEF TwiceAtMost

LEMMA NextTwice ==
    TypeOK /\ NetlinkOnly /\ TwiceAtMost /\ [Next]_vars => NetlinkOnly' /\ TwiceAtMost'
<1> SUFFICES ASSUME TypeOK, NetlinkOnly, TwiceAtMost, [Next]_vars
             PROVE  NetlinkOnly' /\ TwiceAtMost'
  OBVIOUS
<1> USE DEF clients, linkvars, threads, history, vars
<1>1. ASSUME NEW t \in Thread, Rewatch(t) PROVE NetlinkOnly' /\ TwiceAtMost'
  <2>1. PICK tree \in work[t] :
            /\ work' = [work EXCEPT ![t] = @ \ {tree}]
            /\ held' = [held EXCEPT ![t] = {<<s, cfg[s]>> : s \in
                                                {x \in Within(tree) : cfg[x] # NULL}}]
    BY <1>1 DEF Rewatch
  <2>2. work'["netlink"] \subseteq {"ifconfig"} \X Link /\ Free("netlink")'
    BY <1>1, <2>1 DEF TypeOK, NetlinkOnly, Rewatch, Free
  <2>3. CASE t = "netlink"
    <3>1. PICK l \in Link : tree = <<"ifconfig", l>>
      BY <2>1, <2>3 DEF NetlinkOnly
    <3>2. \A s \in Within(tree) : IsLink(s)
      BY <3>1, TreeOfLink DEF Within
    <3>3. \A m \in held'["netlink"] : IsLink(m[1])
      BY <2>1, <2>3, <3>2 DEF TypeOK, Thread
    <3>4. QED BY <1>1, <2>2, <3>3, StepTwice DEF Rewatch, NetlinkOnly
  <2>4. CASE t # "netlink"
    <3>1. \A m \in held'["netlink"] : IsLink(m[1])
      BY <2>1, <2>4 DEF TypeOK, NetlinkOnly
    <3>2. QED BY <1>1, <2>2, <3>1, StepTwice DEF Rewatch, NetlinkOnly
  <2>5. QED BY <2>3, <2>4
<1>2. ASSUME NEW t \in Thread, Tell(t) PROVE NetlinkOnly' /\ TwiceAtMost'
  <2>1. PICK m \in held[t] : /\ held' = [held EXCEPT ![t] = @ \ {m}]
                             /\ Handle(t, m[1], m[2])
    BY <1>2 DEF Tell
  <2>2. m \in Event /\ Free(t) /\ (t = "netlink" => IsLink(m[1]))
    BY <1>2, <2>1, EventParts DEF TypeOK, NetlinkOnly, Tell
  <2>3. TwiceAtMost' /\ Free("netlink")'
    BY <2>1, <2>2, HandleTwice
  <2>4. held'["netlink"] \subseteq held["netlink"] /\ UNCHANGED work
    BY <1>2, <2>1 DEF TypeOK, Tell
  <2>5. QED BY <2>3, <2>4 DEF NetlinkOnly
<1>3. ASSUME NEW t \in Thread, Insert(t) PROVE NetlinkOnly' /\ TwiceAtMost'
  BY <1>3, InsertTwice DEF Insert, NetlinkOnly
<1>4. CASE Deliver
  <2>1. Head(queue) \in Event /\ Handle("apteryx", Head(queue)[1], Head(queue)[2])
    BY <1>4, TailIndices DEF Deliver, TypeOK
  <2>2. TwiceAtMost' /\ Free("netlink")'
    BY <1>4, <2>1, HandleTwice DEF Deliver, Thread
  <2>3. QED BY <1>4, <2>2 DEF Deliver, NetlinkOnly
<1>5. CASE MainStep
  <2>1. UNCHANGED kernel /\ (UNCHANGED adding \/ adding' = NoRule)
    BY <1>5 DEF MainStep, Start, Open, Watch, Load, Unwatch, Close, Crash, Gone, NothingUnderWay
  <2>2. CASE NothingUnderWay
    BY <2>1, <2>2, StepTwice DEF NothingUnderWay, NetlinkOnly, NoWork, NoRule, Free, Thread
  <2>3. CASE UNCHANGED threads
    BY <2>1, <2>3, StepTwice DEF NetlinkOnly, Free
  <2>4. CASE Load
    <3>1. UNCHANGED <<held, adding>>
      BY <2>4 DEF Load
    <3>2. work'["netlink"] = work["netlink"]
      <4>1. CASE UNCHANGED work
        BY <4>1
      <4>2. ASSUME NEW W, work' = [work EXCEPT !["main"] = W]
            PROVE  work'["netlink"] = work["netlink"]
        BY <4>2 DEF TypeOK, Thread
      <4>3. QED BY <2>4, <4>1, <4>2 DEF Load
    <3>3. QED BY <2>1, <3>1, <3>2, StepTwice DEF NetlinkOnly, Free
  <2>5. QED BY <1>5, <2>2, <2>3, <2>4 DEF MainStep, Start, Open, Watch, Unwatch, Close, Crash, Gone
<1>6. CASE Receive
  <2>1. Head(news)[1] \in Link
    BY <1>6, TailIndices DEF Receive, TypeOK
  <2>2. NetlinkOnly'
    BY <1>6, <2>1 DEF Receive, NetlinkOnly, Free, TypeOK, Thread
  <2>3. QED BY <1>6, <2>2, StepTwice DEF Receive, NetlinkOnly
<1>7. CASE Edit
  BY <1>7, StepTwice DEF Edit, NetlinkOnly, Free
<1>8. ASSUME NEW l \in Link, NEW i, SetLink(l, i) PROVE NetlinkOnly' /\ TwiceAtMost'
  <2>1. \A s \in Setting : IsRule(s) => kernel'[s] \in {0, kernel[s]}
    BY <1>8 DEF SetLink
  <2>2. QED BY <1>8, <2>1, StepTwice DEF SetLink, NetlinkOnly, Free
<1>9. CASE UNCHANGED vars
  BY <1>9, StepTwice DEF NetlinkOnly, Free
<1>10. QED
  BY <1>1, <1>2, <1>3, <1>4, <1>5, <1>6, <1>7, <1>8, <1>9
  DEF Next, NetlinkStep, CallbackStep, LinkUp, LinkGone

\* A rule of the firewall that icmp_apteryx_cb looks for before it inserts it is
\* never in its chain more than twice, whatever is written, and however often the
\* daemon stops and starts: the two threads that call it can both have found it
\* missing, and no third one does.
THEOREM RuleTwiceAtMost == Spec => []TwiceAtMost
<1>1. Init => TypeOK /\ NetlinkOnly /\ TwiceAtMost
  BY InitType, InitTwice
<1>2. TypeOK /\ NetlinkOnly /\ TwiceAtMost /\ [Next]_vars => (TypeOK /\ NetlinkOnly /\ TwiceAtMost)'
  BY NextType, NextTwice
<1>3. QED BY <1>1, <1>2, PTL DEF Spec

------------------------------------------------------------------------------
(* The links, the watches, and what they leave of the kernel's values.     *)

Links == Follows(Link, links, cache, news, fresh)
LinksTold == Alive => Announced(Link, links, cache, news)

\* Events are there only while the watches are, and end with what is configured.
OnlyWatched == Watching \/ queue = <<>>
Corrected == \A s \in Setting : Says(queue, s, cfg[s])

\* A rule that is in its chain more than once was inserted while it was there.
Counted == \A s \in Setting : IsRule(s) /\ kernel[s] >= 2 => s \in doubled

\* A link the cache has not learnt of is as the kernel made it.
Untouched ==
    \A s \in Setting : IsLink(s) /\ links[s[2]] # 0 /\ cache[s[2]] # links[s[2]]
        => kernel[s] = Factory[s]

LEMMA RuleDefault == ASSUME NEW s, IsRule(s) PROVE Given(s, NULL) # 0
<1>1. Default(s[1]) = 1
  BY DEF IsRule, Default
<1>2. Effective(s[1], NULL) = Default(s[1])
  BY DEF Effective
<1>3. QED BY <1>1, <1>2 DEF Given, IsRule

\* A request is made with v: it is what is configured, and the kernel has it now, or
\* there are more of the rule; or an event is to come; or the request raced.
Asked(s, v) ==
    s \in raced' \/ Pending(s)' \/ (v = cfg[s] /\ (Has(s, v)' \/ s \in doubled'))

\* No other setting than s is concerned.
Others(s) ==
    \A x \in Setting : x # s =>
        /\ kernel'[x] = kernel[x]
        /\ x \in missed' <=> x \in missed
        /\ Excused(x)' <=> Excused(x)

\* Why acting on a leaf makes no request.
Refused(t, s, v) ==
    \/ ~IsRule(s) /\ ~IsLink(s) /\ ~Exists(s)
    \/ IsLink(s) /\ (Known(s[2]) = 0 \/ cache[s[2]] # links[s[2]])
    \/ IsRule(s) /\ Given(s, v) = 0 /\ adding' = [adding EXCEPT ![t] = <<s, v>>]
    \/ phase = "cached"

LEMMA ActedAsked ==
    ASSUME TypeOK, NEW s \in Setting, NEW v, Acted(s, v), v = cfg[s] => Has(s, v)' \/ s \in doubled'
    PROVE  Asked(s, v)
BY DEF Acted, Asked

LEMMA ActedOthers ==
    ASSUME TypeOK, NEW s \in Setting, NEW v, Acted(s, v),
           \A x \in Setting : x # s => kernel'[x] = kernel[x] /\ (x \in doubled' <=> x \in doubled)
    PROVE  Others(s)
BY DEF Acted, Others, Excused

LEMMA HandleEffect ==
    ASSUME TypeOK, Counted, NEW t \in Thread, NEW s \in Setting, NEW v, <<s, v>> \in Event,
           Handle(t, s, v)
    PROVE  /\ Others(s) /\ Counted'
           /\ \/ UNCHANGED <<kernel, history>> /\ Refused(t, s, v)
              \/ Asked(s, v)
           /\ phase' = phase \/ phase' = "crashed"
           /\ adding' = adding \/ (adding[t] = NULL => adding' = [adding EXCEPT ![t] = <<s, v>>])
<1>. kernel \in [Setting -> Nat]
  BY DEF TypeOK
<1>1. ASSUME UNCHANGED <<kernel, history>> PROVE Others(s) /\ Counted'
  BY <1>1 DEF Others, Excused, Counted, history
<1>2. CASE \/ IsLink(s) /\ Change(s, v)
           \/ ~IsRule(s) /\ ~IsLink(s) /\ Sysctl(s, v)
  <2>1. ~IsRule(s)
    BY <1>2, RuleNoLink
  <2>2. CASE /\ kernel' = [kernel EXCEPT ![s] = Given(s, v)]
             /\ Acted(s, v) /\ UNCHANGED <<doubled, phase, adding>>
    <3>1. Has(s, v)'
      BY <2>1, <2>2 DEF Has
    <3>2. Counted'
      BY <2>1, <2>2 DEF Counted
    <3>3. QED BY <2>2, <3>1, <3>2, ActedAsked, ActedOthers
  <2>3. CASE /\ UNCHANGED <<kernel, history, adding>> /\ phase' \in {phase, "crashed"}
             /\ Refused(t, s, v)
    BY <1>1, <2>3
  <2>4. QED BY <1>2, <2>1, <2>2, <2>3 DEF Change, Sysctl, NoRequest, Refused
<1>3. CASE IsRule(s) /\ Rule(t, s, v)
  <2>1. CASE Given(s, v) = 0 /\ kernel[s] > 0
    <3>1. Acted(s, v) /\ UNCHANGED <<adding, kernel, phase, doubled>>
      BY <1>3, <2>1 DEF Rule, LookFor
    <3>2. Has(s, v)'
      BY <1>3, <2>1, <3>1 DEF Has
    <3>3. Counted'
      BY <3>1 DEF Counted
    <3>4. QED BY <3>1, <3>2, <3>3, ActedAsked, ActedOthers
  <2>2. CASE Given(s, v) = 0 /\ ~(kernel[s] > 0)
    BY <1>1, <1>3, <2>2 DEF Rule, LookFor, NoRequest, Refused
  <2>3. CASE Given(s, v) # 0
    <3>1. Delete(s, v)
      BY <1>3, <2>3 DEF Rule
    <3>2. /\ Acted(s, v) /\ UNCHANGED <<adding, phase>>
          /\ kernel' = [kernel EXCEPT ![s] = IF kernel[s] > 0 THEN kernel[s] - 1 ELSE 0]
          /\ doubled' = IF kernel[s] = 1 THEN doubled \ {s} ELSE doubled
      BY <3>1 DEF Delete
    <3>3. kernel'[s] = (IF kernel[s] > 0 THEN kernel[s] - 1 ELSE 0) /\ kernel[s] \in Nat
          /\ \A x \in Setting : x # s => kernel'[x] = kernel[x]
      BY <3>2
    <3>4. kernel'[s] = 0 \/ s \in doubled'
      BY <1>3, <3>2, <3>3 DEF Counted
    <3>5. kernel'[s] = 0 => Has(s, v)'
      BY <1>3, <2>3 DEF Has
    <3>6. Counted'
      BY <3>2, <3>3, <3>4 DEF Counted
    <3>7. \A x \in Setting : x # s => (x \in doubled' <=> x \in doubled)
      BY <3>2
    <3>8. QED BY <3>2, <3>3, <3>4, <3>5, <3>6, <3>7, ActedAsked, ActedOthers
  <2>4. QED BY <2>1, <2>2, <2>3
<1>4. QED BY <1>2, <1>3 DEF Handle

LEMMA InsertEffect ==
    ASSUME TypeOK, Counted, NEW t \in Thread, Insert(t), NEW m, m = adding[t]
    PROVE  /\ m[1] \in Setting /\ m = <<m[1], m[2]>> /\ Others(m[1]) /\ Counted' /\ Asked(m[1], m[2])
<1>1. m \in Event /\ IsRule(m[1]) /\ Given(m[1], m[2]) = 0
  BY DEF TypeOK, Insert, Free
<1>2. m[1] \in Setting /\ m = <<m[1], m[2]>>
  BY <1>1, EventParts
<1>3. /\ kernel' = [kernel EXCEPT ![m[1]] = @ + 1]
      /\ doubled' = IF kernel[m[1]] > 0 THEN doubled \cup {m[1]} ELSE doubled
      /\ Acted(m[1], m[2])
  BY DEF Insert
<1>4. /\ kernel'[m[1]] = kernel[m[1]] + 1 /\ kernel[m[1]] \in Nat
      /\ \A x \in Setting : x # m[1] => kernel'[x] = kernel[x]
  BY <1>2, <1>3 DEF TypeOK
<1>5. Has(m[1], m[2])'
  BY <1>1, <1>4 DEF Has
<1>6. Counted'
  BY <1>3, <1>4 DEF Counted
<1>7. QED BY <1>2, <1>3, <1>4, <1>5, <1>6, ActedAsked, ActedOthers

LEMMA LinksSame ==
    ASSUME Links, LinksTold, UNCHANGED <<links, cache, news, fresh>>, Alive' => Alive
    PROVE  Links' /\ LinksTold'
BY DEF Links, LinksTold

LEMMA LinksChange ==
    ASSUME TypeOK, Links, LinksTold, NEW l \in Link, NEW i \in 0 .. MaxIndex, i \in {0, fresh},
           i < fresh', fresh <= fresh', fresh' \in Nat, SetLink(l, i)
    PROVE  Links' /\ LinksTold'
<1>. DEFINE Index == 0 .. MaxIndex
<1>1. /\ Index \in SUBSET Nat /\ i \in Nat /\ i \in Index
      /\ links \in [Link -> Nat] /\ cache \in [Link -> Nat] /\ news \in Seq(Link \X Index)
      /\ fresh \in Nat
  BY DEF TypeOK
<1>. HIDE DEF Index
<1>2. Links'
  <2>1. /\ Follows(Link, [links EXCEPT ![l] = i], cache, news, fresh')
        /\ Follows(Link, [links EXCEPT ![l] = i], cache, Append(news, <<l, i>>), fresh')
    BY <1>1, FollowsChange, Zenon DEF Links
  <2>2. QED BY <2>1 DEF Links, SetLink
<1>3. LinksTold'
  <2>1. Alive => Announced(Link, [links EXCEPT ![l] = i], cache, Append(news, <<l, i>>))
    BY <1>1, AnnouncedChange, Zenon DEF LinksTold
  <2>2. QED BY <2>1 DEF LinksTold, Alive, SetLink
<1>4. QED BY <1>2, <1>3

LEMMA LinksNext ==
    ASSUME TypeOK, Links, LinksTold, [Next]_vars PROVE Links' /\ LinksTold'
<1> USE DEF linkvars
<1>1. CASE Start
  BY <1>1, FollowsCopy DEF Links, LinksTold, Start, NothingUnderWay
<1>2. CASE Gone /\ phase' = "down"
  <2>1. UNCHANGED <<links, cache, fresh>> /\ news' = <<>>
    BY <1>2 DEF Gone, NothingUnderWay
  <2>2. Follows(Link, links, cache, <<>>, fresh)
    BY EmptyQueue DEF Links, Follows, Numbered, Steady, Final
  <2>3. QED BY <1>2, <2>1, <2>2 DEF Links, LinksTold, Alive
<1>3. CASE Receive
  <2>1. /\ (0 .. MaxIndex) \in SUBSET Nat
        /\ links \in [Link -> Nat] /\ cache \in [Link -> Nat]
        /\ news \in Seq(Link \X (0 .. MaxIndex)) /\ fresh \in Nat /\ news # <<>> /\ Alive
    BY <1>3 DEF TypeOK, Receive
  <2>2. /\ Follows(Link, links, [cache EXCEPT ![Head(news)[1]] = Head(news)[2]], Tail(news), fresh)
        /\ Announced(Link, links, [cache EXCEPT ![Head(news)[1]] = Head(news)[2]], Tail(news))
    BY <2>1, FollowsTake, AnnouncedTake, Zenon DEF Links, LinksTold
  <2>3. QED BY <1>3, <2>2 DEF Links, LinksTold, Receive
<1>4. CASE LinkUp
  <2>1. PICK l \in Link : SetLink(l, fresh)
    BY <1>4 DEF LinkUp
  <2>2. fresh \in 0 .. MaxIndex /\ fresh < fresh' /\ fresh <= fresh' /\ fresh' \in Nat
    BY <1>4 DEF LinkUp, TypeOK
  <2>3. QED BY <2>1, <2>2, LinksChange
<1>5. CASE LinkGone
  <2>1. PICK l \in Link : SetLink(l, 0)
    BY <1>5 DEF LinkGone
  <2>2. 0 \in 0 .. MaxIndex /\ 0 < fresh' /\ fresh <= fresh' /\ fresh' \in Nat
    BY <1>5 DEF LinkGone, TypeOK
  <2>3. QED BY <2>1, <2>2, LinksChange
<1>6. ASSUME NEW t \in Thread, Rewatch(t) \/ Insert(t) PROVE Links' /\ LinksTold'
  BY <1>6, LinksSame DEF Rewatch, Insert, Alive
<1>7. ASSUME NEW t \in Thread, NEW s, NEW v, Handle(t, s, v), UNCHANGED <<linkvars, news, cache>>
      PROVE  Links' /\ LinksTold'
  <2>1. Alive' => Alive
    BY <1>7 DEF Handle, Rule, LookFor, Delete, Change, Sysctl, NoRequest, Alive
  <2>2. QED BY <1>7, <2>1, LinksSame
<1>8. CASE Deliver \/ \E t \in Thread : Tell(t)
  BY <1>7, <1>8 DEF Deliver, Tell, Thread
<1>9. CASE Watch \/ Load \/ Unwatch \/ Edit \/ UNCHANGED vars
  BY <1>9, LinksSame DEF Watch, Load, Unwatch, Edit, vars, Alive
<1>10. CASE Open
  BY <1>2, <1>10, LinksSame DEF Open, Alive
<1>11. QED
  BY <1>1, <1>2, <1>3, <1>4, <1>5, <1>6, <1>8, <1>9, <1>10
  DEF Next, MainStep, NetlinkStep, CallbackStep, Close, Crash

LEMMA QueueNext ==
    ASSUME TypeOK, OnlyWatched, Corrected, [Next]_vars PROVE OnlyWatched' /\ Corrected'
<1> USE DEF clients, Watching
<1>. queue \in Seq(Event) /\ cfg \in [Setting -> Int \cup {NULL}]
  BY DEF TypeOK
<1>1. CASE queue' = <<>> /\ UNCHANGED cfg
  BY <1>1, EmptyQueue DEF OnlyWatched, Corrected
<1>2. CASE UNCHANGED <<queue, cfg>> /\ (Watching => Watching')
  BY <1>2 DEF OnlyWatched, Corrected
<1>3. ASSUME NEW t \in Thread, NEW s, NEW v, Handle(t, s, v) PROVE Watching => Watching'
  BY <1>3 DEF Handle, Rule, LookFor, Delete, Change, Sysctl, NoRequest
<1>4. ASSUME NEW t \in Thread, Tell(t) PROVE OnlyWatched' /\ Corrected'
  <2>1. UNCHANGED <<queue, cfg>> /\ (Watching => Watching')
    BY <1>3, <1>4 DEF Tell
  <2>2. QED BY <1>2, <2>1
<1>5. CASE Deliver
  <2>1. queue # <<>> /\ queue' = Tail(queue) /\ UNCHANGED cfg /\ Watching'
    BY <1>3, <1>5 DEF Deliver, Thread
  <2>2. \A s \in Setting : Says(queue', s, cfg[s])
    BY <2>1, TailSays DEF Corrected
  <2>3. QED BY <2>1, <2>2 DEF OnlyWatched, Corrected
<1>6. CASE Edit
  <2>1. PICK s, v :
            /\ s \in inUse /\ v \in Candidates[s] \cup {NULL}
            /\ cfg' = [cfg EXCEPT ![s] = v]
            /\ IF Watching THEN queue' = Append(queue, <<s, v>>) ELSE UNCHANGED queue
    BY <1>6 DEF Edit
  <2>2. UNCHANGED phase /\ s \in Setting /\ <<s, v>> \in Event /\ <<s, v>>[1] = s /\ <<s, v>>[2] = v
    BY <1>6, <2>1, EventParts DEF Edit, TypeOK
  <2>3. CASE Watching
    <3>1. /\ Says(Append(queue, <<s, v>>), s, v)
          /\ \A k, w : k # s /\ Says(queue, k, w) => Says(Append(queue, <<s, v>>), k, w)
      BY <2>2, AppendSays, Zenon
    <3>2. Corrected'
      <4>1. ASSUME NEW x \in Setting PROVE Says(queue', x, cfg'[x])
        <5>1. CASE x = s
          BY <2>1, <2>2, <2>3, <3>1, <5>1
        <5>2. CASE x # s
          <6>1. cfg'[x] = cfg[x] /\ Says(queue, x, cfg[x])
            BY <2>1, <5>2 DEF Corrected
          <6>2. Says(Append(queue, <<s, v>>), x, cfg[x])
            BY <3>1, <5>2, <6>1, Zenon
          <6>3. QED BY <2>1, <2>3, <6>1, <6>2, Zenon
        <5>3. QED BY <5>1, <5>2
      <4>2. QED BY <4>1 DEF Corrected
    <3>3. QED BY <2>2, <2>3, <3>2 DEF OnlyWatched
  <2>4. CASE ~Watching
    BY <2>1, <2>2, <2>4, EmptyQueue DEF OnlyWatched, Corrected
  <2>5. QED BY <2>3, <2>4
<1>7. CASE MainStep
  BY <1>1, <1>2, <1>7
  DEF MainStep, Start, Open, Watch, Load, Unwatch, Close, Crash, Gone
<1>8. ASSUME NEW t \in Thread, Rewatch(t) \/ Insert(t) PROVE OnlyWatched' /\ Corrected'
  BY <1>2, <1>8 DEF Rewatch, Insert
<1>9. CASE Receive \/ LinkUp \/ LinkGone \/ UNCHANGED vars
  BY <1>2, <1>9 DEF Receive, LinkUp, LinkGone, SetLink, vars
<1>10. QED
  BY <1>4, <1>5, <1>6, <1>7, <1>8, <1>9 DEF Next, NetlinkStep, CallbackStep

------------------------------------------------------------------------------
(* Settings that are not configured.                                       *)

\* What is not configured has its default, or the kernel's own value, or an event to
\* that end is to come.
Explained ==
    \A s \in Setting \ missed :
        cfg[s] = NULL /\ Exists(s) /\ ~Excused(s) =>
            Pending(s) \/ Has(s, NULL) \/ kernel[s] = Factory[s]

AInv ==
    /\ TypeOK /\ Links /\ LinksTold /\ OnlyWatched /\ Corrected
    /\ Counted /\ Untouched /\ Explained

\* The oldest event says what is configured, or is followed by one of its setting.
LEMMA DeliverPending ==
    ASSUME TypeOK, Corrected, Deliver, NEW m, m = Head(queue)
    PROVE  /\ m[1] \in Setting /\ m \in Event /\ m = <<m[1], m[2]>>
           /\ Handle("apteryx", m[1], m[2]) /\ Watching
           /\ m[2] = cfg[m[1]] \/ Pending(m[1])'
           /\ \A s : s # m[1] => (Pending(s) <=> Pending(s)')
<1>1. /\ queue \in Seq(Event) /\ queue # <<>> /\ queue' = Tail(queue)
      /\ Handle("apteryx", m[1], m[2]) /\ Watching
  BY DEF TypeOK, Deliver
<1>2. m \in Event /\ m[1] \in Setting /\ m = <<m[1], m[2]>>
  BY <1>1, TailIndices, EventParts
<1>3. \A s : Of(queue, s) <=> Of(Tail(queue), s) \/ s = m[1]
  BY <1>1, TailOf, Zenon
<1>4. \A s : s # m[1] => (Pending(s) <=> Pending(s)')
  BY <1>1, <1>3 DEF Pending, Of
<1>5. Says(queue, m[1], cfg[m[1]])
  BY <1>2 DEF Corrected
<1>6. m[2] = cfg[m[1]] \/ Of(Tail(queue), m[1])
  BY <1>1, <1>5, TailSays, Zenon
<1>7. Of(Tail(queue), m[1]) => Pending(m[1])'
  BY <1>1 DEF Pending, Of
<1>8. QED BY <1>1, <1>2, <1>4, <1>6, <1>7

LEMMA HandleUntouched ==
    ASSUME AInv, NEW t \in Thread, NEW s \in Setting, NEW v, Handle(t, s, v),
           UNCHANGED <<links, cache>>
    PROVE  Untouched'
<1>1. CASE IsLink(s)
  <2>1. ~IsRule(s)
    BY <1>1, RuleNoLink
  <2>2. CASE UNCHANGED kernel
    BY <2>2 DEF AInv, Untouched
  <2>3. CASE kernel' = [kernel EXCEPT ![s] = Given(s, v)] /\ links[s[2]] = cache[s[2]]
    BY <2>3 DEF AInv, TypeOK, Untouched
  <2>4. QED BY <1>1, <2>1, <2>2, <2>3 DEF Handle, Change, NoRequest
<1>2. CASE ~IsLink(s)
  <2>1. \A x \in Setting : IsLink(x) => kernel'[x] = kernel[x]
    BY <1>2 DEF Handle, Rule, LookFor, Delete, Sysctl, NoRequest, AInv, TypeOK
  <2>2. QED BY <2>1 DEF AInv, Untouched
<1>3. QED BY <1>1, <1>2

LEMMA HandleExplained ==
    ASSUME AInv, NEW t \in Thread, NEW s \in Setting, NEW v, <<s, v>> \in Event, Handle(t, s, v),
           Free(t), UNCHANGED <<cfg, links, cache>>,
           \A x \in Setting : x # s /\ Pending(x) => Pending(x)',
           (Pending(s) => Pending(s)') \/ (v = cfg[s] /\ Watching)
    PROVE  Explained'
<1> SUFFICES ASSUME NEW x \in Setting, x \notin missed', cfg[x] = NULL, Exists(x), ~Excused(x)'
             PROVE  Pending(x)' \/ Has(x, NULL)' \/ kernel'[x] = Factory[x]
  BY DEF Explained, Exists
<1>1. /\ Others(s)
      /\ \/ UNCHANGED <<kernel, history>> /\ Refused(t, s, v)
         \/ Asked(s, v)
  BY HandleEffect DEF AInv
<1>2. CASE x # s
  <2>1. kernel'[x] = kernel[x] /\ x \notin missed /\ ~Excused(x)
    BY <1>1, <1>2 DEF Others
  <2>2. Has(x, NULL) => Has(x, NULL)'
    BY <2>1 DEF Has
  <2>3. QED BY <1>2, <2>1, <2>2 DEF AInv, Explained
<1>3. CASE x = s /\ Asked(s, v)
  BY <1>3 DEF Asked, Excused
<1>4. CASE x = s /\ UNCHANGED <<kernel, history>> /\ Refused(t, s, v)
  <2>1. x \notin missed /\ ~Excused(x)
    BY <1>4 DEF history, Excused
  <2>2. Pending(x) \/ Has(x, NULL) \/ kernel[x] = Factory[x]
    BY <2>1 DEF AInv, Explained
  <2>3. Has(x, NULL) => Has(x, NULL)'
    BY <1>4 DEF Has
  <2>4. CASE Pending(x) => Pending(x)'
    BY <1>4, <2>2, <2>3, <2>4
  <2>5. CASE v = cfg[s] /\ Watching
    <3>1. phase \notin {"registered", "cached"} /\ v = NULL
      BY <1>4, <2>5 DEF Watching
    <3>2. IsLink(s) /\ cache[s[2]] # links[s[2]] /\ links[s[2]] # 0
      BY <1>4, <3>1, RuleDefault DEF Refused, Known, Exists
    <3>3. QED BY <1>4, <3>2 DEF AInv, Untouched
  <2>6. QED BY <1>4, <2>4, <2>5
<1>5. QED BY <1>1, <1>2, <1>3, <1>4

LEMMA CallbackNext ==
    ASSUME AInv, Deliver \/ \E t \in Thread : Tell(t) \/ Insert(t)
    PROVE  Counted' /\ Untouched' /\ Explained'
<1>1. CASE Deliver
  <2>1. PICK m : m = Head(queue)
    OBVIOUS
  <2>2. /\ m[1] \in Setting /\ m \in Event /\ m = <<m[1], m[2]>>
        /\ Handle("apteryx", m[1], m[2]) /\ Watching
        /\ m[2] = cfg[m[1]] \/ Pending(m[1])'
        /\ \A s : s # m[1] => (Pending(s) <=> Pending(s)')
    BY <1>1, <2>1, DeliverPending DEF AInv
  <2>3. UNCHANGED <<cfg, links, cache>> /\ Free("apteryx") /\ "apteryx" \in Thread
    BY <1>1 DEF Deliver, clients, linkvars, Thread
  <2>4. Untouched'
    BY <2>2, <2>3, HandleUntouched
  <2>5. Explained'
    BY <2>2, <2>3, HandleExplained
  <2>6. Counted'
    BY <2>2, <2>3, HandleEffect DEF AInv
  <2>7. QED BY <2>4, <2>5, <2>6
<1>2. ASSUME NEW t \in Thread, Tell(t) PROVE Counted' /\ Untouched' /\ Explained'
  <2>1. PICK m \in held[t] : Handle(t, m[1], m[2])
    BY <1>2 DEF Tell
  <2>2. m \in Event /\ m[1] \in Setting /\ m = <<m[1], m[2]>>
    BY <2>1, EventParts DEF AInv, TypeOK
  <2>3. UNCHANGED <<cfg, links, cache, queue>> /\ Free(t)
    BY <1>2 DEF Tell, clients, linkvars
  <2>4. \A x : Pending(x) => Pending(x)'
    BY <2>3 DEF Pending
  <2>5. Untouched'
    BY <2>1, <2>2, <2>3, HandleUntouched
  <2>6. Explained'
    BY <2>1, <2>2, <2>3, <2>4, HandleExplained
  <2>7. Counted'
    BY <2>1, <2>2, HandleEffect DEF AInv
  <2>8. QED BY <2>5, <2>6, <2>7
<1>3. ASSUME NEW t \in Thread, Insert(t) PROVE Counted' /\ Untouched' /\ Explained'
  <2>1. PICK m : m = adding[t]
    OBVIOUS
  <2>2. m[1] \in Setting /\ Others(m[1]) /\ Counted' /\ Asked(m[1], m[2])
    BY <1>3, <2>1, InsertEffect DEF AInv
  <2>3. UNCHANGED <<cfg, links, cache, queue>> /\ IsRule(m[1])
    BY <1>3, <2>1 DEF Insert, clients, linkvars, AInv, TypeOK
  <2>4. \A x \in Setting : x # m[1] => kernel'[x] = kernel[x] /\ (x \in missed' <=> x \in missed)
                                       /\ (Excused(x)' <=> Excused(x))
    BY <2>2 DEF Others
  <2>5. Untouched'
    BY <2>3, <2>4, RuleNoLink DEF AInv, Untouched
  <2>6. ASSUME NEW x \in Setting, x \notin missed', cfg[x] = NULL, Exists(x), ~Excused(x)'
        PROVE  Pending(x)' \/ Has(x, NULL)' \/ kernel'[x] = Factory[x]
    <3>1. CASE x = m[1]
      BY <2>2, <2>6, <3>1 DEF Asked, Excused
    <3>2. CASE x # m[1]
      BY <2>3, <2>4, <2>6, <3>2 DEF AInv, Explained, Pending, Has
    <3>3. QED BY <3>1, <3>2
  <2>7. Explained'
    BY <2>3, <2>6 DEF Explained, Exists
  <2>8. QED BY <2>2, <2>5, <2>7
<1>4. QED BY <1>1, <1>2, <1>3

LEMMA SetLinkNext ==
    ASSUME AInv, NEW l \in Link, NEW i \in 0 .. MaxIndex, SetLink(l, i)
    PROVE  Counted' /\ Untouched' /\ Explained'
<1>1. /\ UNCHANGED <<cfg, queue, cache, doubled>>
      /\ \A x \in Setting : x[2] = l => kernel'[x] = Factory[x]
      /\ \A x \in Setting : x[2] # l =>
             /\ kernel'[x] = kernel[x] /\ (x \in missed' <=> x \in missed)
             /\ (x \in raced' <=> x \in raced) /\ (x \in bare' <=> x \in bare)
  BY DEF SetLink, clients, On
<1>2. \A k \in Link : k # l => links'[k] = links[k]
  BY DEF SetLink, AInv, TypeOK
<1>3. Counted'
  BY <1>1 DEF AInv, Counted
<1>4. Untouched'
  BY <1>1, <1>2 DEF AInv, Untouched
<1>5. ASSUME NEW x \in Setting, x \notin missed', cfg[x] = NULL, Exists(x)', ~Excused(x)'
      PROVE  Pending(x)' \/ Has(x, NULL)' \/ kernel'[x] = Factory[x]
  <2>1. CASE x[2] # l
    <3>1. Exists(x) /\ x \notin missed /\ ~Excused(x) /\ kernel'[x] = kernel[x]
      BY <1>1, <1>2, <1>5, <2>1 DEF Exists, Excused
    <3>2. Has(x, NULL) => Has(x, NULL)'
      BY <3>1 DEF Has
    <3>3. Pending(x) => Pending(x)'
      BY <1>1 DEF Pending
    <3>4. QED BY <1>5, <3>1, <3>2, <3>3 DEF AInv, Explained
  <2>2. QED BY <1>1, <2>1
<1>6. Explained'
  BY <1>1, <1>5 DEF Explained
<1>7. QED BY <1>3, <1>4, <1>6

LEMMA EditNext == ASSUME AInv, Edit PROVE Counted' /\ Untouched' /\ Explained'
<1>1. PICK s, v :
          /\ s \in inUse /\ v \in Candidates[s] \cup {NULL}
          /\ cfg' = [cfg EXCEPT ![s] = v]
          /\ \/ queue' = Append(queue, <<s, v>>) /\ UNCHANGED missed
             \/ missed' = missed \cup {s} /\ UNCHANGED queue
  BY DEF Edit
<1>2. /\ UNCHANGED <<links, cache, kernel, raced, bare, doubled>>
      /\ s \in Setting /\ <<s, v>> \in Event /\ <<s, v>>[1] = s /\ queue \in Seq(Event)
  BY <1>1, EventParts DEF Edit, AInv, TypeOK, linkvars
<1>3. Counted' /\ Untouched'
  BY <1>2 DEF AInv, Counted, Untouched
<1>4. (\A x : Pending(x) => Pending(x)') /\ (s \notin missed' => Pending(s)')
  <2>1. CASE queue' = Append(queue, <<s, v>>) /\ UNCHANGED missed
    <3>1. \A x : Of(queue', x) <=> Of(queue, x) \/ x = s
      BY <1>2, <2>1, AppendOf
    <3>2. QED BY <3>1 DEF Pending, Of
  <2>2. CASE missed' = missed \cup {s} /\ UNCHANGED queue
    BY <2>2 DEF Pending
  <2>3. QED BY <1>1, <2>1, <2>2
<1>5. ASSUME NEW x \in Setting, x \notin missed', cfg'[x] = NULL, Exists(x), ~Excused(x)
      PROVE  Pending(x)' \/ Has(x, NULL) \/ kernel[x] = Factory[x]
  <2>1. CASE x = s
    BY <1>4, <1>5, <2>1
  <2>2. CASE x # s
    <3>1. cfg[x] = NULL /\ x \notin missed
      BY <1>1, <1>5, <2>2 DEF AInv, TypeOK
    <3>2. QED BY <1>4, <1>5, <3>1 DEF AInv, Explained
  <2>3. QED BY <2>1, <2>2
<1>6. Explained'
  BY <1>2, <1>5 DEF Explained, Exists, Excused, Has
<1>7. QED BY <1>3, <1>6

LEMMA OtherNext ==
    ASSUME AInv, \/ MainStep \/ Receive \/ UNCHANGED vars
                 \/ \E t \in Thread : Rewatch(t)
    PROVE  Counted' /\ Untouched' /\ Explained'
<1> USE DEF clients, linkvars, history
<1>1. UNCHANGED <<cfg, links, kernel, raced, bare, doubled>>
  BY DEF MainStep, Start, Open, Watch, Load, Unwatch, Close, Crash, Gone, Receive, Rewatch, vars
<1>2. Counted'
  BY <1>1 DEF AInv, Counted
<1>3. \/ cache' = cache \/ cache' = links
      \/ Receive
  BY DEF MainStep, Start, Open, Watch, Load, Unwatch, Close, Crash, Gone, Receive, Rewatch, vars
<1>4. Untouched'
  <2>1. CASE cache' = cache \/ cache' = links
    BY <1>1, <2>1 DEF AInv, Untouched
  <2>2. CASE Receive
    <3>1. news \in Seq(Link \X (0 .. MaxIndex)) /\ news # <<>>
      BY <2>2 DEF Receive, AInv, TypeOK
    <3>2. \A l \in Link : links[l] # 0 /\ cache[l] = links[l] => l # Head(news)[1]
      BY <3>1, FollowsNext DEF AInv, Links
    <3>3. \A l \in Link : l # Head(news)[1] => cache'[l] = cache[l]
      BY <2>2 DEF Receive, AInv, TypeOK
    <3>4. \A s \in Setting : IsLink(s) => s[2] \in Link
      OBVIOUS
    <3>5. QED BY <1>1, <3>2, <3>3, <3>4 DEF AInv, Untouched
  <2>3. QED BY <1>3, <2>1, <2>2
<1>5. \/ UNCHANGED <<queue, missed>>
      \/ missed' = missed \cup {s \in Setting : Pending(s)}
  BY DEF MainStep, Start, Open, Watch, Load, Unwatch, Close, Crash, Gone, Receive, Rewatch, vars
<1>6. Explained'
  BY <1>1, <1>5 DEF AInv, Explained, Pending, Exists, Excused, Has
<1>7. QED BY <1>2, <1>4, <1>6

LEMMA InitAInv == Init => AInv
<1> SUFFICES ASSUME Init PROVE AInv
  OBVIOUS
<1>1. Links /\ LinksTold
  BY EmptyQueue DEF Init, Links, LinksTold, Follows, Numbered, Steady, Final, Alive
<1>2. OnlyWatched /\ Corrected
  BY EmptyQueue DEF Init, OnlyWatched, Corrected
<1>3. Counted /\ Untouched /\ Explained
  BY DEF Init, Counted, Untouched, Explained
<1>4. QED BY <1>1, <1>2, <1>3, InitType DEF AInv

LEMMA NextAInv == AInv /\ [Next]_vars => AInv'
<1> SUFFICES ASSUME AInv, [Next]_vars PROVE AInv'
  OBVIOUS
<1>1. TypeOK' /\ Links' /\ LinksTold' /\ OnlyWatched' /\ Corrected'
  BY NextType, LinksNext, QueueNext DEF AInv
<1>2. CASE LinkUp \/ LinkGone
  <2>1. PICK l \in Link, i \in 0 .. MaxIndex : SetLink(l, i)
    BY <1>2 DEF LinkUp, LinkGone, AInv, TypeOK
  <2>2. QED BY <1>1, <2>1, SetLinkNext DEF AInv
<1>3. CASE Edit
  BY <1>1, <1>3, EditNext DEF AInv
<1>4. CASE Deliver \/ \E t \in Thread : Tell(t) \/ Insert(t)
  BY <1>1, <1>4, CallbackNext DEF AInv
<1>5. CASE MainStep \/ Receive \/ UNCHANGED vars \/ \E t \in Thread : Rewatch(t)
  BY <1>1, <1>5, OtherNext DEF AInv
<1>6. QED BY <1>2, <1>3, <1>4, <1>5 DEF Next, NetlinkStep, CallbackStep

LEMMA AInvariance == Spec => []AInv
BY InitAInv, NextAInv, PTL DEF Spec

\* Once all is quiet, a setting that is not configured has its default, or the value
\* the kernel gave it: the event of its removal came after all others (Corrected),
\* and was refused only if the kernel's own value was still there (Untouched).
THEOREM AlwaysReverted == Spec => []Reverted
<1>1. AInv => Reverted
  <2>1. queue = <<>> => \A s : ~Pending(s)
    BY DEF Pending
  <2>2. QED BY <2>1 DEF AInv, Explained, Reverted, Quiescent
<1>2. QED BY <1>1, AInvariance, PTL

------------------------------------------------------------------------------
(* Settings that are configured.                                           *)

\* Some thread is yet to act on what is configured: for an event, once it is told of
\* the link, for a snapshot it will take, for a leaf of one, or to insert the rule.
ToCome(s) ==
    \/ Pending(s) \/ (IsLink(s) /\ Of(news, s[2]))
    \/ \E t \in Thread : Tree(s) \in work[t] \/ <<s, cfg[s]>> \in held[t] \cup {adding[t]}

\* Once the modules load their configuration, it has taken effect or is to.
Served ==
    phase \in {"loading", "running"} =>
        \A s \in Setting : cfg[s] # NULL /\ Exists(s) /\ ~Excused(s) => Has(s, cfg[s]) \/ ToCome(s)

\* Acting on a leaf, or inserting a rule, serves its setting, or a link has to come.
LEMMA ActServed ==
    ASSUME AInv, Served, NEW t \in Thread, NEW s \in Setting, NEW v, Others(s),
           \/ UNCHANGED <<kernel, history>> /\ Refused(t, s, v)
           \/ Asked(s, v),
           phase' = phase \/ phase' = "crashed", UNCHANGED <<cfg, links, cache, news>>,
           \A x \in Setting : (x = s /\ v = cfg[s]) \/ (ToCome(x) => ToCome(x)')
    PROVE  Served'
<1> SUFFICES ASSUME phase' \in {"loading", "running"}, NEW x \in Setting, cfg[x] # NULL,
                    Exists(x), ~Excused(x)'
             PROVE  Has(x, cfg[x])' \/ ToCome(x)'
  BY DEF Served, Exists
<1>1. phase \in {"loading", "running"} /\ Alive
  BY DEF Alive
<1>2. CASE ~(x = s /\ v = cfg[s])
  <2>1. CASE x # s \/ UNCHANGED <<kernel, history>>
    <3>1. ~Excused(x) /\ kernel'[x] = kernel[x]
      BY <2>1 DEF Others, Excused, history
    <3>2. Has(x, cfg[x]) => Has(x, cfg[x])'
      BY <3>1 DEF Has
    <3>3. QED BY <1>1, <1>2, <3>1, <3>2 DEF Served
  <2>2. CASE x = s /\ Asked(s, v)
    <3>1. Pending(s)'
      BY <1>2, <2>2 DEF Asked, Excused
    <3>2. QED BY <2>2, <3>1 DEF ToCome
  <2>3. QED BY <2>1, <2>2
<1>3. CASE x = s /\ v = cfg[s] /\ Asked(s, v)
  <2>1. Has(s, v)' \/ Pending(s)'
    BY <1>3 DEF Asked, Excused
  <2>2. CASE Pending(s)'
    BY <1>3, <2>2 DEF ToCome
  <2>3. CASE Has(s, v)'
    BY <1>3, <2>3 DEF Has
  <2>4. QED BY <2>1, <2>2, <2>3
<1>4. CASE x = s /\ v = cfg[s] /\ Refused(t, s, v)
  <2>1. CASE IsLink(s) /\ (Known(s[2]) = 0 \/ cache[s[2]] # links[s[2]])
    <3>1. s[2] \in Link /\ links[s[2]] # 0
      BY <1>4, <2>1 DEF Exists
    <3>2. cache[s[2]] # links[s[2]]
      BY <1>1, <2>1, <3>1 DEF Known
    <3>3. Of(news, s[2])
      BY <1>1, <3>1, <3>2 DEF AInv, LinksTold, Announced
    <3>4. QED BY <1>4, <2>1, <3>3 DEF ToCome
  <2>2. CASE adding' = [adding EXCEPT ![t] = <<s, v>>]
    <3>1. adding'[t] = <<s, v>>
      BY <2>2 DEF AInv, TypeOK
    <3>2. QED BY <1>4, <3>1 DEF ToCome
  <2>3. QED BY <1>1, <1>4, <2>1, <2>2 DEF Refused
<1>5. QED BY <1>2, <1>3, <1>4

LEMMA HandleServed ==
    ASSUME AInv, Served, NEW t \in Thread, NEW s \in Setting, NEW v, <<s, v>> \in Event,
           Handle(t, s, v), Free(t), UNCHANGED <<cfg, links, cache, news, work>>,
           \A x \in Setting : \/ x = s /\ v = cfg[s]
                              \/ Pending(x) => ToCome(x)',
           \A x \in Setting : \/ x = s /\ v = cfg[s]
                              \/ \A u \in Thread : <<x, cfg[x]>> \in held[u] =>
                                                       <<x, cfg[x]>> \in held'[u]
    PROVE  Served'
<1>1. /\ Others(s)
      /\ \/ UNCHANGED <<kernel, history>> /\ Refused(t, s, v)
         \/ Asked(s, v)
      /\ phase' = phase \/ phase' = "crashed"
      /\ adding' = adding \/ adding' = [adding EXCEPT ![t] = <<s, v>>]
  BY HandleEffect DEF AInv, Free
<1>2. ASSUME NEW x \in Setting, ~(x = s /\ v = cfg[s]), ToCome(x) PROVE ToCome(x)'
  <2>1. CASE Pending(x)
    BY <1>2, <2>1
  <2>2. CASE \/ IsLink(x) /\ Of(news, x[2])
             \/ \E u \in Thread : Tree(x) \in work[u] \/ <<x, cfg[x]>> \in held[u]
    BY <1>2, <2>2 DEF ToCome
  <2>3. ASSUME NEW u \in Thread, <<x, cfg[x]>> = adding[u] PROVE ToCome(x)'
    <3>1. <<x, cfg[x]>> # NULL
      BY NullAssumption DEF AInv, TypeOK
    <3>2. u # t
      BY <2>3, <3>1 DEF Free
    <3>3. adding'[u] = adding[u]
      BY <1>1, <3>2 DEF AInv, TypeOK
    <3>4. QED BY <2>3, <3>3 DEF ToCome
  <2>4. QED BY <1>2, <2>1, <2>2, <2>3 DEF ToCome
<1>3. QED BY <1>1, <1>2, ActServed

LEMMA CallbackServed ==
    ASSUME AInv, Served, Deliver \/ \E t \in Thread : Tell(t) \/ Insert(t) PROVE Served'
<1>1. CASE Deliver
  <2>1. PICK m : m = Head(queue)
    OBVIOUS
  <2>2. /\ m[1] \in Setting /\ m \in Event /\ m = <<m[1], m[2]>>
        /\ Handle("apteryx", m[1], m[2])
        /\ m[2] = cfg[m[1]] \/ Pending(m[1])'
        /\ \A s : s # m[1] => (Pending(s) <=> Pending(s)')
    BY <1>1, <2>1, DeliverPending DEF AInv
  <2>3. /\ UNCHANGED <<cfg, links, cache, news, work, held>>
        /\ Free("apteryx") /\ "apteryx" \in Thread
    BY <1>1 DEF Deliver, clients, linkvars, Thread
  <2>4. \A x \in Setting : (x = m[1] /\ m[2] = cfg[m[1]]) \/ (Pending(x) => ToCome(x)')
    BY <2>2 DEF ToCome
  <2>5. QED BY <2>2, <2>3, <2>4, HandleServed
<1>2. ASSUME NEW t \in Thread, Tell(t) PROVE Served'
  <2>1. PICK m \in held[t] : Handle(t, m[1], m[2]) /\ held' = [held EXCEPT ![t] = @ \ {m}]
    BY <1>2 DEF Tell
  <2>2. m \in Event /\ m[1] \in Setting /\ m = <<m[1], m[2]>>
    BY <2>1, EventParts DEF AInv, TypeOK
  <2>3. UNCHANGED <<cfg, links, cache, news, work, queue>> /\ Free(t)
    BY <1>2 DEF Tell, clients, linkvars
  <2>4. \A x : Pending(x) => ToCome(x)'
    BY <2>3 DEF Pending, ToCome
  <2>5. ASSUME NEW x \in Setting, ~(x = m[1] /\ m[2] = cfg[m[1]]),
               NEW u \in Thread, <<x, cfg[x]>> \in held[u]
        PROVE  <<x, cfg[x]>> \in held'[u]
    <3>1. <<x, cfg[x]>> # m
      BY <2>2, <2>5
    <3>2. QED BY <2>1, <2>5, <3>1 DEF AInv, TypeOK
  <2>6. QED BY <2>1, <2>2, <2>3, <2>4, <2>5, HandleServed
<1>3. ASSUME NEW t \in Thread, Insert(t) PROVE Served'
  <2>1. PICK m : m = adding[t]
    OBVIOUS
  <2>2. m[1] \in Setting /\ m = <<m[1], m[2]>> /\ Others(m[1]) /\ Asked(m[1], m[2])
    BY <1>3, <2>1, InsertEffect DEF AInv
  <2>3. /\ UNCHANGED <<cfg, links, cache, news, work, queue, held, phase>>
        /\ adding' = [adding EXCEPT ![t] = NULL]
    BY <1>3 DEF Insert, clients, linkvars
  <2>4. ASSUME NEW x \in Setting, ~(x = m[1] /\ m[2] = cfg[m[1]]), ToCome(x) PROVE ToCome(x)'
    <3>1. \A u \in Thread : <<x, cfg[x]>> = adding[u] => adding'[u] = adding[u]
      BY <2>1, <2>2, <2>3, <2>4 DEF AInv, TypeOK
    <3>2. QED BY <2>3, <2>4, <3>1 DEF ToCome, Pending
  <2>5. QED BY <2>2, <2>3, <2>4, ActServed
<1>4. QED BY <1>1, <1>2, <1>3

LEMMA RewatchServed == ASSUME AInv, Served, NEW t \in Thread, Rewatch(t) PROVE Served'
<1>1. PICK tree \in work[t] :
          /\ work' = [work EXCEPT ![t] = @ \ {tree}]
          /\ held' = [held EXCEPT ![t] = {<<s, cfg[s]>> : s \in
                                              {x \in Within(tree) : cfg[x] # NULL}}]
  BY DEF Rewatch
<1>2. /\ UNCHANGED <<cfg, queue, links, news, kernel, adding, phase>> /\ held[t] = {}
      /\ UNCHANGED <<raced, bare, doubled>>
  BY DEF Rewatch, clients, linkvars, history
<1> SUFFICES ASSUME NEW x \in Setting, cfg[x] # NULL, ToCome(x) PROVE ToCome(x)'
  BY <1>2 DEF Served, Exists, Excused, Has
<1>3. CASE Pending(x) \/ (IsLink(x) /\ Of(news, x[2]))
  BY <1>2, <1>3 DEF ToCome, Pending
<1>4. ASSUME NEW u \in Thread, <<x, cfg[x]>> \in held[u] \cup {adding[u]} PROVE ToCome(x)'
  <2>1. <<x, cfg'[x]>> \in held'[u] \cup {adding'[u]}
    BY <1>1, <1>2, <1>4 DEF AInv, TypeOK
  <2>2. QED BY <2>1 DEF ToCome
<1>5. ASSUME NEW u \in Thread, Tree(x) \in work[u] PROVE ToCome(x)'
  <2>1. CASE u = t /\ Tree(x) = tree
    <3>1. <<x, cfg'[x]>> \in held'[t]
      BY <1>1, <1>2, <2>1 DEF Within, AInv, TypeOK
    <3>2. QED BY <3>1 DEF ToCome
  <2>2. CASE ~(u = t /\ Tree(x) = tree)
    <3>1. Tree(x) \in work'[u]
      BY <1>1, <1>5, <2>2 DEF AInv, TypeOK
    <3>2. QED BY <3>1 DEF ToCome
  <2>3. QED BY <2>1, <2>2
<1>6. QED BY <1>3, <1>4, <1>5 DEF ToCome

LEMMA LinkTree == ASSUME NEW s, IsLink(s) PROVE Tree(s) = <<"ifconfig", s[2]>>
BY DEF Tree, IsLink

LEMMA ReceiveServed == ASSUME AInv, Served, Receive PROVE Served'
<1>1. /\ news \in Seq(Link \X (0 .. MaxIndex)) /\ news # <<>> /\ news' = Tail(news) /\ Alive
      /\ UNCHANGED <<cfg, queue, links, kernel, phase, held, adding, raced, bare, doubled>>
      /\ work["netlink"] = {} /\ "netlink" \in Thread
      /\ work' = [work EXCEPT !["netlink"] = IF Head(news)[2] = 0 THEN {}
                                             ELSE {<<"ifconfig", Head(news)[1]>>}]
  BY DEF AInv, TypeOK, Receive, clients, linkvars, history, Idle, Thread
<1>2. \A k : Of(news, k) <=> Of(news', k) \/ k = Head(news)[1]
  BY <1>1, TailOf, Zenon
<1>3. Head(news)[2] = links[Head(news)[1]] \/ Of(news', Head(news)[1])
  <2>1. /\ (0 .. MaxIndex) \in SUBSET Nat /\ links \in [Link -> Nat] /\ cache \in [Link -> Nat]
        /\ Announced(Link, links, cache, news)
    BY <1>1 DEF AInv, TypeOK, LinksTold
  <2>2. QED BY <1>1, <2>1, AnnouncedTake, Zenon
<1> SUFFICES ASSUME NEW x \in Setting, Exists(x), ToCome(x) PROVE ToCome(x)'
  BY <1>1 DEF Served, Exists, Excused, Has
<1>4. CASE Pending(x)
  BY <1>1, <1>4 DEF ToCome, Pending
<1>5. CASE IsLink(x) /\ Of(news, x[2])
  <2>1. CASE Of(news', x[2])
    BY <1>5, <2>1 DEF ToCome
  <2>2. CASE ~Of(news', x[2])
    <3>1. x[2] \in Link /\ x[2] = Head(news)[1] /\ Head(news)[2] # 0
      BY <1>2, <1>3, <1>5, <2>2 DEF Exists
    <3>2. Tree(x) \in work'["netlink"]
      BY <1>1, <1>5, <3>1, LinkTree DEF AInv, TypeOK
    <3>3. QED BY <1>1, <3>2 DEF ToCome
  <2>3. QED BY <2>1, <2>2
<1>6. ASSUME NEW u \in Thread, <<x, cfg[x]>> \in held[u] \cup {adding[u]} PROVE ToCome(x)'
  BY <1>1, <1>6 DEF ToCome
<1>7. ASSUME NEW u \in Thread, Tree(x) \in work[u] PROVE ToCome(x)'
  <2>1. Tree(x) \in work'[u]
    BY <1>1, <1>7 DEF AInv, TypeOK
  <2>2. QED BY <2>1 DEF ToCome
<1>8. QED BY <1>4, <1>5, <1>6, <1>7 DEF ToCome

LEMMA EditServed == ASSUME AInv, Served, Edit PROVE Served'
<1>1. PICK s, v :
          /\ s \in inUse /\ v \in Candidates[s] \cup {NULL}
          /\ cfg' = [cfg EXCEPT ![s] = v]
          /\ IF Watching THEN queue' = Append(queue, <<s, v>>) ELSE UNCHANGED queue
  BY DEF Edit
<1>2. /\ UNCHANGED <<links, news, phase, work, held, adding, kernel, raced, bare, doubled>>
      /\ s \in Setting /\ <<s, v>> \in Event /\ <<s, v>>[1] = s /\ queue \in Seq(Event)
  BY <1>1, EventParts DEF Edit, AInv, TypeOK, linkvars, threads
<1> SUFFICES ASSUME phase \in {"loading", "running"}, NEW x \in Setting, cfg'[x] # NULL,
                    Exists(x), ~Excused(x)
             PROVE  Has(x, cfg'[x]) \/ ToCome(x)'
  BY <1>2 DEF Served, Exists, Excused, Has
<1>3. queue' = Append(queue, <<s, v>>)
  BY <1>1 DEF Watching
<1>4. \A y : Of(queue', y) <=> Of(queue, y) \/ y = s
  BY <1>2, <1>3, AppendOf
<1>5. \A y : Pending(y)' <=> Pending(y) \/ y = s
  BY <1>4 DEF Pending, Of
<1>6. CASE x = s
  BY <1>5, <1>6 DEF ToCome
<1>7. CASE x # s
  <2>1. cfg'[x] = cfg[x]
    BY <1>1, <1>7 DEF AInv, TypeOK
  <2>2. Has(x, cfg[x]) \/ ToCome(x)
    BY <2>1 DEF Served
  <2>3. ToCome(x) => ToCome(x)'
    BY <1>2, <1>5, <2>1 DEF ToCome
  <2>4. QED BY <2>1, <2>2, <2>3
<1>8. QED BY <1>6, <1>7

LEMMA SetLinkServed ==
    ASSUME AInv, Served, NEW l \in Link, NEW i \in 0 .. MaxIndex, SetLink(l, i) PROVE Served'
<1> SUFFICES ASSUME phase \in {"loading", "running"}, NEW x \in Setting, cfg[x] # NULL,
                    Exists(x)', ~Excused(x)'
             PROVE  Has(x, cfg[x])' \/ ToCome(x)'
  BY DEF Served, SetLink, clients
<1>1. /\ news \in Seq(Link \X (0 .. MaxIndex)) /\ <<l, i>> \in Link \X (0 .. MaxIndex)
      /\ news' = Append(news, <<l, i>>) /\ <<l, i>>[1] = l
      /\ UNCHANGED <<cfg, queue, work, held, adding, doubled>>
      /\ links' = [links EXCEPT ![l] = i]
  BY DEF AInv, TypeOK, SetLink, Alive, clients, threads
<1>2. \A k : Of(news', k) <=> Of(news, k) \/ k = l
  <2> DEFINE U == Link \X (0 .. MaxIndex)
             d == <<l, i>>
  <2>1. news \in Seq(U) /\ d \in U /\ news' = Append(news, d) /\ d[1] = l
    BY <1>1
  <2> HIDE DEF U, d
  <2>2. \A k : Of(Append(news, d), k) <=> Of(news, k) \/ k = d[1]
    BY <2>1, AppendOf
  <2>3. QED BY <2>1, <2>2
<1>3. CASE x[2] = l
  <2>1. i # 0
    BY <1>1, <1>3 DEF Exists, AInv, TypeOK
  <2>2. x \in bare'
    BY <1>3, <2>1 DEF SetLink, On
  <2>3. IsLink(x)
    BY <2>2 DEF Excused
  <2>4. QED BY <1>2, <1>3, <2>3 DEF ToCome
<1>4. CASE x[2] # l
  <2>1. /\ kernel'[x] = kernel[x] /\ (x \in raced' <=> x \in raced) /\ (x \in bare' <=> x \in bare)
        /\ x[2] \in Link => links'[x[2]] = links[x[2]]
    BY <1>1, <1>4 DEF SetLink, On, AInv, TypeOK
  <2>2. Exists(x) /\ ~Excused(x)
    BY <1>1, <2>1 DEF Exists, Excused
  <2>3. Has(x, cfg[x]) => Has(x, cfg[x])'
    BY <1>1, <2>1 DEF Has
  <2>4. ToCome(x) => ToCome(x)'
    BY <1>1, <1>2 DEF ToCome, Pending
  <2>5. QED BY <2>2, <2>3, <2>4 DEF Served
<1>5. QED BY <1>3, <1>4

LEMMA MainServed == ASSUME AInv, Served, MainStep PROVE Served'
<1>1. CASE phase' \notin {"loading", "running"}
  BY <1>1 DEF Served
<1>2. CASE phase = "watching" /\ phase' = "loading"
  <2>1. /\ work' = [work EXCEPT !["main"] =
                        {Tree(s) : s \in {x \in Setting : IsLink(x) => cfg[x] # NULL}}]
        /\ UNCHANGED cfg
    BY <1>2 DEF MainStep, Watch, Start, Open, Load, Unwatch, Close, Crash, clients
  <2>2. \A x \in Setting : cfg[x] # NULL => Tree(x) \in work'["main"]
    BY <2>1 DEF AInv, TypeOK, Thread
  <2>3. \A x \in Setting : cfg[x] # NULL => ToCome(x)'
    BY <2>2 DEF ToCome, Thread
  <2>4. QED BY <2>1, <2>3 DEF Served
<1>3. CASE Load /\ phase = "loading"
  <2>1. UNCHANGED <<clients, queue, linkvars, news, cache, threads, kernel, history>>
    BY <1>3 DEF Load
  <2>2. cfg' = cfg
    BY <2>1 DEF clients
  <2>3. \A x \in Setting : /\ ToCome(x) => ToCome(x)'
                           /\ Has(x, cfg[x]) => Has(x, cfg[x])'
                           /\ Exists(x)' => Exists(x)
                           /\ Excused(x) => Excused(x)'
    BY <2>1 DEF ToCome, Pending, Exists, Excused, Has, clients, linkvars, threads, history
  <2>4. SUFFICES ASSUME NEW x \in Setting, cfg[x] # NULL, Exists(x)', ~Excused(x)'
                 PROVE  Has(x, cfg[x])' \/ ToCome(x)'
    BY <2>2 DEF Served
  <2>5. Has(x, cfg[x]) \/ ToCome(x)
    BY <1>3, <2>3, <2>4 DEF Served
  <2>6. QED BY <2>3, <2>5
<1>4. QED
  BY <1>1, <1>2, <1>3 DEF MainStep, Start, Open, Watch, Load, Unwatch, Close, Crash

LEMMA ServedNext == AInv /\ Served /\ [Next]_vars => Served'
<1> SUFFICES ASSUME AInv, Served, [Next]_vars PROVE Served'
  OBVIOUS
<1>1. CASE LinkUp \/ LinkGone
  <2>1. PICK l \in Link, i \in 0 .. MaxIndex : SetLink(l, i)
    BY <1>1 DEF LinkUp, LinkGone, AInv, TypeOK
  <2>2. QED BY <2>1, SetLinkServed
<1>2. CASE UNCHANGED vars
  BY <1>2
  DEF Served, ToCome, Pending, Exists, Excused, Has, vars, clients, linkvars, threads, history
<1>3. QED
  BY <1>1, <1>2, CallbackServed, RewatchServed, ReceiveServed, EditServed, MainServed
  DEF Next, NetlinkStep, CallbackStep

\* Once all is quiet every setting whose target is there has taken effect, in whatever
\* order it, its link and the daemon came, and however the three threads took turns:
\* until then one of them has it to act on (ToCome).  Excused are a setting that an
\* outdated snapshot overtook, a rule that was inserted twice, and a sysctl of a link
\* that came later.
THEOREM AlwaysApplied == Spec => []Applied
<1>1. Init => Served
  BY DEF Init, Served
<1>2. AInv /\ Served => Applied
  <2>1. news = <<>> => \A k : ~Of(news, k)
    BY DEF Of
  <2>2. queue = <<>> => \A s : ~Pending(s)
    BY DEF Pending
  <2>3. TypeOK => \A s \in Setting : <<s, cfg[s]>> # NULL
    BY NullAssumption DEF TypeOK
  <2>4. ASSUME TypeOK, Quiescent, NEW s \in Setting PROVE ~ToCome(s)
    BY <2>1, <2>2, <2>3, <2>4 DEF ToCome, Quiescent, Idle, Free
  <2>5. QED BY <2>4 DEF Served, Applied, Quiescent, AInv
<1>3. QED BY <1>1, <1>2, ServedNext, AInvariance, PTL DEF Spec
=============================================================================
