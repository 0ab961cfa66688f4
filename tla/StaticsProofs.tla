--------------------------- MODULE StaticsProofs ---------------------------
(***************************************************************************)
(* What holds of Statics for every set of entries, links and values, every *)
(* bound and every failure: no step but a wanted one takes a configured    *)
(* object away, and once all is quiet the kernel has what is configured    *)
(* and nothing else, but for entries that raced or were edited while no    *)
(* watch was there.                                                        *)
(***************************************************************************)
EXTENDS Statics, Queues

\* The trees are watched only while there is a socket to act on events with.
InService == phase \in {"ready", "watch4", "load4", "load6", "running"} => sock = "open"

\* Events are of watched entries: none outlives its watch.
OnlyWatched == \A n \in 1 .. Len(queue) : Watching(queue[n][1])

\* An event that no longer says what is configured is followed by one that does.
Corrected ==
    \A n \in 1 .. Len(queue) :
        \/ queue[n][2] = cfg[queue[n][1]]
        \/ \E m \in 1 .. Len(queue) : m > n /\ queue[m][1] = queue[n][1]

IInv == TypeOK /\ InService /\ OnlyWatched /\ Corrected

USE NullAssumption, EntryAssumption, ContentAssumption, BoundAssumption

LEMMA InitInductive == Init => IInv
<1> SUFFICES ASSUME Init PROVE IInv
  OBVIOUS
<1> USE DEF Init
<1>1. TypeOK
  BY DEF TypeOK, Nothing, Thread, Phase, Index
<1>2. InService /\ OnlyWatched /\ Corrected
  BY DEF InService, OnlyWatched, Corrected
<1>3. QED BY <1>1, <1>2 DEF IInv

\* What acting on a leaf does to the state, whichever way it ends.
LEMMA HandleType ==
    ASSUME TypeOK, InService, NEW e \in Entry, NEW v \in Value \cup {NULL}, Handle(e, v)
    PROVE  /\ kernel' \in [Entry -> Object \cup {NULL}]
           /\ missed' \in SUBSET Entry /\ raced' \in SUBSET Entry
           /\ phase' \in Phase
           /\ phase' = phase \/ (phase' = "crashed" /\ sock = "none")
<1>1. CASE Usable(e, v) /\ sock = "none" /\ phase' = "crashed" /\ UNCHANGED <<kernel, missed, raced>>
  BY <1>1 DEF TypeOK, Phase
<1>2. CASE Usable(e, v) /\ sock = "open" /\ Accepts(e) /\ Request(e, v) /\ UNCHANGED phase
  <2>1. kernel' \in [Entry -> Object \cup {NULL}]
    BY <1>2 DEF TypeOK, Request, Usable
  <2>2. QED BY <1>2, <2>1 DEF TypeOK, Request
<1>3. CASE UNCHANGED <<kernel, missed, raced, phase>>
  BY <1>3 DEF TypeOK
<1>4. QED BY <1>1, <1>2, <1>3 DEF Handle

LEMMA RewatchInductive ==
    ASSUME IInv, NEW t \in Thread, Rewatch(t)
    PROVE  IInv'
<1>1. PICK es \in work[t] :
          /\ work' = [work EXCEPT ![t] = @ \ {es}]
          /\ held' = [held EXCEPT ![t] = {<<e, cfg[e]>> : e \in {x \in es : cfg[x] # NULL}}]
  BY DEF Rewatch
<1>2. es \in SUBSET Entry
  BY DEF IInv, TypeOK
<1>3. {<<e, cfg[e]>> : e \in {x \in es : cfg[x] # NULL}} \in SUBSET Leaf
  BY <1>2 DEF IInv, TypeOK, Leaf
<1>4. TypeOK'
  BY <1>1, <1>3 DEF IInv, TypeOK, Rewatch, tree, linkvars, life, Index
<1>5. QED BY <1>4 DEF IInv, InService, OnlyWatched, Corrected, Watching, Rewatch, tree, life

LEMMA TellInductive ==
    ASSUME IInv, NEW t \in Thread, Tell(t)
    PROVE  IInv'
<1>1. PICK m \in held[t] : /\ held' = [held EXCEPT ![t] = @ \ {m}]
                           /\ UNCHANGED queue
                           /\ Handle(m[1], m[2])
  BY DEF Tell
<1>2. m[1] \in Entry /\ m[2] \in Value \cup {NULL}
  BY <1>1 DEF IInv, TypeOK, Leaf
<1>3. /\ kernel' \in [Entry -> Object \cup {NULL}]
      /\ missed' \in SUBSET Entry /\ raced' \in SUBSET Entry
      /\ phase' \in Phase
      /\ phase' = phase \/ (phase' = "crashed" /\ sock = "none")
  BY <1>1, <1>2, HandleType DEF IInv
<1>4. UNCHANGED <<cfg, linkvars, cache, sock, work>>
  BY DEF Tell
<1>5. TypeOK'
  BY <1>1, <1>3, <1>4 DEF IInv, TypeOK, linkvars, Index
<1>6. InService'
  BY <1>3, <1>4 DEF IInv, InService
<1>7. OnlyWatched'
  BY <1>1, <1>3, <1>4 DEF IInv, OnlyWatched, Watching, InService
<1>8. Corrected'
  BY <1>1, <1>4 DEF IInv, Corrected
<1>9. QED BY <1>5, <1>6, <1>7, <1>8 DEF IInv

LEMMA DeliverInductive ==
    ASSUME IInv, Deliver
    PROVE  IInv'
<1>1. /\ queue \in Seq(Entry \X (Value \cup {NULL})) /\ queue # <<>>
      /\ queue' = Tail(queue)
      /\ UNCHANGED <<cfg, linkvars, cache, sock, work, held>>
  BY DEF IInv, TypeOK, Deliver
<1>2. Head(queue)[1] \in Entry /\ Head(queue)[2] \in Value \cup {NULL}
  BY <1>1
<1>3. /\ kernel' \in [Entry -> Object \cup {NULL}]
      /\ missed' \in SUBSET Entry /\ raced' \in SUBSET Entry
      /\ phase' \in Phase
      /\ phase' = phase \/ (phase' = "crashed" /\ sock = "none")
  BY <1>2, HandleType DEF IInv, Deliver
<1>4. /\ Len(queue') = Len(queue) - 1
      /\ \A n \in 1 .. Len(queue') : queue'[n] = queue[n + 1]
  BY <1>1
<1>5. TypeOK'
  BY <1>1, <1>3 DEF IInv, TypeOK, linkvars, Index
<1>6. InService'
  BY <1>1, <1>3 DEF IInv, InService
<1>7. OnlyWatched'
  <2>1. \A n \in 1 .. Len(queue') : Watching(queue'[n][1])
    BY <1>1, <1>4 DEF IInv, OnlyWatched
  <2>2. QED BY <1>1, <1>3, <2>1 DEF IInv, OnlyWatched, Watching, InService
<1>8. Corrected'
  <2> SUFFICES ASSUME NEW n \in 1 .. Len(queue')
               PROVE  \/ queue'[n][2] = cfg[queue'[n][1]]
                      \/ \E m \in 1 .. Len(queue') : m > n /\ queue'[m][1] = queue'[n][1]
    BY <1>1 DEF Corrected
  <2>1. n + 1 \in 1 .. Len(queue) /\ queue'[n] = queue[n + 1]
    BY <1>1, <1>4
  <2>2. CASE queue[n + 1][2] = cfg[queue[n + 1][1]]
    BY <2>1, <2>2
  <2>3. CASE \E m \in 1 .. Len(queue) : m > n + 1 /\ queue[m][1] = queue[n + 1][1]
    <3>1. PICK m \in 1 .. Len(queue) : m > n + 1 /\ queue[m][1] = queue[n + 1][1]
      BY <2>3
    <3>2. m - 1 \in 1 .. Len(queue') /\ m - 1 > n /\ queue'[m - 1] = queue[m]
      BY <1>1, <1>4, <3>1
    <3>3. QED BY <2>1, <3>1, <3>2
  <2>4. QED BY <2>1, <2>2, <2>3 DEF IInv, Corrected
<1>9. QED BY <1>5, <1>6, <1>7, <1>8 DEF IInv

LEMMA OnLinkType == \A l \in Link : OnLink(l) \in SUBSET SUBSET Entry
BY DEF OnLink

LEMMA MainInductive ==
    ASSUME IInv, MainStep
    PROVE  IInv'
<1> USE DEF Phase, Watching, Pending
<1>1. CASE Start
  <2>1. UNION {OnLink(l) : l \in {x \in Link : links[x] # 0}} \in SUBSET SUBSET Entry
    BY OnLinkType
  <2>2. work' \in [Thread -> SUBSET SUBSET Entry]
    BY <1>1, <2>1 DEF Start, Nothing, Thread
  <2>3. TypeOK'
    BY <1>1, <2>2 DEF IInv, TypeOK, Start, Nothing, tree, Index
  <2>4. queue = <<>>
    BY <1>1 DEF IInv, TypeOK, OnlyWatched, Start
  <2>5. QED BY <1>1, <2>3, <2>4 DEF IInv, InService, OnlyWatched, Corrected, Start, tree
<1>2. CASE Open
  <2>1. TypeOK'
    BY <1>2 DEF IInv, TypeOK, Open, tree, linkvars, Index
  <2>2. QED BY <1>2, <2>1 DEF IInv, TypeOK, InService, OnlyWatched, Corrected, Open, tree
<1>3. CASE Watch
  <2>1. work' \in [Thread -> SUBSET SUBSET Entry]
    BY <1>3 DEF IInv, TypeOK, Watch, Thread
  <2>2. TypeOK'
    BY <1>3, <2>1 DEF IInv, TypeOK, Watch, tree, linkvars, Index
  <2>3. QED BY <1>3, <2>2 DEF IInv, InService, OnlyWatched, Corrected, Watch, tree
<1>4. CASE Load
  <2>1. work' \in [Thread -> SUBSET SUBSET Entry]
    BY <1>4 DEF IInv, TypeOK, Load, Thread, Six
  <2>2. TypeOK'
    BY <1>4, <2>1 DEF IInv, TypeOK, Load, tree, linkvars, Index
  <2>3. QED BY <1>4, <2>2 DEF IInv, InService, OnlyWatched, Corrected, Load, tree
<1>5. CASE Unwatch
  <2>1. TypeOK'
    BY <1>5 DEF IInv, TypeOK, Unwatch, linkvars, Index
  <2>2. QED BY <1>5, <2>1 DEF IInv, InService, OnlyWatched, Corrected, Unwatch
<1>6. CASE Close
  <2>1. TypeOK'
    BY <1>6 DEF IInv, TypeOK, Close, tree, linkvars, Index
  <2>2. QED BY <1>6, <2>1 DEF IInv, TypeOK, InService, OnlyWatched, Corrected, Close, tree
<1>7. CASE Unregister
  <2>1. TypeOK'
    BY <1>7 DEF IInv, TypeOK, Unregister, Nothing, tree, linkvars, Index
  <2>2. QED BY <1>7, <2>1 DEF IInv, TypeOK, InService, OnlyWatched, Corrected, Unregister, tree
<1>8. CASE Crash
  <2>1. TypeOK'
    BY <1>8 DEF IInv, TypeOK, Crash, Nothing, linkvars, Index
  <2>2. QED BY <1>8, <2>1 DEF IInv, InService, OnlyWatched, Corrected, Crash
<1>9. CASE Rewatch("main")
  BY <1>9, RewatchInductive DEF Thread
<1>10. CASE Tell("main")
  BY <1>10, TellInductive DEF Thread
<1>11. QED
  BY <1>1, <1>2, <1>3, <1>4, <1>5, <1>6, <1>7, <1>8, <1>9, <1>10 DEF MainStep

LEMMA ReceiveInductive ==
    ASSUME IInv, Receive
    PROVE  IInv'
<1>1. news \in Seq(Link \X Index) /\ news # <<>>
  BY DEF IInv, TypeOK, Receive
<1>2. Head(news)[1] \in Link /\ Head(news)[2] \in Index /\ Tail(news) \in Seq(Link \X Index)
  BY <1>1
<1>3. cache' \in [Link -> Index]
  BY <1>2 DEF IInv, TypeOK, Receive
<1>4. work' \in [Thread -> SUBSET SUBSET Entry]
  BY <1>2, OnLinkType DEF IInv, TypeOK, Receive, Thread
<1>5. TypeOK'
  BY <1>2, <1>3, <1>4 DEF IInv, TypeOK, Receive, tree, life, Index
<1>6. QED BY <1>5 DEF IInv, InService, OnlyWatched, Corrected, Watching, Receive, tree, life

LEMMA EditInductive ==
    ASSUME IInv, Edit
    PROVE  IInv'
<1>1. PICK e \in Entry, v \in Value \cup {NULL} :
          /\ v # cfg[e]
          /\ cfg' = [cfg EXCEPT ![e] = v]
          /\ IF Alive /\ Watching(e)
                 THEN Len(queue) < MaxQueue /\ queue' = Append(queue, <<e, v>>) /\ UNCHANGED missed
                 ELSE missed' = missed \cup {e} /\ UNCHANGED queue
  BY DEF Edit
<1>2. UNCHANGED <<linkvars, cache, life, work, held, kernel, raced>>
  BY DEF Edit
<1>3. queue \in Seq(Entry \X (Value \cup {NULL})) /\ cfg \in [Entry -> Value \cup {NULL}]
  BY DEF IInv, TypeOK
<1>4. CASE Alive /\ Watching(e)
  <2>1. /\ queue' = Append(queue, <<e, v>>) /\ UNCHANGED missed
    BY <1>1, <1>4
  <2>2. /\ Len(queue') = Len(queue) + 1 /\ Len(queue) \in Nat
        /\ \A n \in 1 .. Len(queue) : queue'[n] = queue[n]
        /\ queue'[Len(queue) + 1] = <<e, v>>
    BY <1>3, <2>1
  <2>3. TypeOK'
    BY <1>1, <1>2, <1>3, <2>1 DEF IInv, TypeOK, linkvars, life, Index
  <2>4. OnlyWatched'
    BY <1>2, <1>4, <2>2 DEF IInv, OnlyWatched, Watching, life
  <2>5. Corrected'
    <3> SUFFICES ASSUME NEW n \in 1 .. Len(queue')
                 PROVE  \/ queue'[n][2] = cfg'[queue'[n][1]]
                        \/ \E m \in 1 .. Len(queue') : m > n /\ queue'[m][1] = queue'[n][1]
      BY DEF Corrected
    <3>1. CASE n = Len(queue) + 1
      BY <1>1, <1>3, <2>2, <3>1
    <3>2. CASE n \in 1 .. Len(queue) /\ queue[n][1] = e
      <4>1. Len(queue) + 1 \in 1 .. Len(queue') /\ Len(queue) + 1 > n
        BY <2>2, <3>2
      <4>2. queue'[Len(queue) + 1][1] = queue'[n][1]
        BY <2>2, <3>2
      <4>3. QED BY <4>1, <4>2
    <3>3. CASE n \in 1 .. Len(queue) /\ queue[n][1] # e
      <4>1. queue[n][1] \in Entry /\ queue'[n] = queue[n]
        BY <1>3, <2>2, <3>3
      <4>2. cfg'[queue[n][1]] = cfg[queue[n][1]]
        BY <1>1, <1>3, <3>3, <4>1
      <4>3. CASE queue[n][2] = cfg[queue[n][1]]
        BY <4>1, <4>2, <4>3
      <4>4. CASE \E m \in 1 .. Len(queue) : m > n /\ queue[m][1] = queue[n][1]
        BY <2>2, <4>1, <4>4
      <4>5. QED BY <3>3, <4>3, <4>4 DEF IInv, Corrected
    <3>4. QED BY <2>2, <3>1, <3>2, <3>3
  <2>6. QED BY <1>2, <2>3, <2>4, <2>5 DEF IInv, InService, life
<1>5. CASE ~(Alive /\ Watching(e))
  <2>1. missed' = missed \cup {e} /\ UNCHANGED queue
    BY <1>1, <1>5
  <2>2. TypeOK'
    BY <1>1, <1>2, <1>3, <2>1 DEF IInv, TypeOK, linkvars, life, Index
  <2>3. \A n \in 1 .. Len(queue) : queue[n][1] # e
    BY <1>5 DEF IInv, OnlyWatched, Watching, Alive
  <2>4. \A n \in 1 .. Len(queue) : cfg'[queue[n][1]] = cfg[queue[n][1]]
    BY <1>1, <1>3, <2>3
  <2>5. Corrected'
    BY <2>1, <2>4 DEF IInv, Corrected
  <2>6. QED BY <1>2, <2>1, <2>2, <2>5 DEF IInv, InService, OnlyWatched, Watching, life
<1>6. QED BY <1>4, <1>5

LEMMA LinkInductive ==
    ASSUME IInv, LinkUp \/ LinkGone
    PROVE  IInv'
<1>1. ASSUME NEW l \in Link, NEW i \in Index,
             links' = [links EXCEPT ![l] = i],
             news' = Append(news, <<l, i>>) \/ news' = news
      PROVE  links' \in [Link -> Index] /\ news' \in Seq(Link \X Index)
  <2>1. links \in [Link -> Index] /\ news \in Seq(Link \X Index)
    BY DEF IInv, TypeOK
  <2>2. <<l, i>> \in Link \X Index
    BY <1>1
  <2>3. Append(news, <<l, i>>) \in Seq(Link \X Index)
    BY <2>1, <2>2, AppendIndices, Zenon
  <2>4. QED BY <1>1, <2>1, <2>3
<1>2. links' \in [Link -> Index] /\ news' \in Seq(Link \X Index) /\ fresh' \in Nat
  <2>1. CASE LinkUp
    <3>1. PICK l \in Link : /\ links' = [links EXCEPT ![l] = fresh]
                            /\ news' = Append(news, <<l, fresh>>) \/ news' = news
      BY <2>1 DEF LinkUp
    <3>2. fresh \in Index /\ fresh' \in Nat
      BY <2>1 DEF IInv, TypeOK, LinkUp, Index
    <3>3. QED BY <1>1, <3>1, <3>2
  <2>2. CASE LinkGone
    <3>1. PICK l \in Link : /\ links' = [links EXCEPT ![l] = 0]
                            /\ news' = Append(news, <<l, 0>>) \/ news' = news
      BY <2>2 DEF LinkGone
    <3>2. 0 \in Index /\ fresh' \in Nat
      BY <2>2 DEF IInv, TypeOK, LinkGone, Index
    <3>3. QED BY <1>1, <3>1, <3>2
  <2>3. QED BY <2>1, <2>2
<1>3. /\ kernel' \in [Entry -> Object \cup {NULL}]
      /\ missed' \in SUBSET Entry /\ raced' \in SUBSET Entry
  BY DEF IInv, TypeOK, LinkUp, LinkGone, tree
<1>4. UNCHANGED <<cfg, queue, cache, life, work, held>>
  BY DEF LinkUp, LinkGone, tree
<1>5. TypeOK'
  BY <1>2, <1>3, <1>4 DEF IInv, TypeOK, life, Index
<1>6. QED BY <1>4, <1>5 DEF IInv, InService, OnlyWatched, Corrected, Watching, life

LEMMA StutterInductive == IInv /\ UNCHANGED vars => IInv'
BY DEF IInv, TypeOK, InService, OnlyWatched, Corrected, Watching, vars, tree, linkvars, life, Index

LEMMA NextInductive == IInv /\ [Next]_vars => IInv'
<1> SUFFICES ASSUME IInv, [Next]_vars PROVE IInv'
  OBVIOUS
<1>1. CASE MainStep
  BY <1>1, MainInductive
<1>2. CASE NetlinkStep
  BY <1>2, ReceiveInductive, RewatchInductive, TellInductive DEF NetlinkStep, Thread
<1>3. CASE Deliver
  BY <1>3, DeliverInductive
<1>4. CASE Edit
  BY <1>4, EditInductive
<1>5. CASE LinkUp \/ LinkGone
  BY <1>5, LinkInductive
<1>6. CASE UNCHANGED vars
  BY <1>6, StutterInductive
<1>7. QED BY <1>1, <1>2, <1>3, <1>4, <1>5, <1>6 DEF Next

LEMMA Invariance == Spec => []IInv
<1>1. Init => IInv
  BY InitInductive
<1>2. IInv /\ [Next]_vars => IInv'
  BY NextInductive
<1>3. QED BY <1>1, <1>2, PTL DEF Spec

\* Every variable stays in its type: no snapshot, in particular, ever holds a leaf
\* without a value, so that apteryx_rewatch_tree never asks for a delete.
THEOREM TypeCorrect == Spec => []TypeOK
<1>1. IInv => TypeOK
  BY DEF IInv
<1>2. QED BY <1>1, Invariance, PTL

------------------------------------------------------------------------------

\* A callback that takes an object away was given a missing value.
LEMMA HandleKeeps ==
    ASSUME IInv, NEW e \in Entry, NEW v \in Value \cup {NULL}, Handle(e, v),
           NEW x \in Entry, kernel[x] # NULL, kernel'[x] = NULL
    PROVE  x = e /\ v = NULL
<1>1. CASE kernel' = kernel
  BY <1>1
<1>2. CASE Usable(e, v) /\ Request(e, v)
  <2>1. kernel \in [Entry -> Object \cup {NULL}]
    BY DEF IInv, TypeOK
  <2>2. x = e
    BY <1>2, <2>1 DEF Request
  <2>3. v # NULL => Content[v] # NULL
    BY <1>2 DEF Usable
  <2>4. QED BY <1>2, <2>1, <2>2, <2>3 DEF Request
<1>3. QED BY <1>1, <1>2 DEF Handle

Keeps == \A e \in Entry : kernel[e] # NULL /\ kernel'[e] = NULL =>
             links'[LinkOf[e]] = 0 \/ cfg[e] = NULL \/ Pending(e)'

LEMMA StepKeeps == IInv /\ [Next]_vars => [Keeps]_vars
<1> SUFFICES ASSUME IInv, [Next]_vars,
                    NEW x \in Entry, kernel[x] # NULL, kernel'[x] = NULL
             PROVE  links'[LinkOf[x]] = 0 \/ cfg[x] = NULL \/ Pending(x)'
  BY DEF Keeps
<1>1. ASSUME NEW t \in Thread, Tell(t) PROVE FALSE
  <2>1. PICK m \in held[t] : Handle(m[1], m[2])
    BY <1>1 DEF Tell
  <2>2. m[1] \in Entry /\ m[2] \in Value
    BY <2>1 DEF IInv, TypeOK, Leaf
  <2>3. QED BY <2>1, <2>2, HandleKeeps
<1>2. CASE Deliver
  <2>1. /\ queue \in Seq(Entry \X (Value \cup {NULL})) /\ queue # <<>>
        /\ queue' = Tail(queue)
    BY <1>2 DEF IInv, TypeOK, Deliver
  <2>2. Head(queue)[1] = x /\ Head(queue)[2] = NULL
    BY <1>2, <2>1, HandleKeeps DEF Deliver
  <2>3. 1 \in 1 .. Len(queue) /\ queue[1] = Head(queue)
    BY <2>1
  <2>4. CASE queue[1][2] = cfg[queue[1][1]]
    BY <2>2, <2>3, <2>4
  <2>5. CASE \E m \in 1 .. Len(queue) : m > 1 /\ queue[m][1] = queue[1][1]
    <3>1. PICK m \in 1 .. Len(queue) : m > 1 /\ queue[m][1] = x
      BY <2>2, <2>3, <2>5
    <3>2. m - 1 \in 1 .. Len(queue') /\ queue'[m - 1] = queue[m]
      BY <2>1, <3>1
    <3>3. QED BY <3>1, <3>2 DEF Pending
  <2>6. QED BY <2>3, <2>4, <2>5 DEF IInv, Corrected
<1>3. CASE LinkGone
  <2>1. PICK l \in Link : /\ links' = [links EXCEPT ![l] = 0]
                          /\ kernel' = [e \in Entry |-> IF LinkOf[e] = l THEN NULL ELSE kernel[e]]
    BY <1>3 DEF LinkGone
  <2>2. QED BY <2>1 DEF IInv, TypeOK
<1>4. CASE UNCHANGED kernel
  BY <1>4
<1>5. QED
  BY <1>1, <1>2, <1>3, <1>4
     DEF Next, MainStep, NetlinkStep, Start, Open, Watch, Load, Unwatch, Close, Unregister, Crash,
         Rewatch, Receive, Edit, LinkUp, vars, Thread

\* No callback turns a snapshot, a bad value, a failure or a restart into a
\* delete: a configured object stays while its link does, unless an event that
\* undoes its loss is on its way.
THEOREM AlwaysKeepsConfigured == Spec => KeepsConfigured
<1>1. IInv /\ [Next]_vars => [Keeps]_vars
  BY StepKeeps
<1>2. [][Keeps]_vars => KeepsConfigured
  BY DEF Keeps, KeepsConfigured
<1>3. QED BY <1>1, <1>2, Invariance, PTL DEF Spec
------------------------------------------------------------------------------
(* What the link cache knows, and what the kernel can have of what is gone. *)

Links == Follows(Link, links, cache, news, fresh)
LinksTold == Alive => Announced(Link, links, cache, news)

\* Nothing is made of an address that is none, or on a link that is not there or
\* that the cache has wrong.
Absent ==
    \A e \in Entry :
        e \in Unparsable \/ links[LinkOf[e]] = 0 \/ Lookup(LinkOf[e]) # links[LinkOf[e]]
            => kernel[e] = NULL

\* What acting on a leaf does, as the invariants below see it.
LEMMA HandleCases ==
    ASSUME NEW e \in Entry, NEW v \in Value \cup {NULL}, Handle(e, v)
    PROVE  /\ phase' = phase \/ phase' = "crashed"
           /\ \/ /\ UNCHANGED <<kernel, missed, raced>>
                 /\ sock = "open" => ~Usable(e, v) \/ ~Accepts(e)
              \/ Usable(e, v) /\ Accepts(e) /\ Request(e, v)
BY DEF Handle

LEMMA LinksSame ==
    ASSUME Links, LinksTold, UNCHANGED <<links, cache, news, fresh>>, Alive' => Alive
    PROVE  Links' /\ LinksTold'
BY DEF Links, LinksTold

LEMMA LinksChange ==
    ASSUME IInv, Links, LinksTold, NEW l \in Link, NEW i \in Index, i \in {0, fresh},
           i < fresh', fresh <= fresh', fresh' \in Nat,
           links' = [links EXCEPT ![l] = i], UNCHANGED <<cache, phase>>,
           IF Alive THEN news' = Append(news, <<l, i>>) ELSE news' = news
    PROVE  Links' /\ LinksTold'
<1>1. /\ Index \in SUBSET Nat /\ i \in Nat
      /\ links \in [Link -> Nat] /\ cache \in [Link -> Nat] /\ news \in Seq(Link \X Index)
      /\ fresh \in Nat
  BY DEF IInv, TypeOK, Index
<1>2. Links'
  <2>1. /\ Follows(Link, [links EXCEPT ![l] = i], cache, news, fresh')
        /\ Follows(Link, [links EXCEPT ![l] = i], cache, Append(news, <<l, i>>), fresh')
    BY <1>1, FollowsChange, Zenon DEF Links
  <2>2. QED BY <2>1 DEF Links
<1>3. LinksTold'
  <2>1. Alive => Announced(Link, [links EXCEPT ![l] = i], cache, Append(news, <<l, i>>))
    BY <1>1, AnnouncedChange, Zenon DEF LinksTold
  <2>2. QED BY <2>1 DEF LinksTold, Alive
<1>4. QED BY <1>2, <1>3

LEMMA LinksNext ==
    ASSUME IInv, Links, LinksTold, [Next]_vars PROVE Links' /\ LinksTold'
<1>1. CASE Start
  BY <1>1, FollowsCopy DEF Links, LinksTold, Start
<1>2. CASE Receive
  <2>1. /\ Index \in SUBSET Nat
        /\ links \in [Link -> Nat] /\ cache \in [Link -> Nat] /\ news \in Seq(Link \X Index)
        /\ fresh \in Nat /\ news # <<>> /\ Alive
    BY <1>2 DEF IInv, TypeOK, Index, Receive
  <2>2. /\ Follows(Link, links, [cache EXCEPT ![Head(news)[1]] = Head(news)[2]], Tail(news), fresh)
        /\ Announced(Link, links, [cache EXCEPT ![Head(news)[1]] = Head(news)[2]], Tail(news))
    BY <2>1, FollowsTake, AnnouncedTake, Zenon DEF Links, LinksTold
  <2>3. QED BY <1>2, <2>2 DEF Links, LinksTold, Receive
<1>3. CASE LinkUp
  <2>1. PICK l \in Link : /\ links' = [links EXCEPT ![l] = fresh]
                          /\ IF Alive THEN news' = Append(news, <<l, fresh>>) ELSE news' = news
    BY <1>3 DEF LinkUp
  <2>2. fresh \in Index /\ fresh' = fresh + 1 /\ fresh' \in Nat /\ UNCHANGED <<cache, phase>>
    BY <1>3 DEF LinkUp, IInv, TypeOK, Index, life
  <2>3. fresh < fresh' /\ fresh <= fresh'
    BY <2>2 DEF Index
  <2>4. QED BY <2>1, <2>2, <2>3, LinksChange
<1>4. CASE LinkGone
  <2>1. PICK l \in Link : /\ links' = [links EXCEPT ![l] = 0]
                          /\ IF Alive THEN news' = Append(news, <<l, 0>>) ELSE news' = news
    BY <1>4 DEF LinkGone
  <2>2. 0 \in Index /\ fresh' = fresh /\ fresh' \in Nat /\ UNCHANGED <<cache, phase>>
    BY <1>4 DEF LinkGone, IInv, TypeOK, Index, life
  <2>3. 0 < fresh' /\ fresh <= fresh'
    BY <2>2 DEF Links, Follows, Numbered, IInv, TypeOK, Index
  <2>4. QED BY <2>1, <2>2, <2>3, LinksChange
<1>5. ASSUME NEW t \in Thread, Tell(t) PROVE Links' /\ LinksTold'
  <2>1. Alive' => Alive
    BY <1>5 DEF Tell, Handle, Alive
  <2>2. QED BY <1>5, <2>1, LinksSame DEF Tell, linkvars
<1>6. CASE Deliver
  <2>1. Alive' => Alive
    BY <1>6 DEF Deliver, Alive
  <2>2. QED BY <1>6, <2>1, LinksSame DEF Deliver, linkvars
<1>7. CASE Open \/ Watch \/ Load \/ Unwatch \/ Close \/ Unregister \/ Crash
  BY <1>7, LinksSame
  DEF Open, Watch, Load, Unwatch, Close, Unregister, Crash, linkvars, Alive
<1>8. CASE Edit \/ UNCHANGED vars \/ \E t \in Thread : Rewatch(t)
  BY <1>8, LinksSame DEF Edit, Rewatch, vars, linkvars, life, Alive
<1>9. QED
  BY <1>1, <1>2, <1>3, <1>4, <1>5, <1>6, <1>7, <1>8 DEF Next, MainStep, NetlinkStep, Thread

LEMMA AbsentNext ==
    ASSUME IInv, Links, Absent, [Next]_vars PROVE Absent'
<1>. /\ cache \in [Link -> Index] /\ links \in [Link -> Index]
     /\ kernel \in [Entry -> Object \cup {NULL}]
  BY DEF IInv, TypeOK
<1>1. ASSUME NEW e \in Entry, NEW v \in Value \cup {NULL}, Handle(e, v), UNCHANGED <<links, cache>>
      PROVE  Absent'
  <2>1. CASE UNCHANGED kernel
    BY <1>1, <2>1 DEF Absent, Lookup
  <2>2. CASE Usable(e, v) /\ Accepts(e) /\ Request(e, v)
    <3>1. \A x \in Entry : x # e => kernel'[x] = kernel[x]
      BY <2>2 DEF Request
    <3>2. e \notin Unparsable /\ links[LinkOf[e]] # 0 /\ Lookup(LinkOf[e]) = links[LinkOf[e]]
      BY <2>2 DEF Usable, Accepts
    <3>3. QED BY <1>1, <3>1, <3>2 DEF Absent, Lookup
  <2>3. QED BY <1>1, <2>1, <2>2, HandleCases
<1>2. CASE Start
  BY <1>2 DEF Absent, Lookup, Start
<1>3. CASE Receive
  <2>1. /\ Index \in SUBSET Nat
        /\ links \in [Link -> Nat] /\ cache \in [Link -> Nat] /\ news \in Seq(Link \X Index)
        /\ fresh \in Nat /\ news # <<>>
    BY <1>3 DEF IInv, TypeOK, Index, Receive
  <2>2. \A l \in Link : links[l] # 0 /\ cache[l] = links[l] => l # Head(news)[1]
    BY <2>1, FollowsNext DEF Links
  <2>3. \A l \in Link : l # Head(news)[1] => cache'[l] = cache[l]
    BY <1>3 DEF Receive
  <2>4. QED BY <1>3, <2>2, <2>3 DEF Absent, Lookup, Receive
<1>4. CASE LinkUp
  <2>1. PICK l \in Link : links[l] = 0 /\ links' = [links EXCEPT ![l] = fresh]
    BY <1>4 DEF LinkUp
  <2>2. UNCHANGED <<cache, kernel>>
    BY <1>4 DEF LinkUp
  <2>3. QED BY <2>1, <2>2 DEF Absent, Lookup
<1>5. CASE LinkGone
  <2>1. PICK l \in Link : /\ links' = [links EXCEPT ![l] = 0]
                          /\ kernel' = [e \in Entry |-> IF LinkOf[e] = l THEN NULL ELSE kernel[e]]
    BY <1>5 DEF LinkGone
  <2>2. UNCHANGED cache
    BY <1>5 DEF LinkGone
  <2>3. QED BY <2>1, <2>2 DEF Absent, Lookup
<1>6. ASSUME NEW t \in Thread, Tell(t) PROVE Absent'
  <2>1. PICK m \in held[t] : Handle(m[1], m[2])
    BY <1>6 DEF Tell
  <2>2. m[1] \in Entry /\ m[2] \in Value \cup {NULL}
    BY <2>1 DEF IInv, TypeOK, Leaf
  <2>3. QED BY <1>1, <1>6, <2>1, <2>2 DEF Tell, linkvars
<1>7. CASE Deliver
  <2>1. Head(queue)[1] \in Entry /\ Head(queue)[2] \in Value \cup {NULL}
    BY <1>7, TailIndices DEF IInv, TypeOK, Deliver
  <2>2. QED BY <1>1, <1>7, <2>1 DEF Deliver, linkvars
<1>8. CASE UNCHANGED <<kernel, links, cache>>
  BY <1>8 DEF Absent, Lookup
<1>9. QED
  BY <1>2, <1>3, <1>4, <1>5, <1>6, <1>7, <1>8
  DEF Next, MainStep, NetlinkStep, Thread, Open, Watch, Load, Unwatch, Close, Unregister, Crash,
      Edit, Rewatch, vars, linkvars

------------------------------------------------------------------------------
(* Nothing stale.                                                          *)

\* An object that is not what is configured is to be changed by an event.
Explained ==
    \A e \in Entry \ (missed \cup raced) :
        kernel[e] # NULL => Pending(e) \/ (cfg[e] # NULL /\ Content[cfg[e]] \in {NULL, kernel[e]})

LEMMA PendingOf == \A e : Pending(e) <=> Of(queue, e)
BY DEF Pending, Of

\* The oldest event says what is configured, or is followed by one of its entry.
LEMMA DeliverPending ==
    ASSUME IInv, Deliver, NEW m, m = Head(queue)
    PROVE  /\ m[1] \in Entry /\ m[2] \in Value \cup {NULL} /\ Handle(m[1], m[2])
           /\ m[2] = cfg[m[1]] \/ Pending(m[1])'
           /\ \A e : e # m[1] => (Pending(e) <=> Pending(e)')
           /\ sock = "open"
<1>1. /\ queue \in Seq(Entry \X (Value \cup {NULL})) /\ queue # <<>>
      /\ queue' = Tail(queue) /\ Handle(m[1], m[2])
  BY DEF IInv, TypeOK, Deliver
<1>2. /\ m[1] \in Entry /\ m[2] \in Value \cup {NULL}
      /\ 1 \in 1 .. Len(queue) /\ queue[1] = m
  BY <1>1
<1>3. \A e : Of(queue, e) <=> Of(Tail(queue), e) \/ e = m[1]
  BY <1>1, TailOf, Zenon
<1>4. \A e : e # m[1] => (Pending(e) <=> Pending(e)')
  BY <1>1, <1>3 DEF Pending, Of
<1>5. Says(queue, m[1], cfg[m[1]])
  BY DEF IInv, Corrected, Says
<1>6. m[2] = cfg[m[1]] \/ Of(Tail(queue), m[1])
  BY <1>1, <1>5, TailSays, Zenon
<1>7. Of(Tail(queue), m[1]) => Pending(m[1])'
  BY <1>1 DEF Pending, Of
<1>8. sock = "open"
  BY <1>2 DEF IInv, InService, OnlyWatched, Watching
<1>9. QED BY <1>1, <1>2, <1>4, <1>6, <1>7, <1>8

LEMMA HandleExplained ==
    ASSUME IInv, Absent, Explained, NEW e \in Entry, NEW v \in Value \cup {NULL}, Handle(e, v),
           UNCHANGED cfg, \A x \in Entry : x # e /\ Pending(x) => Pending(x)',
           (Pending(e) => Pending(e)') \/ (v = cfg[e] /\ sock = "open")
    PROVE  Explained'
<1>. kernel \in [Entry -> Object \cup {NULL}] /\ cfg \in [Entry -> Value \cup {NULL}]
  BY DEF IInv, TypeOK
<1> SUFFICES ASSUME NEW x \in Entry, x \notin missed', x \notin raced', kernel'[x] # NULL
             PROVE  Pending(x)' \/ (cfg[x] # NULL /\ Content[cfg[x]] \in {NULL, kernel'[x]})
  BY DEF Explained
<1>1. CASE UNCHANGED <<kernel, missed, raced>> /\ (sock = "open" => ~Usable(e, v) \/ ~Accepts(e))
  <2>1. Pending(x) \/ (cfg[x] # NULL /\ Content[cfg[x]] \in {NULL, kernel'[x]})
    BY <1>1 DEF Explained
  <2>2. CASE x = e /\ v = cfg[e] /\ sock = "open"
    <3>1. e \notin Unparsable /\ links[LinkOf[e]] # 0 /\ Lookup(LinkOf[e]) = links[LinkOf[e]]
      BY <1>1, <2>2 DEF Absent
    <3>2. v # NULL /\ Content[v] = NULL
      BY <1>1, <2>2, <3>1 DEF Usable, Accepts
    <3>3. QED BY <2>2, <3>2
  <2>3. QED BY <2>1, <2>2
<1>2. CASE Usable(e, v) /\ Accepts(e) /\ Request(e, v)
  <2>1. CASE x = e
    <3>1. v = cfg[e] \/ Pending(e)'
      BY <1>2, <2>1 DEF Request
    <3>2. v # NULL /\ kernel'[e] = Content[v]
      BY <1>2, <2>1 DEF Request
    <3>3. QED BY <2>1, <3>1, <3>2
  <2>2. CASE x # e
    <3>1. kernel'[x] = kernel[x] /\ x \notin missed /\ x \notin raced
      BY <1>2, <2>2 DEF Request
    <3>2. QED BY <2>2, <3>1 DEF Explained
  <2>3. QED BY <2>1, <2>2
<1>3. QED BY <1>1, <1>2, HandleCases

LEMMA ExplainedNext ==
    ASSUME IInv, Absent, Explained, [Next]_vars PROVE Explained'
<1>. kernel \in [Entry -> Object \cup {NULL}] /\ cfg \in [Entry -> Value \cup {NULL}]
  BY DEF IInv, TypeOK
<1>1. ASSUME NEW t \in Thread, Tell(t) PROVE Explained'
  <2>1. PICK m \in held[t] : Handle(m[1], m[2])
    BY <1>1 DEF Tell
  <2>2. m[1] \in Entry /\ m[2] \in Value \cup {NULL}
    BY <2>1 DEF IInv, TypeOK, Leaf
  <2>3. UNCHANGED <<cfg, queue>>
    BY <1>1 DEF Tell
  <2>4. \A x : Pending(x) => Pending(x)'
    BY <2>3 DEF Pending
  <2>5. QED BY <2>1, <2>2, <2>3, <2>4, HandleExplained
<1>2. CASE Deliver
  <2>1. PICK m : m = Head(queue)
    OBVIOUS
  <2>2. UNCHANGED cfg
    BY <1>2 DEF Deliver
  <2>3. QED BY <1>2, <2>1, <2>2, DeliverPending, HandleExplained
<1>3. CASE Edit
  <2>1. PICK e \in Entry, v \in Value \cup {NULL} :
            /\ cfg' = [cfg EXCEPT ![e] = v]
            /\ \/ queue' = Append(queue, <<e, v>>) /\ UNCHANGED missed
               \/ missed' = missed \cup {e} /\ UNCHANGED queue
    BY <1>3 DEF Edit
  <2>2. UNCHANGED <<kernel, raced>>
    BY <1>3 DEF Edit
  <2>3. CASE queue' = Append(queue, <<e, v>>) /\ UNCHANGED missed
    <3>1. queue \in Seq(Entry \X (Value \cup {NULL})) /\ <<e, v>> \in Entry \X (Value \cup {NULL})
      BY DEF IInv, TypeOK
    <3>2. \A x : Of(queue', x) <=> Of(queue, x) \/ x = e
      BY <2>3, <3>1, AppendOf
    <3>3. Pending(e)' /\ \A x : Pending(x) => Pending(x)'
      BY <3>2 DEF Pending, Of
    <3>4. QED BY <2>1, <2>2, <2>3, <3>3 DEF Explained
  <2>4. CASE missed' = missed \cup {e} /\ UNCHANGED queue
    BY <2>1, <2>2, <2>4 DEF Explained, Pending
  <2>5. QED BY <2>1, <2>3, <2>4
<1>4. CASE LinkGone
  <2>1. PICK l \in Link :
            /\ kernel' = [e \in Entry |-> IF LinkOf[e] = l THEN NULL ELSE kernel[e]]
            /\ missed' = {e \in missed : LinkOf[e] # l}
            /\ raced' = {e \in raced : LinkOf[e] # l}
    BY <1>4 DEF LinkGone
  <2>2. UNCHANGED <<cfg, queue>>
    BY <1>4 DEF LinkGone
  <2>3. QED BY <2>1, <2>2 DEF Explained, Pending
<1>5. CASE Unwatch \/ Crash
  <2>1. /\ missed' = missed \cup {e \in Entry : Pending(e)}
        /\ UNCHANGED <<cfg, kernel, raced>>
    BY <1>5 DEF Unwatch, Crash
  <2>2. QED BY <2>1 DEF Explained
<1>6. CASE UNCHANGED <<cfg, queue, missed, kernel, raced>>
  BY <1>6 DEF Explained, Pending
<1>7. QED
  BY <1>1, <1>2, <1>3, <1>4, <1>5, <1>6
  DEF Next, MainStep, NetlinkStep, Thread, Start, Open, Watch, Load, Close, Unregister,
      Receive, LinkUp, Rewatch, vars, tree

\* The invariants of the links, and of what is absent or explained.
AInv == IInv /\ Links /\ LinksTold /\ Absent /\ Explained

LEMMA InitAInv == Init => AInv
<1> SUFFICES ASSUME Init PROVE AInv
  OBVIOUS
<1>1. Links /\ LinksTold
  BY EmptyQueue DEF Init, Links, LinksTold, Follows, Numbered, Steady, Final, Alive
<1>2. Absent /\ Explained
  BY DEF Init, Absent, Explained
<1>3. QED BY <1>1, <1>2, InitInductive DEF AInv

LEMMA AInvariance == Spec => []AInv
<1>1. AInv /\ [Next]_vars => AInv'
  BY NextInductive, LinksNext, AbsentNext, ExplainedNext DEF AInv
<1>2. QED BY <1>1, InitAInv, PTL DEF Spec

\* Once all is quiet no address or neighbor stands in the kernel that is configured
\* no more: every one that does had its event on the way (Explained), and an event
\* that is refused is of an object the kernel cannot have (Absent).
THEOREM NeverStale == Spec => []NothingStale
<1>1. AInv => NothingStale
  <2>1. queue = <<>> => \A e \in Entry : ~Pending(e)
    BY DEF Pending
  <2>2. QED BY <2>1 DEF AInv, Explained, NothingStale, Quiescent
<1>2. QED BY <1>1, AInvariance, PTL

------------------------------------------------------------------------------
(* What is configured reaches the kernel.                                  *)

\* Some thread is yet to act on what is configured for the entry: for an event, for
\* a leaf of its snapshot, for one of a snapshot it will take, or once it is told
\* of the link.
ToCome(e) ==
    \/ Pending(e) \/ Of(news, LinkOf[e])
    \/ \E t \in Thread : <<e, cfg[e]>> \in held[t] \/ \E es \in work[t] : e \in es

\* Once the manager loads its configuration, what is due is there or to come.
Served ==
    phase \in {"load4", "load6", "running"} =>
        \A e \in Four \ raced : Due(e) => kernel[e] = Content[cfg[e]] \/ ToCome(e)

\* Acting on a leaf serves its entry, or a link has to come first.
LEMMA HandleServed ==
    ASSUME AInv, Served, NEW e \in Entry, NEW v \in Value \cup {NULL}, Handle(e, v),
           UNCHANGED <<cfg, links, cache, news>>,
           \A x \in Entry : (x = e /\ v = cfg[e]) \/ (ToCome(x) => ToCome(x)')
    PROVE  Served'
<1>. kernel \in [Entry -> Object \cup {NULL}] /\ cfg \in [Entry -> Value \cup {NULL}]
     /\ LinkOf \in [Entry -> Link] /\ Four \subseteq Entry
  BY EntryAssumption DEF AInv, IInv, TypeOK
<1> SUFFICES ASSUME phase' \in {"load4", "load6", "running"}, NEW x \in Four, x \notin raced',
                    Due(x)'
             PROVE  kernel'[x] = Content[cfg[x]] \/ ToCome(x)'
  BY DEF Served
<1>1. /\ phase \in {"load4", "load6", "running"} /\ sock = "open" /\ Alive
      /\ phase' = phase /\ Due(x)
  BY HandleCases DEF AInv, IInv, InService, Due, Alive
<1>2. x \notin raced => kernel[x] = Content[cfg[x]] \/ ToCome(x)
  BY <1>1 DEF Served
<1>3. CASE UNCHANGED <<kernel, missed, raced>> /\ (~Usable(e, v) \/ ~Accepts(e))
  <2>1. CASE x = e /\ v = cfg[e]
    <3>1. Lookup(LinkOf[e]) # links[LinkOf[e]]
      BY <1>1, <1>3, <2>1 DEF Usable, Accepts, Due
    <3>2. cache[LinkOf[e]] # links[LinkOf[e]]
      BY <3>1 DEF Lookup
    <3>3. Of(news, LinkOf[e])
      BY <1>1, <3>2 DEF AInv, LinksTold, Announced
    <3>4. QED BY <2>1, <3>3 DEF ToCome
  <2>2. CASE ~(x = e /\ v = cfg[e])
    BY <1>2, <1>3, <2>2
  <2>3. QED BY <2>1, <2>2
<1>4. CASE Usable(e, v) /\ Accepts(e) /\ Request(e, v)
  <2>1. CASE x # e
    BY <1>2, <1>4, <2>1 DEF Request
  <2>2. CASE x = e /\ v = cfg[e]
    BY <1>1, <1>4, <2>2 DEF Request, Due
  <2>3. CASE x = e /\ v # cfg[e]
    <3>1. Pending(e)'
      BY <1>4, <2>3 DEF Request
    <3>2. QED BY <2>3, <3>1 DEF ToCome
  <2>4. QED BY <2>1, <2>2, <2>3
<1>5. QED BY <1>1, <1>3, <1>4, HandleCases

LEMMA TellServed == ASSUME AInv, Served, NEW t \in Thread, Tell(t) PROVE Served'
<1>1. PICK m \in held[t] : Handle(m[1], m[2]) /\ held' = [held EXCEPT ![t] = @ \ {m}]
  BY DEF Tell
<1>2. m[1] \in Entry /\ m[2] \in Value \cup {NULL} /\ m = <<m[1], m[2]>>
  BY <1>1 DEF AInv, IInv, TypeOK, Leaf
<1>3. UNCHANGED <<cfg, queue, links, cache, news, work>>
  BY DEF Tell, linkvars
<1>4. ASSUME NEW x \in Entry, ~(x = m[1] /\ m[2] = cfg[m[1]]), ToCome(x) PROVE ToCome(x)'
  <2>1. <<x, cfg[x]>> # m
    BY <1>2, <1>4
  <2>2. \A u \in Thread : <<x, cfg[x]>> \in held[u] => <<x, cfg[x]>> \in held'[u]
    BY <1>1, <2>1 DEF AInv, IInv, TypeOK
  <2>3. QED BY <1>3, <1>4, <2>2 DEF ToCome, Pending
<1>5. QED BY <1>1, <1>2, <1>3, <1>4, HandleServed

LEMMA DeliverServed == ASSUME AInv, Served, Deliver PROVE Served'
<1>1. PICK m : m = Head(queue)
  OBVIOUS
<1>2. /\ m[1] \in Entry /\ m[2] \in Value \cup {NULL} /\ Handle(m[1], m[2])
      /\ m[2] = cfg[m[1]] \/ Pending(m[1])'
      /\ \A e : e # m[1] => (Pending(e) <=> Pending(e)')
  BY <1>1, DeliverPending DEF AInv
<1>3. UNCHANGED <<cfg, links, cache, news, work, held>>
  BY DEF Deliver, linkvars
<1>4. ASSUME NEW x \in Entry, ~(x = m[1] /\ m[2] = cfg[m[1]]), ToCome(x) PROVE ToCome(x)'
  BY <1>2, <1>3, <1>4 DEF ToCome
<1>5. QED BY <1>2, <1>3, <1>4, HandleServed

\* A step that does not act on a leaf serves what it served, if nothing gets lost.
LEMMA StepServed ==
    ASSUME Served, phase' \in {"load4", "load6", "running"} => phase' = phase,
           UNCHANGED <<cfg, links, kernel, raced>>, \A x \in Four : ToCome(x) => ToCome(x)'
    PROVE  Served'
BY DEF Served, Due

LEMMA RewatchServed == ASSUME AInv, Served, NEW t \in Thread, Rewatch(t) PROVE Served'
<1>1. PICK es \in work[t] :
          /\ work' = [work EXCEPT ![t] = @ \ {es}]
          /\ held' = [held EXCEPT ![t] = {<<e, cfg[e]>> : e \in {x \in es : cfg[x] # NULL}}]
  BY DEF Rewatch
<1>2. /\ UNCHANGED <<cfg, queue, links, news, kernel, raced, phase>> /\ held[t] = {}
  BY DEF Rewatch, tree, linkvars, life
<1> SUFFICES ASSUME phase \in {"load4", "load6", "running"}, NEW x \in Four, x \notin raced,
                    Due(x), ToCome(x)
             PROVE  ToCome(x)'
  BY <1>2 DEF Served, Due
<1>3. CASE Pending(x) \/ Of(news, LinkOf[x])
  BY <1>2, <1>3 DEF ToCome, Pending
<1>4. ASSUME NEW u \in Thread, <<x, cfg[x]>> \in held[u] PROVE ToCome(x)'
  BY <1>1, <1>2, <1>4 DEF ToCome, AInv, IInv, TypeOK
<1>5. ASSUME NEW u \in Thread, NEW s \in work[u], x \in s PROVE ToCome(x)'
  <2>1. CASE u = t /\ s = es
    <3>1. <<x, cfg'[x]>> \in held'[t]
      BY <1>1, <1>2, <1>5, <2>1 DEF Due, AInv, IInv, TypeOK
    <3>2. QED BY <3>1 DEF ToCome
  <2>2. CASE ~(u = t /\ s = es)
    <3>1. s \in work'[u]
      BY <1>1, <1>5, <2>2 DEF AInv, IInv, TypeOK
    <3>2. QED BY <1>5, <3>1 DEF ToCome
  <2>3. QED BY <2>1, <2>2
<1>6. QED BY <1>3, <1>4, <1>5 DEF ToCome

LEMMA ReceiveServed == ASSUME AInv, Served, Receive PROVE Served'
<1>1. /\ news \in Seq(Link \X Index) /\ news # <<>> /\ news' = Tail(news) /\ Alive
      /\ UNCHANGED <<cfg, queue, links, kernel, raced, phase, held>>
      /\ work["netlink"] = {} /\ "netlink" \in Thread
      /\ work' = [work EXCEPT !["netlink"] = IF Head(news)[2] = 0 THEN {}
                                             ELSE OnLink(Head(news)[1])]
  BY DEF AInv, IInv, TypeOK, Receive, tree, life, Idle, Thread
<1>2. \A k : Of(news, k) <=> Of(news', k) \/ k = Head(news)[1]
  BY <1>1, TailOf, Zenon
<1>3. Head(news)[2] = links[Head(news)[1]] \/ Of(news', Head(news)[1])
  <2>1. /\ Index \in SUBSET Nat /\ links \in [Link -> Nat] /\ cache \in [Link -> Nat]
        /\ Announced(Link, links, cache, news)
    BY <1>1 DEF AInv, IInv, TypeOK, Index, LinksTold
  <2>2. QED BY <1>1, <2>1, AnnouncedTake, Zenon
<1> SUFFICES ASSUME NEW x \in Four, Due(x), ToCome(x) PROVE ToCome(x)'
  BY <1>1 DEF Served, Due
<1>4. CASE Pending(x)
  BY <1>1, <1>4 DEF ToCome, Pending
<1>5. CASE Of(news, LinkOf[x])
  <2>1. CASE Of(news', LinkOf[x])
    BY <2>1 DEF ToCome
  <2>2. CASE ~Of(news', LinkOf[x])
    <3>1. LinkOf[x] = Head(news)[1] /\ Head(news)[2] # 0
      BY <1>2, <1>3, <1>5, <2>2 DEF Due
    <3>2. {x} \in OnLink(Head(news)[1])
      BY <3>1 DEF OnLink, Due
    <3>3. {x} \in work'["netlink"]
      BY <1>1, <3>1, <3>2 DEF AInv, IInv, TypeOK
    <3>4. QED BY <1>1, <3>3 DEF ToCome
  <2>3. QED BY <2>1, <2>2
<1>6. ASSUME NEW u \in Thread, <<x, cfg[x]>> \in held[u] PROVE ToCome(x)'
  BY <1>1, <1>6 DEF ToCome
<1>7. ASSUME NEW u \in Thread, NEW s \in work[u], x \in s PROVE ToCome(x)'
  <2>1. s \in work'[u]
    BY <1>1, <1>7 DEF AInv, IInv, TypeOK
  <2>2. QED BY <1>7, <2>1 DEF ToCome
<1>8. QED BY <1>4, <1>5, <1>6, <1>7 DEF ToCome

LEMMA EditServed == ASSUME AInv, Served, Edit PROVE Served'
<1>1. PICK e \in Entry, v \in Value \cup {NULL} :
          /\ cfg' = [cfg EXCEPT ![e] = v]
          /\ IF Alive /\ Watching(e) THEN queue' = Append(queue, <<e, v>>) ELSE UNCHANGED queue
  BY DEF Edit
<1>2. UNCHANGED <<links, news, phase, work, held, kernel, raced>>
  BY DEF Edit, linkvars, life
<1> SUFFICES ASSUME phase \in {"load4", "load6", "running"}, NEW x \in Four, x \notin raced, Due(x)'
             PROVE  kernel[x] = Content[cfg'[x]] \/ ToCome(x)'
  BY <1>2 DEF Served
<1>3. queue' = Append(queue, <<e, v>>)
  BY <1>1 DEF Alive, Watching
<1>4. queue \in Seq(Entry \X (Value \cup {NULL})) /\ <<e, v>> \in Entry \X (Value \cup {NULL})
  BY DEF AInv, IInv, TypeOK
<1>5. \A y : Of(queue', y) <=> Of(queue, y) \/ y = e
  BY <1>3, <1>4, AppendOf
<1>6. \A y : Pending(y)' <=> Pending(y) \/ y = e
  BY <1>5 DEF Pending, Of
<1>7. CASE x = e
  BY <1>6, <1>7 DEF ToCome
<1>8. CASE x # e
  <2>1. cfg'[x] = cfg[x] /\ Due(x)
    BY <1>1, <1>2, <1>8 DEF AInv, IInv, TypeOK, Due
  <2>2. kernel[x] = Content[cfg[x]] \/ ToCome(x)
    BY <2>1 DEF Served
  <2>3. ToCome(x) => ToCome(x)'
    BY <1>2, <1>6, <2>1 DEF ToCome
  <2>4. QED BY <2>1, <2>2, <2>3
<1>9. QED BY <1>7, <1>8

LEMMA LinkServed ==
    ASSUME AInv, Served, NEW l \in Link, NEW i \in Index,
           links' = [links EXCEPT ![l] = i], i # 0 => UNCHANGED <<kernel, raced>>,
           \A x \in Entry : LinkOf[x] # l =>
               kernel'[x] = kernel[x] /\ (x \in raced => x \in raced'),
           Alive => news' = Append(news, <<l, i>>),
           UNCHANGED <<cfg, queue, phase, work, held>>
    PROVE  Served'
<1> SUFFICES ASSUME phase \in {"load4", "load6", "running"}, NEW x \in Four, x \notin raced',
                    Due(x)'
             PROVE  kernel'[x] = Content[cfg[x]] \/ ToCome(x)'
  BY DEF Served
<1>1. news \in Seq(Link \X Index) /\ <<l, i>> \in Link \X Index /\ news' = Append(news, <<l, i>>)
  BY DEF AInv, IInv, TypeOK, Alive
<1>2. \A k : Of(news', k) <=> Of(news, k) \/ k = l
  BY <1>1, AppendOf
<1>3. CASE LinkOf[x] = l
  BY <1>2, <1>3 DEF ToCome
<1>4. CASE LinkOf[x] # l
  <2>1. Due(x) /\ x \notin raced /\ kernel'[x] = kernel[x]
    BY <1>4 DEF Due, AInv, IInv, TypeOK
  <2>2. ToCome(x) => ToCome(x)'
    BY <1>2 DEF ToCome, Pending
  <2>3. QED BY <2>1, <2>2 DEF Served
<1>5. QED BY <1>3, <1>4

LEMMA MainServed ==
    ASSUME AInv, Served, Start \/ Open \/ Watch \/ Load \/ Unwatch \/ Close \/ Unregister \/ Crash
    PROVE  Served'
<1>1. CASE phase' \notin {"load4", "load6", "running"}
  BY <1>1 DEF Served
<1>2. CASE phase = "watch4" /\ phase' = "load4"
  <2>1. work' = [work EXCEPT !["main"] = {Four}]
    BY <1>2 DEF Watch, Start, Open, Load, Unwatch, Close, Unregister, Crash
  <2>2. Four \in work'["main"] /\ "main" \in Thread
    BY <2>1 DEF AInv, IInv, TypeOK, Thread
  <2>3. \A x \in Four : ToCome(x)'
    BY <2>2 DEF ToCome
  <2>4. QED BY <2>3 DEF Served
<1>3. CASE Load
  <2>1. UNCHANGED <<cfg, queue, links, news, kernel, raced, held>>
    BY <1>3 DEF Load, tree, linkvars
  <2>2. phase \in {"load4", "load6", "running"} /\ work["main"] = {}
    BY <1>3 DEF Load, Idle
  <2>3. ASSUME NEW u \in Thread PROVE work[u] \subseteq work'[u]
    BY <1>3, <2>2 DEF Load, AInv, IInv, TypeOK
  <2>4. \A x \in Four : ToCome(x) => ToCome(x)'
    BY <2>1, <2>3 DEF ToCome, Pending
  <2>5. QED BY <2>1, <2>2, <2>4 DEF Served, Due
<1>4. QED
  BY <1>1, <1>2, <1>3 DEF Start, Open, Watch, Load, Unwatch, Close, Unregister, Crash

LEMMA ServedNext == AInv /\ Served /\ [Next]_vars => Served'
<1> SUFFICES ASSUME AInv, Served, [Next]_vars PROVE Served'
  OBVIOUS
<1>1. CASE LinkUp
  <2>1. PICK l \in Link : /\ links' = [links EXCEPT ![l] = fresh]
                          /\ Alive => news' = Append(news, <<l, fresh>>)
    BY <1>1 DEF LinkUp
  <2>2. fresh \in Index /\ UNCHANGED <<cfg, queue, phase, work, held, kernel, raced>>
    BY <1>1 DEF LinkUp, AInv, IInv, TypeOK, Index, tree, life
  <2>3. QED BY <2>1, <2>2, LinkServed
<1>2. CASE LinkGone
  <2>1. PICK l \in Link : /\ links' = [links EXCEPT ![l] = 0]
                          /\ Alive => news' = Append(news, <<l, 0>>)
                          /\ kernel' = [e \in Entry |-> IF LinkOf[e] = l THEN NULL ELSE kernel[e]]
                          /\ raced' = {e \in raced : LinkOf[e] # l}
    BY <1>2 DEF LinkGone
  <2>2. 0 \in Index /\ UNCHANGED <<cfg, queue, phase, work, held>>
    BY <1>2 DEF LinkGone, life, Index
  <2>3. QED BY <2>1, <2>2, LinkServed
<1>3. CASE UNCHANGED vars
  BY <1>3 DEF Served, Due, ToCome, Pending, vars, tree, linkvars, life
<1>4. QED
  BY <1>1, <1>2, <1>3, TellServed, DeliverServed, RewatchServed, ReceiveServed, EditServed,
     MainServed
  DEF Next, MainStep, NetlinkStep, Thread

\* "Load existing configuration", "apply configuration to new interfaces" and "Manage
\* changes" leave nothing out: what is configured for an IPv4 entry is in the kernel
\* once all is quiet, in whatever order it, its link and the daemon came, and however
\* the three threads that act on it took turns; but for entries that raced.
THEOREM AlwaysApplied == Spec => []Applied
<1>1. Init => Served
  BY DEF Init, Served
<1>2. AInv /\ Served => Applied
  <2>1. news = <<>> => \A k : ~Of(news, k)
    BY DEF Of
  <2>2. queue = <<>> => \A e : ~Pending(e)
    BY DEF Pending
  <2>3. QED BY <2>1, <2>2 DEF Served, ToCome, Applied, Quiescent, Idle
<1>3. QED BY <1>1, <1>2, ServedNext, AInvariance, PTL DEF Spec
=============================================================================
