----------------------------- MODULE RibProofs -----------------------------
(* Proofs about Rib for every value of its constants.                      *)
EXTENDS Rib, Queues

------------------------------------------------------------------------------
(* Operators on routes.                                                    *)

LEMMA SortOfChoice ==
    ASSUME NEW k \in Key, NEW leaf \in Leaf, NEW v \in Choices(k, leaf)
    PROVE  /\ v = NULL \/ v \in Sort(leaf)
           /\ v \in Value
<1>1. v = NULL \/ v \in Sort(leaf)
  BY CandidatesAssumption DEF Choices
<1>2. v \in Value
  BY DEF Value
<1>. QED BY <1>1, <1>2

\* Or-ing 1 into the distance half keeps it a half word.
LEMMA OrOneType == ASSUME NEW n \in Priority PROVE OrOne(n) \in Priority
BY HalfAssumption DEF OrOne, Priority

LEMMA BlankType == ASSUME NEW k \in Key PROVE Blank(k) \in RouteObject
BY HalfAssumption DEF Blank, RouteObject, Key, Priority

\* Applying an accepted value to a route object gives a route object.
LEMMA ApplyType ==
    ASSUME NEW k \in Key, NEW rr \in RouteObject, NEW leaf \in Leaf,
           NEW v, v = NULL \/ v \in Sort(leaf), Accepts(k, leaf, v)
    PROVE  Apply(k, rr, leaf, v) \in RouteObject
<1>. k[1] \in Family
  BY DEF Key
<1>1. CASE leaf = "prefix"
  BY <1>1, AddressAssumption DEF Apply, Accepts, Sort, RouteObject
<1>2. CASE leaf = "nexthop"
  BY <1>2, AddressAssumption DEF Apply, Accepts, Sort, RouteObject, Hop
<1>3. CASE leaf = "ifname"
  BY <1>3 DEF Apply, Sort, RouteObject, Hop
<1>4. CASE leaf = "distance"
  <2>1. Amount(v) \in 0 .. Half
    BY <1>4, HalfAssumption DEF Amount, Accepts, InRange
  <2>. DEFINE d == Amount(v)
  <2>2. (IF d = Half THEN 0 ELSE d) \in Priority
    BY <2>1, HalfAssumption DEF Priority
  <2>3. Apply(k, rr, leaf, v) = [rr EXCEPT !.hi = IF d = Half THEN 0 ELSE d]
    BY <1>4 DEF Apply, SetDistance
  <2>. HIDE DEF d
  <2>. QED BY <2>2, <2>3 DEF RouteObject
<1>5. CASE leaf = "metric"
  <2>1. Amount(v) \in 0 .. Half
    BY <1>5, HalfAssumption DEF Amount, Accepts, InRange
  <2>. DEFINE m == Amount(v)
  <2>2. OrOne(rr.hi) \in Priority /\ 0 \in Priority /\ (m # Half => m \in Priority)
    BY <2>1, OrOneType, HalfAssumption DEF Priority, RouteObject
  <2>3. Apply(k, rr, leaf, v) =
            IF m = Half THEN [rr EXCEPT !.lo = 0, !.hi = OrOne(rr.hi)]
                        ELSE [rr EXCEPT !.lo = m]
    BY <1>5 DEF Apply, SetMetric
  <2>. HIDE DEF m
  <2>. QED BY <2>2, <2>3 DEF RouteObject
<1>6. CASE leaf \in {"id", "protocol"}
  BY <1>6 DEF Apply
<1>. QED BY <1>1, <1>2, <1>3, <1>4, <1>5, <1>6 DEF Leaf

LEMMA BuiltFromType ==
    ASSUME NEW k \in Key, NEW tree,
           \A leaf \in Leaf : tree[leaf] = NULL \/ tree[leaf] \in Sort(leaf),
           \A leaf \in Present(tree) : Accepts(k, leaf, tree[leaf])
    PROVE  BuiltFrom(k, tree) \subseteq RouteObject
<1>1. ASSUME NEW rr \in RouteObject, NEW leaf \in Leaf
      PROVE  Put(k, rr, leaf, tree) \in RouteObject
  BY <1>1, ApplyType DEF Put, Present
<1>2. ASSUME NEW leaf \in Present(tree)
      PROVE  Apply(k, Blank(k), leaf, tree[leaf]).nh \in Hop \cup {NULL}
  <2>1. Apply(k, Blank(k), leaf, tree[leaf]) \in RouteObject
    BY <1>2, ApplyType, BlankType DEF Present
  <2>. QED BY <2>1 DEF RouteObject
<1>. DEFINE hops == {Apply(k, Blank(k), leaf, tree[leaf]).nh :
                         leaf \in Present(tree) \cap {"nexthop", "ifname"}}
            prios == {Put(k, Put(k, Blank(k), "distance", tree), "metric", tree),
                      Put(k, Put(k, Blank(k), "metric", tree), "distance", tree)}
<1>3. hops \subseteq Hop \cup {NULL}
  BY <1>2
<1>4. \A p \in prios : Put(k, p, "prefix", tree) \in RouteObject
  BY <1>1, BlankType DEF Leaf
<1>5. BuiltFrom(k, tree) =
          {[Put(k, p, "prefix", tree) EXCEPT !.nh = h] : p \in prios, h \in hops}
  BY DEF BuiltFrom
<1>. HIDE DEF hops, prios
<1>. QED BY <1>3, <1>4, <1>5 DEF RouteObject

LEMMA WantedType ==
    ASSUME NEW k \in Key, NEW tree,
           \A leaf \in Leaf : tree[leaf] = NULL \/ tree[leaf] \in Sort(leaf)
    PROVE  Wanted(k, tree) \subseteq Route
BY BuiltFromType DEF Wanted, Route

\* A delete request only takes routes away,
LEMMA DeleteSubset ==
    ASSUME NEW routes, NEW rr
    PROVE  KernelDelete(routes, rr) \subseteq routes
BY DEF KernelDelete

\* and takes away the very route it describes, wildcard or not.
LEMMA DeleteOwn ==
    ASSUME NEW routes \in SUBSET Route, NEW rr \in routes
    PROVE  rr \notin KernelDelete(routes, rr)
<1>1. rr \in Matching(routes, rr)
  BY DEF Matching, SamePrio
<1>2. ASSUME NEW s \in Matching(routes, rr) PROVE PrioLeq(rr, s)
  <2>1. /\ s \in RouteObject /\ rr \in RouteObject
        /\ SamePrio(s, rr) \/ (rr.hi = 0 /\ rr.lo = 0)
    BY <1>2 DEF Matching, Route
  <2>2. s.hi \in Nat /\ s.lo \in Nat /\ rr.hi \in Nat /\ rr.lo \in Nat
    BY <2>1, HalfAssumption DEF RouteObject, Priority
  <2>. QED BY <2>1, <2>2 DEF SamePrio, PrioLeq
<1>. QED BY <1>1, <1>2 DEF KernelDelete

------------------------------------------------------------------------------
(* Type correctness.                                                       *)

LEMMA BuiltType ==
    ASSUME TypeOK, NEW k \in Key
    PROVE  Built(k) \subseteq Route
<1>1. <<4, k[2]>> \in Key
  BY DEF Key, Family
<1>2. \A leaf \in Leaf : TreeOf(k)[leaf] = NULL \/ TreeOf(k)[leaf] \in Sort(leaf)
  BY <1>1, SortOfChoice DEF TypeOK, TreeOf
<1>. QED BY <1>2, WantedType DEF Built

\* The callback keeps the types of what it changes.
LEMMA HandleType ==
    ASSUME TypeOK, NEW k \in Key, NEW leaf \in Leaf, NEW v \in Choices(k, leaf),
           Handle(k, leaf, v)
    PROVE  /\ table' \in [Key -> RouteObject \cup {NULL}]
           /\ freed' \subseteq Key
           /\ kernel' \subseteq Route
           /\ orphans' \subseteq kernel'
<1>. /\ table \in [Key -> RouteObject \cup {NULL}] /\ freed \subseteq Key
     /\ kernel \subseteq Route /\ orphans \subseteq kernel
  BY DEF TypeOK
<1>0. Route \subseteq RouteObject
  BY DEF Route
<1>1. CASE HandleAdd(k)
  BY <1>0, <1>1, BuiltType DEF HandleAdd, Quiet, SetKernel
<1>2. CASE HandleDelete(k, leaf, v)
  BY <1>2, DeleteSubset DEF HandleDelete, SetKernel
<1>3. CASE HandleUpdate(k, leaf, v)
  <2>. DEFINE new == Apply(k, table[k], leaf, v)
              rest == KernelDelete(kernel, table[k])
              added == Valid(new) /\ KernelAccepts(rest, new)
  <2>1. CASE ~Accepts(k, leaf, v) \/ new = table[k]
    BY <1>3, <2>1 DEF HandleUpdate, Changed, Quiet
  <2>2. CASE Accepts(k, leaf, v) /\ new # table[k]
    <3>1. new \in RouteObject
      BY <1>3, <2>2, ApplyType, SortOfChoice DEF HandleUpdate
    <3>2. rest \subseteq Route
      BY DeleteSubset
    <3>3. /\ SetKernel(IF added THEN rest \cup {new} ELSE rest)
          /\ table' = [table EXCEPT ![k] = IF added \/ k[2] = 0 THEN new ELSE NULL]
          /\ UNCHANGED freed
      BY <1>3, <2>2 DEF HandleUpdate, Changed, Rest, Entry
    <3>4. added => new \in Route
      BY <3>1 DEF Route
    <3>. HIDE DEF new, rest, added
    <3>. QED BY <3>1, <3>2, <3>3, <3>4 DEF SetKernel
  <2>. QED BY <2>1, <2>2
<1>4. CASE Undefined(k, leaf, v) /\ Quiet
  BY <1>4 DEF Quiet
<1>. QED BY <1>1, <1>2, <1>3, <1>4 DEF Handle

LEMMA EventType == \A e \in Event : /\ e[1] \in Key /\ e[2] \in Leaf
                                     /\ e[3] \in Choices(e[1], e[2])
BY DEF Event

LEMMA InitType == Init => TypeOK
<1>1. \A k \in Key, leaf \in Leaf : NULL \in Choices(k, leaf)
  BY DEF Choices
<1>2. \A k \in Key, leaf \in Leaf : NULL \in Value
  BY <1>1, SortOfChoice
<1>. QED BY <1>1, <1>2 DEF Init, TypeOK, NoRoutes

LEMMA NextType == TypeOK /\ [Next]_vars => TypeOK'
<1>. SUFFICES ASSUME TypeOK, [Next]_vars PROVE TypeOK'
  OBVIOUS
<1>. USE DEF TypeOK
<1>1. CASE Startup
  BY <1>1 DEF Startup
<1>2. CASE Snapshot
  <2>1. replay' \subseteq Event
    <3>. SUFFICES ASSUME NEW k \in {4} \X Index, NEW leaf \in Leaf
                  PROVE  <<k, leaf, cfg[k][leaf]>> \in Event
      BY <1>2 DEF Snapshot
    <3>1. k \in Key
      BY DEF Key, Family
    <3>. QED BY <3>1, SortOfChoice DEF Event
  <2>2. passes' \in 0 .. 2
    BY <1>2 DEF Snapshot
  <2>. QED BY <1>2, <2>1, <2>2 DEF Snapshot
<1>3. CASE Replay
  <2>1. PICK x \in replay : replay' = replay \ {x} /\ Handle(x[1], x[2], x[3])
    BY <1>3 DEF Replay
  <2>2. x \in Event
    OBVIOUS
  <2>. QED BY <1>3, <2>1, <2>2, EventType, HandleType DEF Replay
<1>4. CASE StartDone
  BY <1>4 DEF StartDone
<1>5. CASE Watch
  <2>1. Head(queue) \in Event /\ queue' \in Seq(Event)
    BY <1>5 DEF Watch
  <2>. DEFINE e == Head(queue)
  <2>2. Handle(e[1], e[2], e[3])
    BY <1>5 DEF Watch
  <2>. QED BY <1>5, <2>1, <2>2, EventType, HandleType DEF Watch
<1>6. CASE Exit
  BY <1>6 DEF Exit
<1>7. CASE ExitRoute
  BY <1>7, DeleteSubset DEF ExitRoute, SetKernel
<1>8. CASE ExitDone
  BY <1>8 DEF ExitDone, NoRoutes
<1>9. CASE Crash
  BY <1>9 DEF Crash, NoRoutes
<1>10. CASE Edit
  <2>0. PICK k \in Key, leaf \in Leaf : \E v \in Choices(k, leaf) :
            /\ cfg' = [cfg EXCEPT ![k][leaf] = v]
            /\ queue' \in {queue, Append(queue, <<k, leaf, v>>)}
    BY <1>10 DEF Edit
  <2>1. PICK v \in Choices(k, leaf) :
            /\ cfg' = [cfg EXCEPT ![k][leaf] = v]
            /\ queue' \in {queue, Append(queue, <<k, leaf, v>>)}
    BY <2>0
  <2>2. v \in Value /\ <<k, leaf, v>> \in Event
    BY SortOfChoice DEF Event
  <2>3. queue' \in Seq(Event)
    <3>1. \A ev \in Event : Append(queue, ev) \in Seq(Event)
      OBVIOUS
    <3>. QED BY <2>1, <2>2, <3>1
  <2>4. cfg' \in [Key -> [Leaf -> Value]]
    BY <2>1, <2>2
  <2>5. \A j \in Key, l \in Leaf : cfg'[j][l] \in Choices(j, l)
    BY <2>1
  <2>6. UNCHANGED <<phase, passes, replay, table, freed, pending, kernel,
                    orphans, links>>
    BY <1>10 DEF Edit
  <2>. QED BY <2>3, <2>4, <2>5, <2>6
<1>11. CASE LinkDown
  BY <1>11 DEF LinkDown, SetKernel
<1>12. CASE LinkUp
  BY <1>12 DEF LinkUp
<1>13. CASE UNCHANGED vars
  BY <1>13 DEF vars
<1>. QED BY <1>1, <1>2, <1>3, <1>4, <1>5, <1>6, <1>7, <1>8, <1>9, <1>10,
            <1>11, <1>12, <1>13 DEF Next

\* Every variable keeps its type: no sequence of edits, replays, flushes and
\* restarts makes kermond hand the kernel a route without a destination or a
\* nexthop, or a priority wider than its two half words.
THEOREM TypeCorrect == Spec => []TypeOK
BY InitType, NextType, PTL DEF Spec

------------------------------------------------------------------------------
(* Table entries are whole routes.                                         *)

LEMMA HandleValid ==
    ASSUME TypeOK, TableValid, NEW k \in Key, NEW leaf \in Leaf, NEW v,
           Handle(k, leaf, v)
    PROVE  TableValid'
<1>. table \in [Key -> RouteObject \cup {NULL}]
  BY DEF TypeOK
<1>1. CASE HandleAdd(k)
  <2>1. \A rr \in Built(k) : Valid(rr)
    BY BuiltType DEF Route
  <2>. QED BY <1>1, <2>1 DEF HandleAdd, Quiet, TableValid
<1>2. CASE HandleDelete(k, leaf, v)
  BY <1>2 DEF HandleDelete, TableValid
<1>3. CASE HandleUpdate(k, leaf, v)
  BY <1>3 DEF HandleUpdate, Entry, Quiet, TableValid
<1>4. CASE Undefined(k, leaf, v) /\ Quiet
  BY <1>4 DEF Quiet, TableValid
<1>. QED BY <1>1, <1>2, <1>3, <1>4 DEF Handle

\* Both threads run the callback for an event, while the watchers are there.
LEMMA HandlerSteps ==
    ASSUME TypeOK, Replay \/ Watch
    PROVE  \E e \in Event : Handle(e[1], e[2], e[3]) /\ phase' = phase /\ Watching
<1>1. CASE Replay
  BY <1>1 DEF Replay, TypeOK, Watching
<1>2. CASE Watch
  <2>1. Head(queue) \in Event
    BY <1>2 DEF Watch, TypeOK
  <2>. DEFINE e == Head(queue)
  <2>2. Handle(e[1], e[2], e[3]) /\ phase' = phase /\ Watching
    BY <1>2 DEF Watch
  <2>. QED BY <2>1, <2>2
<1>. QED BY <1>1, <1>2

\* Only the callback and the end of a process change the table.
LEMMA TableSteps ==
    ASSUME TypeOK, [Next]_vars
    PROVE  \/ \E e \in Event : Handle(e[1], e[2], e[3]) /\ phase' = phase /\ Watching
           \/ table' = NoRoutes /\ phase' = "down"
           \/ UNCHANGED table
<1>1. CASE Replay \/ Watch
  BY <1>1, HandlerSteps
<1>2. CASE ExitDone \/ Crash
  BY <1>2 DEF ExitDone, Crash
<1>3. CASE UNCHANGED vars
  BY <1>3 DEF vars
<1>. QED BY <1>1, <1>2, <1>3
         DEF Next, Startup, Snapshot, StartDone, Exit, ExitRoute, Edit, LinkDown, LinkUp

LEMMA NextValid == TypeOK /\ TableValid /\ [Next]_vars => TableValid'
<1>. SUFFICES ASSUME TypeOK, TableValid, [Next]_vars PROVE TableValid'
  OBVIOUS
<1>1. ASSUME NEW e \in Event, Handle(e[1], e[2], e[3]) PROVE TableValid'
  BY <1>1, EventType, HandleValid
<1>2. CASE table' = NoRoutes
  BY <1>2 DEF TableValid, NoRoutes
<1>3. CASE UNCHANGED table
  BY <1>3 DEF TableValid
<1>. QED BY <1>1, <1>2, <1>3, TableSteps

\* An in-place change that removes a route's nexthop removes its table entry:
\* no entry of a positive index ever holds half a route.
THEOREM TableAlwaysValid == Spec => []TableValid
<1>1. Init => TableValid
  BY DEF Init, TableValid, NoRoutes
<1>. QED BY <1>1, NextValid, TypeCorrect, PTL DEF Spec

------------------------------------------------------------------------------
(* Ownership.                                                              *)

\* A released route's entry stays in the table.
FreedDangles == \A k \in freed : table[k] # NULL

LEMMA HandleDangles ==
    ASSUME TypeOK, FreedDangles, NEW k \in Key, NEW leaf \in Leaf, NEW v,
           Handle(k, leaf, v)
    PROVE  FreedDangles'
<1>. table \in [Key -> RouteObject \cup {NULL}] /\ freed \subseteq Key
  BY DEF TypeOK
<1>1. CASE HandleAdd(k)
  BY <1>1 DEF HandleAdd, Quiet, FreedDangles
<1>2. CASE HandleDelete(k, leaf, v)
  BY <1>2 DEF HandleDelete, FreedDangles
<1>3. CASE HandleUpdate(k, leaf, v)
  BY <1>3 DEF HandleUpdate, Quiet, FreedDangles
<1>4. CASE Undefined(k, leaf, v) /\ Quiet
  BY <1>4 DEF Quiet, FreedDangles
<1>. QED BY <1>1, <1>2, <1>3, <1>4 DEF Handle

LEMMA NextDangles == TypeOK /\ FreedDangles /\ [Next]_vars => FreedDangles'
<1>. SUFFICES ASSUME TypeOK, FreedDangles, [Next]_vars PROVE FreedDangles'
  OBVIOUS
<1>1. CASE Replay \/ Watch
  BY <1>1, HandlerSteps, EventType, HandleDangles
<1>2. CASE ExitDone \/ Crash
  BY <1>2 DEF ExitDone, Crash, FreedDangles
<1>. QED BY <1>1, <1>2
         DEF Next, vars, FreedDangles, Startup, Snapshot, StartDone, Exit, ExitRoute,
             Edit, LinkDown, LinkUp

\* While the watchers are registered, the callback for one entry keeps every
\* route of this process owned.
LEMMA HandleOwned ==
    ASSUME TypeOK, KernelOwned, FreedDangles, Watching, phase' = phase,
           NEW k \in Key, NEW leaf \in Leaf, NEW v,
           Handle(k, leaf, v)
    PROVE  KernelOwned'
<1>. /\ table \in [Key -> RouteObject \cup {NULL}] /\ freed \subseteq Key
     /\ kernel \in SUBSET Route /\ orphans \subseteq kernel
  BY DEF TypeOK
<1>. phase \notin {"exiting", "down"}
  BY DEF Watching
<1>1. \A r \in kernel \ orphans : \E j \in Key \ freed : table[j] = r
  BY DEF KernelOwned, Tracked
<1>2. NULL \notin kernel
  BY NullRouteAssumption DEF Route
<1>3. \A r \in KernelDelete(kernel, table[k]) \ orphans :
          \E j \in Key \ freed : j # k /\ table[j] = r
  BY <1>1, DeleteSubset, DeleteOwn
<1>. SUFFICES \A r \in kernel' \ orphans' : \E j \in Key \ freed' : table'[j] = r
  BY DEF KernelOwned, Tracked
<1>4. CASE Quiet
  BY <1>1, <1>4 DEF Quiet
<1>5. CASE HandleAdd(k) /\ ~Quiet
  <2>1. PICK rr \in Built(k) : /\ table' = [table EXCEPT ![k] = rr]
                               /\ SetKernel(kernel \cup {rr})
                               /\ UNCHANGED freed
    BY <1>5 DEF HandleAdd
  <2>2. k \notin freed /\ \A r \in kernel : r # table[k]
    BY <1>2, <1>5 DEF HandleAdd, FreedDangles
  <2>. QED BY <1>1, <2>1, <2>2 DEF SetKernel
<1>6. CASE HandleDelete(k, leaf, v)
  BY <1>3, <1>6 DEF HandleDelete, SetKernel
<1>7. CASE HandleUpdate(k, leaf, v) /\ ~Quiet
  <2>. DEFINE new == Apply(k, table[k], leaf, v)
              rest == KernelDelete(kernel, table[k])
              added == Valid(new) /\ KernelAccepts(rest, new)
  <2>1. /\ SetKernel(IF added THEN rest \cup {new} ELSE rest)
        /\ table' = [table EXCEPT ![k] = IF added \/ k[2] = 0 THEN new ELSE NULL]
        /\ UNCHANGED freed /\ k \notin freed
    BY <1>7 DEF HandleUpdate, Rest, Entry
  <2>. HIDE DEF new, added
  <2>. QED BY <1>3, <2>1 DEF SetKernel
<1>. QED BY <1>4, <1>5, <1>6, <1>7 DEF Handle

LEMMA NextOwned ==
    TypeOK /\ FreedDangles /\ KernelOwned /\ [Next]_vars => KernelOwned'
<1>. SUFFICES ASSUME TypeOK, FreedDangles, KernelOwned, [Next]_vars PROVE KernelOwned'
  OBVIOUS
<1>. /\ table \in [Key -> RouteObject \cup {NULL}] /\ pending \subseteq Key
     /\ kernel \in SUBSET Route
  BY DEF TypeOK
<1>0. /\ \A r \in kernel \ orphans : \E j \in Tracked : table[j] = r
      /\ phase = "down" => table = NoRoutes
  BY DEF KernelOwned
<1>1. CASE Startup \/ Snapshot \/ StartDone \/ Edit \/ LinkUp \/ UNCHANGED vars
  <2>1. UNCHANGED <<table, freed, pending, kernel, orphans>>
    BY <1>1 DEF Startup, Snapshot, StartDone, Edit, LinkUp, vars
  <2>2. /\ (phase' = "exiting") <=> (phase = "exiting")
        /\ phase' = "down" => phase = "down"
    BY <1>1 DEF Startup, Snapshot, StartDone, Edit, LinkUp, vars
  <2>. QED BY <1>0, <2>1, <2>2 DEF KernelOwned, Tracked
<1>2. CASE Replay \/ Watch
  BY <1>2, HandlerSteps, EventType, HandleOwned
<1>3. CASE Exit
  <2>1. NULL \notin kernel
    BY NullRouteAssumption DEF Route
  <2>. QED BY <1>0, <1>3, <2>1 DEF Exit, KernelOwned, Tracked
<1>4. CASE ExitRoute
  <2>1. PICK k \in pending :
            /\ pending' = pending \ {k}
            /\ IF k \in freed THEN UNCHANGED <<kernel, orphans>>
                              ELSE SetKernel(KernelDelete(kernel, table[k]))
    BY <1>4 DEF ExitRoute
  <2>2. phase = "exiting" /\ UNCHANGED <<phase, table, freed>>
    BY <1>4 DEF ExitRoute
  <2>3. CASE k \in freed
    BY <1>0, <2>1, <2>2, <2>3 DEF KernelOwned, Tracked
  <2>4. CASE k \notin freed
    <3>1. \A r \in KernelDelete(kernel, table[k]) : r \in kernel /\ r # table[k]
      BY DeleteSubset, DeleteOwn
    <3>2. /\ kernel' = KernelDelete(kernel, table[k])
          /\ orphans' = orphans \cap kernel'
      BY <2>1, <2>4 DEF SetKernel
    <3>3. \A r \in kernel' \ orphans' : \E j \in Tracked : j # k /\ table[j] = r
      BY <1>0, <3>1, <3>2
    <3>4. \A j \in Tracked : j # k => j \in Tracked'
      BY <2>1, <2>2 DEF Tracked
    <3>. QED BY <2>2, <3>3, <3>4 DEF KernelOwned
  <2>. QED BY <2>3, <2>4
<1>5. CASE ExitDone
  BY <1>0, <1>5 DEF ExitDone, KernelOwned, Tracked
<1>6. CASE Crash
  BY <1>6 DEF Crash, KernelOwned
<1>7. CASE LinkDown
  BY <1>0, <1>7 DEF LinkDown, SetKernel, KernelOwned, Tracked
<1>. QED BY <1>1, <1>2, <1>3, <1>4, <1>5, <1>6, <1>7 DEF Next

\* For any entries, candidate values and environment, kermond can account for
\* every static route it put in the kernel until it has deleted it again: a
\* route is only ever left behind by a process that died.
THEOREM AlwaysOwned == Spec => []KernelOwned
<1>1. Init => FreedDangles /\ KernelOwned
  BY DEF Init, FreedDangles, KernelOwned
<1>. QED BY <1>1, NextDangles, NextOwned, TypeCorrect, PTL DEF Spec

------------------------------------------------------------------------------
(* The table and the kernel agree as long as only kermond changes routes.  *)

SlotsDistinct == \A r, s \in kernel : SameSlot(r, s) => r = s

\* When no two routes share a slot, a delete request for an installed route
\* takes away that route only: the wildcard of a zero priority is harmless.
LEMMA DeleteExactly ==
    ASSUME NEW routes \in SUBSET Route, NEW rr \in routes,
           \A r, s \in routes : SameSlot(r, s) => r = s
    PROVE  KernelDelete(routes, rr) = routes \ {rr}
<1>1. ASSUME NEW s \in Matching(routes, rr), PrioLeq(s, rr) PROVE s = rr
  <2>1. /\ s \in RouteObject /\ rr \in RouteObject
        /\ s.fam = rr.fam /\ s.dst = rr.dst
        /\ SamePrio(s, rr) \/ (rr.hi = 0 /\ rr.lo = 0)
    BY <1>1 DEF Matching, Route
  <2>2. s.hi \in Nat /\ s.lo \in Nat /\ rr.hi \in Nat /\ rr.lo \in Nat
    BY <2>1, HalfAssumption DEF RouteObject, Priority
  <2>3. SamePrio(s, rr)
    BY <1>1, <2>1, <2>2 DEF SamePrio, PrioLeq
  <2>. QED BY <1>1, <2>1, <2>3 DEF SameSlot, Matching
<1>2. rr \in Matching(routes, rr)
  BY DEF Matching, SamePrio
<1>3. routes \ {rr} \subseteq KernelDelete(routes, rr)
  BY <1>1, <1>2 DEF KernelDelete
<1>. QED BY <1>3, DeleteSubset, DeleteOwn

\* While entries are installed: each one in the kernel, each in its own slot.
InKernel(k) ==
    table[k] # NULL =>
        /\ table[k] \in kernel
        /\ \A j \in Key \ {k} : table[j] = NULL \/ ~SameSlot(table[j], table[k])

LEMMA HandleInKernel ==
    ASSUME TypeOK, SlotsDistinct, \A k \in Key : InKernel(k), 0 \notin Index,
           NEW k \in Key, NEW leaf \in Leaf, NEW v, Handle(k, leaf, v)
    PROVE  SlotsDistinct' /\ \A j \in Key : InKernel(j)'
<1>. table \in [Key -> RouteObject \cup {NULL}] /\ kernel \in SUBSET Route
  BY DEF TypeOK
<1>0. k[2] # 0
  BY DEF Key
<1>1. CASE Quiet
  BY <1>1 DEF Quiet, SlotsDistinct, InKernel
<1>2. CASE HandleAdd(k) /\ ~Quiet
  <2>1. PICK rr \in Built(k) : /\ KernelAccepts(kernel, rr)
                               /\ table' = [table EXCEPT ![k] = rr]
                               /\ kernel' = kernel \cup {rr}
    BY <1>2 DEF HandleAdd, SetKernel
  <2>2. \A r \in kernel : ~SameSlot(r, rr) /\ ~SameSlot(rr, r)
    BY <2>1 DEF KernelAccepts, SameSlot, SamePrio
  <2>3. SlotsDistinct'
    BY <2>1, <2>2 DEF SlotsDistinct
  <2>4. \A j \in Key : InKernel(j)'
    BY <2>1, <2>2 DEF InKernel
  <2>. QED BY <2>3, <2>4
<1>3. CASE table[k] # NULL /\ ~Quiet
  <2>. DEFINE rest == kernel \ {table[k]}
  <2>1. KernelDelete(kernel, table[k]) = rest
    BY <1>3, DeleteExactly DEF InKernel, SlotsDistinct
  <2>2. \A j \in Key \ {k} : table[j] # NULL => table[j] \in rest
    BY <1>3 DEF InKernel, SameSlot, SamePrio
  <2>3. CASE HandleDelete(k, leaf, v)
    <3>1. kernel' = rest /\ table' = [table EXCEPT ![k] = NULL]
      BY <1>0, <2>1, <2>3 DEF HandleDelete, SetKernel
    <3>. QED BY <2>2, <3>1 DEF SlotsDistinct, InKernel
  <2>4. CASE HandleUpdate(k, leaf, v)
    <3>. DEFINE new == Apply(k, table[k], leaf, v)
                added == Valid(new) /\ KernelAccepts(rest, new)
    <3>1. /\ kernel' = IF added THEN rest \cup {new} ELSE rest
          /\ table' = [table EXCEPT ![k] = IF added THEN new ELSE NULL]
      BY <1>0, <1>3, <2>1, <2>4 DEF HandleUpdate, Rest, Entry, SetKernel
    <3>2. added => \A r \in rest : ~SameSlot(r, new) /\ ~SameSlot(new, r)
      BY DEF KernelAccepts, SameSlot, SamePrio
    <3>. HIDE DEF new, added
    <3>3. SlotsDistinct'
      BY <3>1, <3>2 DEF SlotsDistinct
    <3>4. \A j \in Key : InKernel(j)'
      BY <2>2, <3>1, <3>2 DEF InKernel
    <3>. QED BY <3>3, <3>4
  <2>5. ~HandleAdd(k)
    BY <1>3 DEF HandleAdd
  <2>. QED BY <1>3, <2>3, <2>4, <2>5 DEF Handle
<1>4. Quiet \/ HandleAdd(k) \/ table[k] # NULL
  BY DEF Handle, HandleDelete, HandleUpdate
<1>. QED BY <1>1, <1>2, <1>3, <1>4

AgreeInv == SlotsDistinct /\ (phase # "exiting" => \A k \in Key : InKernel(k))

LEMMA NextAgree ==
    ASSUME "links" \notin Env, 0 \notin Index
    PROVE  TypeOK /\ KernelOwned /\ AgreeInv /\ [Next]_vars => AgreeInv'
<1>. SUFFICES ASSUME TypeOK, KernelOwned, AgreeInv, [Next]_vars PROVE AgreeInv'
  OBVIOUS
<1>1. CASE \E e \in Event : Handle(e[1], e[2], e[3]) /\ phase' = phase /\ Watching
  <2>1. PICK e \in Event : Handle(e[1], e[2], e[3]) /\ phase' = phase /\ Watching
    BY <1>1
  <2>2. phase # "exiting"
    BY <2>1 DEF Watching
  <2>. QED BY <2>1, <2>2, EventType, HandleInKernel DEF AgreeInv
<1>2. CASE ExitDone \/ Crash
  BY <1>2 DEF ExitDone, Crash, AgreeInv, SlotsDistinct, InKernel, NoRoutes
<1>3. CASE ExitRoute
  <2>1. kernel' \subseteq kernel /\ phase' = "exiting"
    BY <1>3, DeleteSubset DEF ExitRoute, SetKernel
  <2>. QED BY <2>1 DEF AgreeInv, SlotsDistinct
<1>4. CASE UNCHANGED <<table, kernel>> /\ (phase' # "exiting" => phase # "exiting")
  BY <1>4 DEF AgreeInv, SlotsDistinct, InKernel
<1>5. CASE Replay \/ Watch
  BY <1>1, <1>5, HandlerSteps
<1>. QED BY <1>2, <1>3, <1>4, <1>5
         DEF Next, vars, Startup, Snapshot, StartDone, Exit, Edit, LinkDown, LinkUp

\* With positive indices and no link changes, what the table says is installed
\* is installed, and no callback for one entry, however its delete request is
\* worded, costs another entry its route.
THEOREM AlwaysInKernel ==
    ASSUME "links" \notin Env, 0 \notin Index
    PROVE  Spec => []TableInKernel
<1>1. Init => AgreeInv
  BY DEF Init, AgreeInv, SlotsDistinct, InKernel, NoRoutes
<1>2. AgreeInv => TableInKernel
  BY DEF AgreeInv, InKernel, TableInKernel
<1>. QED BY <1>1, <1>2, NextAgree, TypeCorrect, AlwaysOwned, PTL DEF Spec

------------------------------------------------------------------------------
(* The manager implements RouteOwner.                                      *)

\* While it exits, the routes still to be deleted are all in the kernel, and
\* no two of them are the same.
ExitInv ==
    /\ freed = {}
    /\ phase = "exiting" => \A k \in pending :
          /\ table[k] # NULL /\ table[k] \in kernel
          /\ \A j \in pending \ {k} : table[j] # table[k]

\* Only the entry of index 0 is ever released without leaving the table.
LEMMA HandleFreed ==
    ASSUME 0 \notin Index, NEW k \in Key, NEW leaf, NEW v, Handle(k, leaf, v)
    PROVE  UNCHANGED freed
<1>1. k[2] # 0
  BY DEF Key
<1>. QED BY <1>1 DEF Handle, HandleAdd, HandleDelete, HandleUpdate, Quiet

\* Deleting the next of them at exit takes away that one only.
LEMMA ExitRouteExactly ==
    ASSUME TypeOK, AgreeInv, ExitInv, ExitRoute
    PROVE  \E k \in pending : /\ pending' = pending \ {k}
                              /\ kernel' = kernel \ {table[k]}
                              /\ phase = "exiting"
                              /\ UNCHANGED <<phase, table, freed>>
<1>1. PICK k \in pending :
          /\ pending' = pending \ {k}
          /\ IF k \in freed THEN UNCHANGED <<kernel, orphans>>
                            ELSE SetKernel(KernelDelete(kernel, table[k]))
  BY DEF ExitRoute
<1>2. phase = "exiting" /\ UNCHANGED <<phase, table, freed>>
  BY DEF ExitRoute
<1>3. k \notin freed /\ table[k] \in kernel
  BY <1>2 DEF ExitInv
<1>4. KernelDelete(kernel, table[k]) = kernel \ {table[k]}
  BY <1>3, DeleteExactly DEF TypeOK, AgreeInv, SlotsDistinct
<1>. QED BY <1>1, <1>2, <1>3, <1>4 DEF SetKernel

LEMMA NextExit ==
    ASSUME "links" \notin Env, 0 \notin Index
    PROVE  TypeOK /\ AgreeInv /\ ExitInv /\ [Next]_vars => ExitInv'
<1>. SUFFICES ASSUME TypeOK, AgreeInv, ExitInv, [Next]_vars PROVE ExitInv'
  OBVIOUS
<1>1. CASE Replay \/ Watch
  <2>1. PICK e \in Event : Handle(e[1], e[2], e[3]) /\ phase' = phase /\ Watching
    BY <1>1, HandlerSteps
  <2>2. UNCHANGED freed
    BY <2>1, EventType, HandleFreed
  <2>. QED BY <2>1, <2>2 DEF ExitInv, Watching
<1>2. CASE Exit
  <2>1. \A k \in Key : InKernel(k)
    BY <1>2 DEF Exit, AgreeInv
  <2>2. /\ pending' = {k \in Key : table[k] # NULL}
        /\ UNCHANGED <<table, freed, kernel>>
    BY <1>2 DEF Exit
  <2>. QED BY <2>1, <2>2 DEF ExitInv, InKernel, SameSlot, SamePrio
<1>3. CASE ExitRoute
  BY <1>3, ExitRouteExactly DEF ExitInv
<1>4. CASE ExitDone \/ Crash
  BY <1>4 DEF ExitDone, Crash, ExitInv
<1>5. CASE Startup \/ Snapshot \/ StartDone
  BY <1>5 DEF Startup, Snapshot, StartDone, ExitInv
<1>6. CASE Edit \/ LinkUp \/ UNCHANGED vars
  BY <1>6 DEF Edit, LinkUp, vars, ExitInv
<1>. QED BY <1>1, <1>2, <1>3, <1>4, <1>5, <1>6 DEF Next, LinkDown

\* A callback is a step of the owner it is about, or no step at all.
LEMMA HandleImplements ==
    ASSUME TypeOK, AgreeInv, ExitInv, 0 \notin Index, Watching, phase' = phase,
           NEW k \in Key, NEW leaf \in Leaf, NEW v \in Choices(k, leaf),
           Handle(k, leaf, v)
    PROVE  [Abstract!Next]_(Abstract!vars)
<1>. /\ table \in [Key -> RouteObject \cup {NULL}] /\ kernel \in SUBSET Route
     /\ phase # "exiting" /\ freed = {} /\ k[2] # 0
  BY DEF TypeOK, Watching, ExitInv, Key
<1>1. table' \in [Key -> RouteObject \cup {NULL}] /\ kernel' \subseteq Route
  BY HandleType
<1>2. OwnedRoutes = table /\ OwnedRoutes' = table'
  BY <1>1 DEF OwnedRoutes
<1>3. InKernel(k)
  BY DEF AgreeInv
<1>4. table[k] # NULL => KernelDelete(kernel, table[k]) = kernel \ {table[k]}
  BY <1>3, DeleteExactly DEF InKernel, AgreeInv, SlotsDistinct
<1>5. \A rr, routes : KernelAccepts(routes, rr) => Abstract!SlotFree(routes, rr)
  BY DEF KernelAccepts, SameSlot, SamePrio, Abstract!SlotFree, Abstract!Slot
<1>6. CASE Quiet
  BY <1>2, <1>6 DEF Quiet, Abstract!vars
<1>7. CASE HandleAdd(k) /\ ~Quiet
  <2>1. PICK rr \in Built(k) : /\ KernelAccepts(kernel, rr)
                               /\ table' = [table EXCEPT ![k] = rr]
                               /\ kernel' = kernel \cup {rr}
    BY <1>7 DEF HandleAdd, SetKernel
  <2>2. rr \in Route /\ table[k] = NULL /\ table'[k] = rr
    BY <1>7, <2>1, BuiltType DEF HandleAdd
  <2>3. Abstract!Install(k)
    BY <1>2, <1>5, <2>1, <2>2 DEF Abstract!Install, Abstract!Gains
  <2>. QED BY <2>3 DEF Abstract!Next
<1>8. CASE HandleDelete(k, leaf, v)
  <2>1. Abstract!Withdraw(k)
    BY <1>2, <1>4, <1>8 DEF HandleDelete, SetKernel, Abstract!Withdraw
  <2>. QED BY <2>1 DEF Abstract!Next
<1>9. CASE HandleUpdate(k, leaf, v) /\ ~Quiet
  <2>. DEFINE new == Apply(k, table[k], leaf, v)
              rest == kernel \ {table[k]}
              added == Valid(new) /\ KernelAccepts(rest, new)
  <2>1. /\ table[k] # NULL
        /\ kernel' = IF added THEN rest \cup {new} ELSE rest
        /\ table' = [table EXCEPT ![k] = IF added THEN new ELSE NULL]
    BY <1>4, <1>9 DEF HandleUpdate, Rest, Entry, SetKernel
  <2>2. CASE added
    <3>1. table'[k] = new /\ new \in kernel'
      BY <2>1, <2>2
    <3>2. Abstract!Replace(k)
      BY <1>1, <1>2, <1>5, <2>1, <2>2, <3>1 DEF Abstract!Replace, Abstract!Gains
    <3>. QED BY <3>2 DEF Abstract!Next
  <2>3. CASE ~added
    <3>1. Abstract!Withdraw(k)
      BY <1>2, <2>1, <2>3 DEF Abstract!Withdraw
    <3>. QED BY <3>1 DEF Abstract!Next
  <2>. QED BY <2>2, <2>3
<1>. QED BY <1>6, <1>7, <1>8, <1>9 DEF Handle

LEMMA NextImplements ==
    ASSUME "links" \notin Env, 0 \notin Index
    PROVE  TypeOK /\ KernelOwned /\ AgreeInv /\ ExitInv /\ [Next]_vars
               => [Abstract!Next]_(Abstract!vars)
<1>. SUFFICES ASSUME TypeOK, KernelOwned, AgreeInv, ExitInv, [Next]_vars
              PROVE  [Abstract!Next]_(Abstract!vars)
  OBVIOUS
<1>. table \in [Key -> RouteObject \cup {NULL}]
  BY DEF TypeOK
<1>1. CASE Replay \/ Watch
  BY <1>1, HandlerSteps, EventType, HandleImplements
<1>2. CASE Exit
  <2>1. OwnedRoutes' = OwnedRoutes
    BY <1>2 DEF Exit, OwnedRoutes
  <2>. QED BY <1>2, <2>1 DEF Exit, Abstract!vars
<1>3. CASE ExitRoute
  <2>1. PICK k \in pending : /\ pending' = pending \ {k}
                             /\ kernel' = kernel \ {table[k]}
                             /\ phase = "exiting"
                             /\ UNCHANGED <<phase, table, freed>>
    BY <1>3, ExitRouteExactly
  <2>2. k \in Key /\ OwnedRoutes[k] = table[k] /\ table[k] # NULL
    BY <2>1 DEF TypeOK, OwnedRoutes, ExitInv
  <2>3. OwnedRoutes' = [OwnedRoutes EXCEPT ![k] = NULL]
    BY <2>1, <2>2 DEF OwnedRoutes
  <2>4. Abstract!Withdraw(k)
    BY <2>1, <2>2, <2>3 DEF Abstract!Withdraw
  <2>. QED BY <2>2, <2>4 DEF Abstract!Next
<1>4. CASE ExitDone
  <2>1. OwnedRoutes' = OwnedRoutes /\ UNCHANGED kernel
    BY <1>4 DEF ExitDone, OwnedRoutes, NoRoutes
  <2>. QED BY <2>1 DEF Abstract!vars
<1>5. CASE Crash
  <2>1. OwnedRoutes' = Abstract!Nobody /\ UNCHANGED kernel
    BY <1>5 DEF Crash, OwnedRoutes, NoRoutes, Abstract!Nobody
  <2>. QED BY <2>1 DEF Abstract!Next, Abstract!Die
<1>6. CASE Startup \/ Snapshot \/ StartDone \/ Edit \/ LinkUp \/ UNCHANGED vars
  <2>1. /\ UNCHANGED <<table, kernel, pending>>
        /\ (phase' = "exiting") <=> (phase = "exiting")
    BY <1>6 DEF Startup, Snapshot, StartDone, Edit, LinkUp, vars
  <2>2. OwnedRoutes' = OwnedRoutes
    BY <2>1 DEF OwnedRoutes
  <2>. QED BY <2>1, <2>2 DEF Abstract!vars
<1>. QED BY <1>1, <1>2, <1>3, <1>4, <1>5, <1>6 DEF Next, LinkDown

\* For any entries with positive indices and any candidate values, in any mix
\* of edits, replays, exits, crashes and restarts, the manager is RouteOwner as
\* long as only it changes routes: each callback adds, replaces or withdraws
\* the one route of its own entry, and exit withdraws them all.
THEOREM ManagerImplementsOwner ==
    ASSUME "links" \notin Env, 0 \notin Index
    PROVE  Spec => ImplementsOwner
<1>1. Init => AgreeInv /\ ExitInv
  BY DEF Init, AgreeInv, SlotsDistinct, InKernel, NoRoutes, ExitInv
<1>2. Init => Abstract!Init
  BY DEF Init, OwnedRoutes, NoRoutes, Abstract!Init, Abstract!Nobody
<1>. QED BY <1>1, <1>2, NextAgree, NextExit, NextImplements, TypeCorrect,
            AlwaysOwned, PTL DEF Spec, ImplementsOwner, Abstract!Spec

------------------------------------------------------------------------------
(* What a plain configuration describes.                                   *)

\* The leaf that gives an entry its nexthop.
HopLeaf(k) == IF Candidates[k]["nexthop"] = {} THEN "ifname" ELSE "nexthop"

\* What a leaf makes of a route, and where it shows.
Image(k, leaf, v) ==
    CASE leaf \in {"prefix", "nexthop"} -> IF v = NULL THEN NULL ELSE Address[k[1]][v]
      [] leaf = "ifname" -> v
      [] leaf = "distance" -> IF Amount(v) = Half THEN 0 ELSE Amount(v)
      [] leaf = "metric" -> Amount(v)
      [] leaf \in {"id", "protocol"} -> NULL
Field(rr, leaf) ==
    CASE leaf = "prefix" -> rr.dst
      [] leaf \in {"nexthop", "ifname"} -> rr.nh
      [] leaf = "distance" -> rr.hi
      [] leaf = "metric" -> rr.lo
      [] leaf \in {"id", "protocol"} -> NULL

\* The route a tree describes.
Described(k, tree) ==
    [fam |-> k[1], dst |-> Image(k, "prefix", tree["prefix"]),
     nh |-> Image(k, HopLeaf(k), tree[HopLeaf(k)]),
     hi |-> Image(k, "distance", tree["distance"]),
     lo |-> Image(k, "metric", tree["metric"])]

\* The leaves that an entry's route is made of.
Shapes(k) == {"prefix", "distance", "metric", HopLeaf(k)}

\* A value a client can write, but for a prefix that goes, is accepted.
LEMMA PlainAccepted ==
    ASSUME Plain, links = Link, NEW k \in Key, NEW leaf \in Leaf, NEW v \in Choices(k, leaf),
           leaf = "prefix" => v # NULL
    PROVE  Accepts(k, leaf, v)
<1>1. v # NULL => v \in Candidates[k][leaf] /\ v \in Sort(leaf)
  BY CandidatesAssumption DEF Choices
<1>2. CASE v = NULL
  BY <1>2 DEF Accepts, Leaf
<1>3. CASE v # NULL
  BY <1>1, <1>3 DEF Accepts, Plain, Leaf, Sort
<1>. QED BY <1>2, <1>3

\* Applied to a route, it changes its own field only.
LEMMA ApplyFields ==
    ASSUME Plain, links = Link, NEW k \in Key, NEW rr \in RouteObject, NEW leaf \in Leaf,
           NEW v \in Choices(k, leaf), leaf = "prefix" => v # NULL
    PROVE  LET new == Apply(k, rr, leaf, v)
           IN  /\ new \in RouteObject
               /\ new.fam = rr.fam
               /\ Field(new, leaf) = Image(k, leaf, v)
               /\ \A l \in Leaf \ {leaf} :
                     {l, leaf} # {"nexthop", "ifname"} => Field(new, l) = Field(rr, l)
<1>. DEFINE new == Apply(k, rr, leaf, v)
<1>1. v = NULL \/ (v \in Candidates[k][leaf] /\ v \in Sort(leaf))
  BY CandidatesAssumption DEF Choices
<1>2. new \in RouteObject
  BY <1>1, PlainAccepted, ApplyType
<1>3. /\ DOMAIN rr = {"fam", "dst", "nh", "hi", "lo"}
      /\ rr = [fam |-> rr.fam, dst |-> rr.dst, nh |-> rr.nh, hi |-> rr.hi, lo |-> rr.lo]
  BY DEF RouteObject
<1>4. CASE leaf = "prefix"
  <2>1. new = [rr EXCEPT !.dst = Image(k, leaf, v)]
    BY <1>4 DEF Apply, Image
  <2>. QED BY <1>2, <1>3, <1>4, <2>1 DEF Field, Leaf
<1>5. CASE leaf \in {"nexthop", "ifname"}
  <2>1. new = [rr EXCEPT !.nh = Image(k, leaf, v)]
    BY <1>5 DEF Apply, Image
  <2>. QED BY <1>2, <1>3, <1>5, <2>1 DEF Field, Leaf
<1>6. CASE leaf = "distance"
  <2>1. new = [rr EXCEPT !.hi = Image(k, leaf, v)]
    BY <1>6 DEF Apply, Image, SetDistance
  <2>. QED BY <1>2, <1>3, <1>6, <2>1 DEF Field, Leaf
<1>7. CASE leaf = "metric"
  <2>1. Amount(v) # Half
    BY <1>1, <1>7, HalfAssumption DEF Plain, Amount
  <2>2. new = [rr EXCEPT !.lo = Image(k, leaf, v)]
    BY <1>7, <2>1 DEF Apply, Image, SetMetric
  <2>. QED BY <1>2, <1>3, <1>7, <2>2 DEF Field, Leaf
<1>8. CASE leaf \in {"id", "protocol"}
  BY <1>2, <1>8 DEF Apply, Field, Image, Leaf
<1>. QED BY <1>4, <1>5, <1>6, <1>7, <1>8 DEF Leaf

LEMMA PutFields ==
    ASSUME Plain, links = Link, NEW k \in Key, NEW rr \in RouteObject, NEW leaf \in Leaf,
           NEW tree, tree[leaf] \in Choices(k, leaf), Field(rr, leaf) = Image(k, leaf, NULL)
    PROVE  LET new == Put(k, rr, leaf, tree)
           IN  /\ new \in RouteObject
               /\ new.fam = rr.fam
               /\ Field(new, leaf) = Image(k, leaf, tree[leaf])
               /\ \A l \in Leaf \ {leaf} :
                     {l, leaf} # {"nexthop", "ifname"} => Field(new, l) = Field(rr, l)
<1>1. CASE tree[leaf] = NULL
  BY <1>1 DEF Put
<1>2. CASE tree[leaf] # NULL
  BY <1>2, ApplyFields DEF Put
<1>. QED BY <1>1, <1>2

LEMMA PutParts ==
    ASSUME Plain, links = Link, NEW k \in Key, NEW rr \in RouteObject,
           NEW leaf \in {"prefix", "distance", "metric"},
           NEW tree, tree[leaf] \in Choices(k, leaf),
           leaf = "prefix" => rr.dst = NULL, leaf = "distance" => rr.hi = 0,
           leaf = "metric" => rr.lo = 0
    PROVE  LET new == Put(k, rr, leaf, tree)
           IN  /\ new \in RouteObject /\ new.fam = rr.fam
               /\ new.dst = IF leaf = "prefix" THEN Image(k, leaf, tree[leaf]) ELSE rr.dst
               /\ new.hi = IF leaf = "distance" THEN Image(k, leaf, tree[leaf]) ELSE rr.hi
               /\ new.lo = IF leaf = "metric" THEN Image(k, leaf, tree[leaf]) ELSE rr.lo
<1>. DEFINE new == Put(k, rr, leaf, tree)
<1>1. Field(rr, leaf) = Image(k, leaf, NULL)
  BY HalfAssumption DEF Field, Image, Amount
<1>2. /\ new \in RouteObject /\ new.fam = rr.fam
      /\ Field(new, leaf) = Image(k, leaf, tree[leaf])
      /\ \A l \in Leaf \ {leaf} :
            {l, leaf} # {"nexthop", "ifname"} => Field(new, l) = Field(rr, l)
  <2>1. leaf \in Leaf
    BY DEF Leaf
  <2>. QED BY <1>1, <2>1, PutFields
<1>. HIDE DEF new
<1>3. \A l \in {"prefix", "distance", "metric"} \ {leaf} : Field(new, l) = Field(rr, l)
  BY <1>2 DEF Leaf
<1>4. \A r : /\ Field(r, "prefix") = r.dst /\ Field(r, "distance") = r.hi
            /\ Field(r, "metric") = r.lo
  BY DEF Field
<1>5. /\ new.dst = IF leaf = "prefix" THEN Image(k, leaf, tree[leaf]) ELSE rr.dst
      /\ new.hi = IF leaf = "distance" THEN Image(k, leaf, tree[leaf]) ELSE rr.hi
      /\ new.lo = IF leaf = "metric" THEN Image(k, leaf, tree[leaf]) ELSE rr.lo
  BY <1>2, <1>3, <1>4
<1>. QED BY <1>2, <1>5 DEF new

\* A tree describes one route at most, whatever the order it is read in.
LEMMA WantedIs ==
    ASSUME Plain, links = Link, NEW k \in Key, NEW tree,
           \A leaf \in Leaf : tree[leaf] \in Choices(k, leaf)
    PROVE  /\ Wanted(k, tree) = {rr \in {Described(k, tree)} : Valid(rr)}
           /\ Valid(Described(k, tree)) => tree["prefix"] # NULL /\ tree[HopLeaf(k)] # NULL
<1>. DEFINE hop == HopLeaf(k)
            hops == {Apply(k, Blank(k), leaf, tree[leaf]).nh :
                         leaf \in Present(tree) \cap {"nexthop", "ifname"}}
            p == Put(k, Put(k, Blank(k), "distance", tree), "metric", tree)
            q == Put(k, Put(k, Blank(k), "metric", tree), "distance", tree)
            Whole(r) == Put(k, r, "prefix", tree)
            d == Described(k, tree)
<1>1. /\ hop \in {"nexthop", "ifname"} /\ hop \in Leaf
      /\ \A leaf \in {"nexthop", "ifname"} \ {hop} : tree[leaf] = NULL
  <2>1. \A leaf \in Leaf : Candidates[k][leaf] = {} => tree[leaf] = NULL
    BY DEF Choices
  <2>. QED BY <2>1 DEF Plain, HopLeaf, Leaf
<1>2. \A leaf \in Present(tree) : Accepts(k, leaf, tree[leaf])
  BY PlainAccepted DEF Present
<1>3. /\ BuiltFrom(k, tree) = {[Whole(r) EXCEPT !.nh = h] : r \in {p, q}, h \in hops}
      /\ Wanted(k, tree) = {rr \in BuiltFrom(k, tree) : Valid(rr)}
  BY <1>2 DEF BuiltFrom, Wanted
<1>4. /\ Blank(k) \in RouteObject /\ Blank(k).fam = k[1] /\ Blank(k).dst = NULL
      /\ Blank(k).nh = NULL /\ Blank(k).hi = 0 /\ Blank(k).lo = 0
  BY BlankType DEF Blank
<1>5. /\ Image(k, "distance", NULL) = 0 /\ Image(k, "metric", NULL) = 0
      /\ Image(k, "prefix", NULL) = NULL /\ Image(k, hop, NULL) = NULL
  BY <1>1, HalfAssumption DEF Image, Amount
<1>6. hops = IF tree[hop] = NULL THEN {} ELSE {Image(k, hop, tree[hop])}
  <2>1. Present(tree) \cap {"nexthop", "ifname"} = IF tree[hop] = NULL THEN {} ELSE {hop}
    BY <1>1 DEF Present
  <2>2. Apply(k, Blank(k), hop, tree[hop]).nh = Image(k, hop, tree[hop])
    <3>1. Field(Apply(k, Blank(k), hop, tree[hop]), hop) = Image(k, hop, tree[hop])
      BY <1>1, <1>4, ApplyFields
    <3>. QED BY <1>1, <3>1 DEF Field
  <2>. HIDE DEF hop
  <2>. QED BY <2>1, <2>2
<1>7. \A r \in {p, q} : /\ r \in RouteObject /\ r.fam = k[1] /\ r.dst = NULL
                        /\ r.hi = d.hi /\ r.lo = d.lo
  <2>. DEFINE p1 == Put(k, Blank(k), "distance", tree)
              q1 == Put(k, Blank(k), "metric", tree)
  <2>1. /\ p1 \in RouteObject /\ p1.fam = k[1] /\ p1.dst = NULL
        /\ p1.hi = d.hi /\ p1.lo = 0
    BY <1>4, <1>5, PutParts DEF Leaf, Described
  <2>2. /\ q1 \in RouteObject /\ q1.fam = k[1] /\ q1.dst = NULL
        /\ q1.hi = 0 /\ q1.lo = d.lo
    BY <1>4, <1>5, PutParts DEF Leaf, Described
  <2>3. d.hi = Image(k, "distance", tree["distance"]) /\ d.lo = Image(k, "metric", tree["metric"])
    BY DEF Described
  <2>. HIDE DEF p1, q1, d
  <2>4. LET r == Put(k, p1, "metric", tree)
        IN  /\ r \in RouteObject /\ r.fam = k[1] /\ r.dst = NULL /\ r.hi = d.hi /\ r.lo = d.lo
    BY <1>5, <2>1, <2>3, PutParts DEF Leaf
  <2>5. LET r == Put(k, q1, "distance", tree)
        IN  /\ r \in RouteObject /\ r.fam = k[1] /\ r.dst = NULL /\ r.hi = d.hi /\ r.lo = d.lo
    BY <1>5, <2>2, <2>3, PutParts DEF Leaf
  <2>. QED BY <2>4, <2>5 DEF p1, q1
<1>8. ASSUME NEW r \in {p, q}
      PROVE  /\ Whole(r) \in RouteObject /\ Whole(r).fam = k[1]
             /\ Whole(r).dst = d.dst /\ Whole(r).hi = d.hi /\ Whole(r).lo = d.lo
  <2>1. /\ r \in RouteObject /\ r.fam = k[1] /\ r.dst = NULL
        /\ r.hi = d.hi /\ r.lo = d.lo
    BY <1>7
  <2>2. d.dst = Image(k, "prefix", tree["prefix"])
    BY DEF Described
  <2>. HIDE DEF p, q, d
  <2>. QED BY <1>5, <2>1, <2>2, PutParts DEF Leaf
<1>9. ASSUME NEW r \in {p, q}, NEW h
      PROVE  [Whole(r) EXCEPT !.nh = h]
                 = [fam |-> k[1], dst |-> d.dst, nh |-> h, hi |-> d.hi, lo |-> d.lo]
  <2>. DEFINE w == Whole(r)
  <2>1. w \in RouteObject /\ w.fam = k[1] /\ w.dst = d.dst /\ w.hi = d.hi /\ w.lo = d.lo
    BY <1>8
  <2>. HIDE DEF w, d
  <2>2. [w EXCEPT !.nh = h] = [fam |-> k[1], dst |-> d.dst, nh |-> h, hi |-> d.hi, lo |-> d.lo]
    BY <2>1 DEF RouteObject
  <2>. QED BY <2>2 DEF w
<1>10. /\ d = [fam |-> k[1], dst |-> d.dst, nh |-> d.nh, hi |-> d.hi, lo |-> d.lo]
       /\ d.nh = Image(k, hop, tree[hop]) /\ d.dst = Image(k, "prefix", tree["prefix"])
  BY DEF Described
<1>11. Valid(d) => tree["prefix"] # NULL /\ tree[hop] # NULL
  BY <1>5, <1>10 DEF Valid
<1>. HIDE DEF hop, hops, p, q, Whole, d
<1>12. CASE tree[hop] = NULL
  <2>1. hops = {}
    BY <1>6, <1>12
  <2>2. BuiltFrom(k, tree) = {}
    BY <1>3, <2>1
  <2>. QED BY <1>3, <1>11, <1>12, <2>2 DEF d, hop
<1>13. CASE tree[hop] # NULL
  <2>1. hops = {d.nh}
    BY <1>6, <1>10, <1>13
  <2>2. \A r \in {p, q} : [Whole(r) EXCEPT !.nh = d.nh] = d
    BY <1>9, <1>10
  <2>3. BuiltFrom(k, tree) = {d}
    BY <1>3, <2>1, <2>2
  <2>. QED BY <1>3, <1>11, <2>3 DEF d, hop
<1>. QED BY <1>12, <1>13

------------------------------------------------------------------------------
(* What is installed follows the configuration.                            *)

\* What the callback leaves of an entry's route.
LEMMA HandleResult ==
    ASSUME Plain, TypeOK, TableValid, freed = {}, links = Link,
           NEW k \in Key, k[1] = 4, NEW leaf \in Leaf, NEW v \in Choices(k, leaf),
           Handle(k, leaf, v)
    PROVE  LET old == table[k]
               new == IF old = NULL THEN Described(k, cfg[k]) ELSE Apply(k, old, leaf, v)
               rest == IF old = NULL THEN kernel ELSE KernelDelete(kernel, old)
               gone == old # NULL /\ v = NULL /\ leaf \in {"id", "prefix"}
           IN  /\ \A j \in Key \ {k} : table'[j] = table[j]
               /\ \/ ~gone /\ Valid(new) /\ table'[k] = new
                  \/ table'[k] = NULL /\ (~gone /\ Valid(new) => ~KernelAccepts(rest, new))
<1>. DEFINE old == table[k]
            new == IF old = NULL THEN Described(k, cfg[k]) ELSE Apply(k, old, leaf, v)
            rest == IF old = NULL THEN kernel ELSE KernelDelete(kernel, old)
            gone == old # NULL /\ v = NULL /\ leaf \in {"id", "prefix"}
            Result == /\ \A j \in Key \ {k} : table'[j] = table[j]
                      /\ \/ ~gone /\ Valid(new) /\ table'[k] = new
                         \/ /\ table'[k] = NULL
                            /\ ~gone /\ Valid(new) => ~KernelAccepts(rest, new)
<1>0. /\ k[2] # 0 /\ table \in [Key -> RouteObject \cup {NULL}]
      /\ old # NULL => Valid(old)
  BY DEF Key, Plain, TypeOK, TableValid
<1>1. CASE HandleAdd(k)
  <2>1. k = <<4, k[2]>> /\ \A l \in Leaf : cfg[k][l] \in Choices(k, l)
    BY DEF Key, TypeOK
  <2>2. Built(k) = {rr \in {Described(k, cfg[k])} : Valid(rr)}
    BY <2>1, WantedIs DEF Built, TreeOf
  <2>3. old = NULL /\ new = Described(k, cfg[k]) /\ rest = kernel /\ ~gone
    BY <1>1 DEF HandleAdd
  <2>. HIDE DEF new, rest, gone
  <2>4. Result
    BY <1>0, <1>1, <2>2, <2>3 DEF HandleAdd, Quiet
  <2>. QED BY <2>4 DEF new, rest, gone
<1>2. CASE HandleDelete(k, leaf, v)
  <2>1. gone /\ table' = [table EXCEPT ![k] = NULL]
    BY <1>0, <1>2 DEF HandleDelete
  <2>. QED BY <1>0, <2>1
<1>3. CASE HandleUpdate(k, leaf, v)
  <2>1. old # NULL /\ ~gone /\ new = Apply(k, old, leaf, v) /\ rest = KernelDelete(kernel, old)
    BY <1>3 DEF HandleUpdate
  <2>2. Accepts(k, leaf, v)
    BY <2>1, PlainAccepted
  <2>3. CASE new = old
    <3>1. table' = table
      BY <1>3, <2>1, <2>3 DEF HandleUpdate, Changed, Quiet
    <3>. HIDE DEF new, rest, gone
    <3>. QED BY <1>0, <2>1, <2>3, <3>1 DEF new, rest, gone
  <2>4. CASE new # old
    <3>. DEFINE added == Valid(new) /\ KernelAccepts(rest, new)
    <3>1. table' = [table EXCEPT ![k] = IF added THEN new ELSE NULL]
      BY <1>0, <1>3, <2>1, <2>2, <2>4 DEF HandleUpdate, Changed, Rest, Entry
    <3>. HIDE DEF new, rest, gone
    <3>2. Result
      BY <1>0, <2>1, <3>1
    <3>. QED BY <3>2 DEF new, rest, gone
  <2>. QED BY <2>3, <2>4
<1>4. ~Undefined(k, leaf, v)
  BY <1>0 DEF Undefined, Valid
<1>. QED BY <1>1, <1>2, <1>3, <1>4 DEF Handle

\* An event about a leaf of an entry is still to be delivered.
Awaited(k, leaf) == \E n \in 1 .. Len(queue) : queue[n][1] = k /\ queue[n][2] = leaf

\* The last event about a leaf has its value, events and snapshots are about
\* what clients can write, and a snapshot has the values there are.
QueueInv ==
    /\ ~Watching => queue = <<>>
    /\ \A n \in 1 .. Len(queue) :
          /\ Candidates[queue[n][1]][queue[n][2]] # {}
          /\ \/ queue[n][3] = cfg[queue[n][1]][queue[n][2]]
             \/ \E m \in 1 .. Len(queue) :
                    m > n /\ queue[m][1] = queue[n][1] /\ queue[m][2] = queue[n][2]
    /\ replay # {} => phase = "starting"
    /\ \A x \in replay : x[3] = cfg[x[1]][x[2]] /\ x[3] # NULL

\* The thread that takes an event has the last word on it, or another follows.
LEMMA Taken ==
    ASSUME TypeOK, QueueInv, Replay \/ Watch
    PROVE  \E e \in Event :
              /\ Handle(e[1], e[2], e[3]) /\ Watching
              /\ UNCHANGED <<cfg, phase, passes, links>>
              /\ Candidates[e[1]][e[2]] # {}
              /\ e[3] = cfg[e[1]][e[2]] \/ Awaited(e[1], e[2])'
              /\ \A k, leaf : Awaited(k, leaf) =>
                    Awaited(k, leaf)' \/ (k = e[1] /\ leaf = e[2])
              /\ \A x \in replay : x \in replay' \/ x = e
              /\ QueueInv'
<1>1. CASE Replay
  <2>1. PICK e \in replay : replay' = replay \ {e} /\ Handle(e[1], e[2], e[3])
    BY <1>1 DEF Replay
  <2>2. UNCHANGED <<cfg, queue, phase, passes, pending, links>> /\ phase = "starting"
    BY <1>1 DEF Replay
  <2>3. /\ e \in Event /\ e[1] \in Key /\ e[2] \in Leaf /\ e[3] \in Choices(e[1], e[2])
        /\ e[3] = cfg[e[1]][e[2]] /\ e[3] # NULL
    BY EventType DEF TypeOK, QueueInv
  <2>4. Candidates[e[1]][e[2]] # {}
    BY <2>3 DEF Choices
  <2>5. QueueInv'
    BY <2>1, <2>2 DEF QueueInv, Watching
  <2>6. \A k, leaf : Awaited(k, leaf) => Awaited(k, leaf)'
    BY <2>2 DEF Awaited
  <2>. QED BY <2>1, <2>2, <2>3, <2>4, <2>5, <2>6 DEF Watching
<1>2. CASE Watch
  <2>. DEFINE last == Len(queue)
  <2>0. PICK e \in Event : e = Head(queue)
    BY <1>2 DEF Watch, TypeOK
  <2>1. /\ queue # <<>> /\ queue' = Tail(queue) /\ Handle(e[1], e[2], e[3]) /\ Watching
        /\ UNCHANGED <<cfg, phase, passes, replay, pending, links>>
    BY <1>2, <2>0 DEF Watch
  <2>2. /\ last \in Nat /\ last >= 1 /\ Len(queue') = last - 1 /\ queue[1] = e
        /\ \A n \in 1 .. Len(queue') : queue'[n] = queue[n + 1]
    BY <2>0, <2>1, TailIndices DEF TypeOK
  <2>3. /\ \A n \in 1 .. Len(queue') : n + 1 \in 1 .. last
        /\ \A n \in 1 .. last : n > 1 => n - 1 \in 1 .. Len(queue') /\ queue'[n - 1] = queue[n]
        /\ 1 \in 1 .. last
    BY <2>2
  <2>4. Candidates[e[1]][e[2]] # {}
    BY <2>2, <2>3 DEF QueueInv
  <2>5. e[3] = cfg[e[1]][e[2]] \/ Awaited(e[1], e[2])'
    <3>1. CASE \E m \in 1 .. last : m > 1 /\ queue[m][1] = e[1] /\ queue[m][2] = e[2]
      <4>1. PICK m \in 1 .. last : m > 1 /\ queue[m][1] = e[1] /\ queue[m][2] = e[2]
        BY <3>1
      <4>2. m - 1 \in 1 .. Len(queue') /\ queue'[m - 1] = queue[m]
        BY <2>3, <4>1
      <4>3. \E n \in 1 .. Len(queue') : queue'[n][1] = e[1] /\ queue'[n][2] = e[2]
        BY <4>1, <4>2
      <4>. QED BY <4>3 DEF Awaited
    <3>. QED BY <2>2, <2>3, <3>1 DEF QueueInv
  <2>6. \A k, leaf : Awaited(k, leaf) => Awaited(k, leaf)' \/ (k = e[1] /\ leaf = e[2])
    BY <2>2, <2>3 DEF Awaited
  <2>7. ASSUME NEW n \in 1 .. Len(queue')
        PROVE  /\ Candidates[queue'[n][1]][queue'[n][2]] # {}
               /\ \/ queue'[n][3] = cfg[queue'[n][1]][queue'[n][2]]
                  \/ \E m \in 1 .. Len(queue') :
                        m > n /\ queue'[m][1] = queue'[n][1] /\ queue'[m][2] = queue'[n][2]
    <3>1. n + 1 \in 1 .. last /\ queue'[n] = queue[n + 1]
      BY <2>2, <2>3
    <3>2. CASE \E m \in 1 .. last :
                  m > n + 1 /\ queue[m][1] = queue[n + 1][1] /\ queue[m][2] = queue[n + 1][2]
      <4>1. PICK m \in 1 .. last :
                m > n + 1 /\ queue[m][1] = queue[n + 1][1] /\ queue[m][2] = queue[n + 1][2]
        BY <3>2
      <4>2. m - 1 \in 1 .. Len(queue') /\ queue'[m - 1] = queue[m] /\ m - 1 > n
        BY <2>2, <2>3, <4>1
      <4>3. Candidates[queue[n + 1][1]][queue[n + 1][2]] # {}
        BY <3>1 DEF QueueInv
      <4>. QED BY <3>1, <4>1, <4>2, <4>3
    <3>. QED BY <3>1, <3>2 DEF QueueInv
  <2>8. QueueInv'
    BY <2>1, <2>7 DEF QueueInv, Watching
  <2>. QED BY <2>1, <2>2, <2>4, <2>5, <2>6, <2>8
<1>. QED BY <1>1, <1>2

\* What an edit adds to the queue, if the watchers are there.
LEMMA Edited ==
    ASSUME TypeOK, QueueInv, "edits_while_starting" \notin Env, Edit
    PROVE  /\ QueueInv' /\ phase # "starting"
           /\ \E k \in Key, leaf \in Leaf :
                 /\ \A j \in Key, l \in Leaf : cfg'[j][l] = cfg[j][l] \/ (j = k /\ l = leaf)
                 /\ \A j, l : Awaited(j, l) => Awaited(j, l)'
                 /\ Watching => Awaited(k, leaf)'
<1>1. PICK k \in Key, leaf \in Leaf : \E v \in Choices(k, leaf) :
          /\ v # NULL \/ cfg[k][leaf] # NULL
          /\ cfg' = [cfg EXCEPT ![k][leaf] = v]
          /\ IF Watching THEN queue' = Append(queue, <<k, leaf, v>>) ELSE UNCHANGED queue
  BY DEF Edit
<1>2. PICK v \in Choices(k, leaf) :
          /\ v # NULL \/ cfg[k][leaf] # NULL
          /\ cfg' = [cfg EXCEPT ![k][leaf] = v]
          /\ IF Watching THEN queue' = Append(queue, <<k, leaf, v>>) ELSE UNCHANGED queue
  BY <1>1
<1>3. /\ UNCHANGED <<phase, replay>> /\ phase # "starting" /\ replay = {}
  BY DEF Edit, QueueInv
<1>4. /\ cfg'[k][leaf] = v
      /\ \A j \in Key, l \in Leaf : cfg'[j][l] = cfg[j][l] \/ (j = k /\ l = leaf)
  BY <1>2 DEF TypeOK
<1>5. Candidates[k][leaf] # {}
  BY <1>2 DEF TypeOK, Choices
<1>6. CASE ~Watching
  <2>1. queue = <<>> /\ queue' = <<>>
    BY <1>2, <1>6 DEF QueueInv
  <2>2. QueueInv'
    BY <1>3, <2>1 DEF QueueInv
  <2>. QED BY <1>3, <1>4, <1>6, <2>1, <2>2 DEF Awaited
<1>7. CASE Watching
  <2>. DEFINE e == <<k, leaf, v>>
              last == Len(queue) + 1
  <2>1. e \in Event /\ e[1] = k /\ e[2] = leaf /\ e[3] = v
    BY <1>2, SortOfChoice DEF Event
  <2>2. queue' = Append(queue, e)
    BY <1>2, <1>7
  <2>. HIDE DEF e
  <2>3. /\ Len(queue) \in Nat /\ Len(queue') = last /\ queue'[last] = e
        /\ \A n \in 1 .. Len(queue) : queue'[n] = queue[n]
    BY <2>1, <2>2, AppendIndices DEF TypeOK
  <2>4. /\ last \in 1 .. Len(queue')
        /\ \A n \in 1 .. Len(queue) : n \in 1 .. Len(queue') /\ last > n
        /\ \A n \in 1 .. Len(queue') : n = last \/ n \in 1 .. Len(queue)
    BY <2>3
  <2>. HIDE DEF last
  <2>5. Awaited(k, leaf)' /\ \A j, l : Awaited(j, l) => Awaited(j, l)'
    BY <2>1, <2>3, <2>4 DEF Awaited
  <2>6. ASSUME NEW n \in 1 .. Len(queue')
        PROVE  /\ Candidates[queue'[n][1]][queue'[n][2]] # {}
               /\ \/ queue'[n][3] = cfg'[queue'[n][1]][queue'[n][2]]
                  \/ \E m \in 1 .. Len(queue') :
                        m > n /\ queue'[m][1] = queue'[n][1] /\ queue'[m][2] = queue'[n][2]
    <3>1. CASE n = last
      BY <1>4, <1>5, <2>1, <2>3, <3>1
    <3>2. CASE n \in 1 .. Len(queue)
      <4>1. queue'[n] = queue[n] /\ queue[n][1] \in Key /\ queue[n][2] \in Leaf
        BY <2>3, <3>2, EventType DEF TypeOK
      <4>2. CASE queue[n][1] = k /\ queue[n][2] = leaf
        BY <1>5, <2>1, <2>3, <2>4, <3>2, <4>1, <4>2
      <4>3. CASE ~(queue[n][1] = k /\ queue[n][2] = leaf)
        <5>1. cfg'[queue[n][1]][queue[n][2]] = cfg[queue[n][1]][queue[n][2]]
          BY <1>4, <4>1, <4>3
        <5>. QED BY <2>3, <2>4, <3>2, <4>1, <5>1 DEF QueueInv
      <4>. QED BY <4>2, <4>3
    <3>. QED BY <2>4, <3>1, <3>2
  <2>7. QueueInv'
    BY <1>3, <1>7, <2>6 DEF QueueInv, Watching
  <2>. QED BY <1>3, <1>4, <2>5, <2>7
<1>. QED BY <1>6, <1>7

LEMMA NextQueue ==
    ASSUME "edits_while_starting" \notin Env
    PROVE  TypeOK /\ QueueInv /\ [Next]_vars => QueueInv'
<1>. SUFFICES ASSUME TypeOK, QueueInv, [Next]_vars PROVE QueueInv'
  OBVIOUS
<1>1. CASE Replay \/ Watch
  BY <1>1, Taken
<1>2. CASE Edit
  BY <1>2, Edited
<1>3. CASE Snapshot
  <2>1. \A x \in replay' : x[3] = cfg[x[1]][x[2]] /\ x[3] # NULL
    BY <1>3 DEF Snapshot
  <2>2. UNCHANGED <<cfg, queue, phase>> /\ phase = "starting"
    BY <1>3 DEF Snapshot
  <2>. QED BY <2>1, <2>2 DEF QueueInv, Watching
<1>4. CASE Exit \/ Crash
  <2>1. queue' = <<>> /\ replay' = {} /\ ~Watching'
    BY <1>4 DEF Exit, Crash, QueueInv, Watching
  <2>2. \A n \in 1 .. Len(queue') : FALSE
    BY <2>1
  <2>. QED BY <2>1, <2>2 DEF QueueInv
<1>5. CASE Startup \/ StartDone \/ ExitRoute \/ ExitDone
  <2>1. /\ UNCHANGED <<cfg, queue, replay>> /\ replay = {}
        /\ Watching \/ ~Watching' \/ queue = <<>>
    BY <1>5 DEF Startup, StartDone, ExitRoute, ExitDone, QueueInv, Watching
  <2>2. ~Watching' => ~Watching
    BY <1>5 DEF Startup, StartDone, ExitRoute, ExitDone, Watching
  <2>. QED BY <2>1, <2>2 DEF QueueInv
<1>6. CASE LinkDown \/ LinkUp \/ UNCHANGED vars
  BY <1>6 DEF LinkDown, LinkUp, vars, QueueInv, Watching
<1>. QED BY <1>1, <1>2, <1>3, <1>4, <1>5, <1>6 DEF Next

\* While the watchers are there, each part of an entry's route is what the entry's
\* configuration makes of it, or an event about it is still to be delivered.
RouteInv ==
    Watching => \A k \in Key : table[k] # NULL =>
        /\ k[1] = 4 /\ table[k].fam = k[1]
        /\ \A leaf \in Shapes(k) :
              Field(table[k], leaf) = Image(k, leaf, cfg[k][leaf]) \/ Awaited(k, leaf)

\* Entries and their leaves that clients write: IPv4, with one kind of nexthop.
LEMMA WrittenLeaf ==
    ASSUME Plain, NEW k \in Key, NEW leaf \in Leaf, Candidates[k][leaf] # {}
    PROVE  /\ k[1] = 4
           /\ Shapes(k) \subseteq Leaf
           /\ \A l \in Shapes(k) \ {leaf} : {l, leaf} # {"nexthop", "ifname"}
           /\ leaf \in {"nexthop", "ifname"} => leaf = HopLeaf(k)
<1>1. leaf \in {"nexthop", "ifname"} => leaf = HopLeaf(k)
  BY DEF Plain, HopLeaf
<1>2. HopLeaf(k) \in {"nexthop", "ifname"}
  BY DEF HopLeaf
<1>3. k[1] = 4
  BY DEF Plain
<1>4. Shapes(k) \subseteq Leaf
  BY <1>2 DEF Shapes, Leaf
<1>5. \A l \in Shapes(k) \ {leaf} : {l, leaf} # {"nexthop", "ifname"}
  <2>1. \A l \in Shapes(k) : l \in {"nexthop", "ifname"} => l = HopLeaf(k)
    BY <1>2 DEF Shapes
  <2>. QED BY <1>1, <2>1
<1>. QED BY <1>1, <1>3, <1>4, <1>5

LEMMA DescribedFields ==
    ASSUME NEW k \in Key, NEW tree, NEW leaf \in Shapes(k)
    PROVE  Field(Described(k, tree), leaf) = Image(k, leaf, tree[leaf])
<1>. DEFINE d == Described(k, tree)
            hop == HopLeaf(k)
<1>1. hop \in {"nexthop", "ifname"} /\ leaf \in {"prefix", "distance", "metric", hop}
  BY DEF HopLeaf, Shapes
<1>2. /\ d.dst = Image(k, "prefix", tree["prefix"]) /\ d.nh = Image(k, hop, tree[hop])
      /\ d.hi = Image(k, "distance", tree["distance"])
      /\ d.lo = Image(k, "metric", tree["metric"])
  BY DEF Described
<1>. HIDE DEF d, hop
<1>. QED BY <1>1, <1>2 DEF Field, d

LEMMA NextRoute ==
    ASSUME Plain, "links" \notin Env, "edits_while_starting" \notin Env
    PROVE  TypeOK /\ TableValid /\ KernelOwned /\ freed = {} /\ links = Link /\ QueueInv
               /\ RouteInv /\ [Next]_vars => RouteInv'
<1>. SUFFICES ASSUME TypeOK, TableValid, KernelOwned, freed = {}, links = Link, QueueInv,
                     RouteInv, [Next]_vars
              PROVE  RouteInv'
  OBVIOUS
<1>. table \in [Key -> RouteObject \cup {NULL}]
  BY DEF TypeOK
<1>1. CASE Replay \/ Watch
  <2>1. PICK e \in Event :
            /\ Handle(e[1], e[2], e[3]) /\ Watching
            /\ UNCHANGED <<cfg, phase, passes, links>>
            /\ Candidates[e[1]][e[2]] # {}
            /\ e[3] = cfg[e[1]][e[2]] \/ Awaited(e[1], e[2])'
            /\ \A k, leaf : Awaited(k, leaf) => Awaited(k, leaf)' \/ (k = e[1] /\ leaf = e[2])
    BY <1>1, Taken
  <2>. DEFINE k == e[1]
              leaf == e[2]
              v == e[3]
              old == table[k]
              new == IF old = NULL THEN Described(k, cfg[k]) ELSE Apply(k, old, leaf, v)
  <2>2. k \in Key /\ leaf \in Leaf /\ v \in Choices(k, leaf)
    BY EventType
  <2>3. /\ k[1] = 4 /\ Shapes(k) \subseteq Leaf
        /\ \A l \in Shapes(k) \ {leaf} : {l, leaf} # {"nexthop", "ifname"}
    BY <2>1, <2>2, WrittenLeaf
  <2>4. /\ \A j \in Key \ {k} : table'[j] = table[j]
        /\ \/ /\ ~(old # NULL /\ v = NULL /\ leaf \in {"id", "prefix"})
              /\ Valid(new) /\ table'[k] = new
           \/ table'[k] = NULL
    BY <2>1, <2>2, <2>3, HandleResult
  <2>5. ASSUME NEW j \in Key \ {k}, table'[j] # NULL
        PROVE  /\ j[1] = 4 /\ table'[j].fam = j[1]
               /\ \A l \in Shapes(j) :
                     Field(table'[j], l) = Image(j, l, cfg'[j][l]) \/ Awaited(j, l)'
    <3>1. table'[j] = table[j] /\ cfg' = cfg
      BY <2>1, <2>4
    <3>2. \A l : Awaited(j, l) => Awaited(j, l)'
      BY <2>1, <2>5
    <3>. QED BY <2>1, <2>5, <3>1, <3>2 DEF RouteInv
  <2>6. ASSUME table'[k] # NULL
        PROVE  /\ table'[k].fam = k[1]
               /\ \A l \in Shapes(k) :
                     Field(table'[k], l) = Image(k, l, cfg'[k][l]) \/ Awaited(k, l)'
    <3>1. CASE old = NULL
      <4>1. table'[k] = Described(k, cfg[k])
        BY <2>4, <2>6, <3>1
      <4>2. Described(k, cfg[k]).fam = k[1]
        BY DEF Described
      <4>. QED BY <2>1, <2>2, <4>1, <4>2, DescribedFields
    <3>2. CASE old # NULL
      <4>1. table'[k] = Apply(k, old, leaf, v) /\ (leaf = "prefix" => v # NULL)
        BY <2>4, <2>6, <3>2
      <4>2. /\ Apply(k, old, leaf, v).fam = old.fam
            /\ Field(Apply(k, old, leaf, v), leaf) = Image(k, leaf, v)
            /\ \A l \in Leaf \ {leaf} : {l, leaf} # {"nexthop", "ifname"} =>
                  Field(Apply(k, old, leaf, v), l) = Field(old, l)
        <5>1. old \in RouteObject
          BY <2>2, <3>2
        <5>. HIDE DEF k, leaf, v, old
        <5>. QED BY <2>2, <4>1, <5>1, ApplyFields
      <4>3. /\ Apply(k, old, leaf, v).fam = old.fam
            /\ Field(Apply(k, old, leaf, v), leaf) = Image(k, leaf, v)
            /\ \A l \in Shapes(k) \ {leaf} : Field(Apply(k, old, leaf, v), l) = Field(old, l)
        BY <2>3, <4>2
      <4>4. /\ old.fam = k[1]
            /\ \A l \in Shapes(k) :
                  Field(old, l) = Image(k, l, cfg[k][l]) \/ Awaited(k, l)
        BY <2>1, <2>2, <3>2 DEF RouteInv
      <4>5. \A l : l # leaf => (Awaited(k, l) => Awaited(k, l)')
        BY <2>1
      <4>6. v = cfg[k][leaf] \/ Awaited(k, leaf)'
        BY <2>1
      <4>7. cfg' = cfg
        BY <2>1
      <4>. HIDE DEF k, leaf, v, old
      <4>. QED BY <4>1, <4>3, <4>4, <4>5, <4>6, <4>7
    <3>. QED BY <3>1, <3>2
  <2>. QED BY <2>3, <2>5, <2>6 DEF RouteInv
<1>2. CASE Edit
  <2>1. PICK k \in Key, leaf \in Leaf :
            /\ \A j \in Key, l \in Leaf : cfg'[j][l] = cfg[j][l] \/ (j = k /\ l = leaf)
            /\ \A j, l : Awaited(j, l) => Awaited(j, l)'
            /\ Watching => Awaited(k, leaf)'
    BY <1>2, Edited
  <2>2. UNCHANGED <<table, phase>>
    BY <1>2 DEF Edit
  <2>3. \A j \in Key : Shapes(j) \subseteq Leaf
    BY DEF Shapes, HopLeaf, Leaf
  <2>. QED BY <2>1, <2>2, <2>3 DEF RouteInv, Watching
<1>3. CASE Startup
  <2>1. table' = NoRoutes
    BY <1>3 DEF Startup, KernelOwned
  <2>. QED BY <2>1 DEF RouteInv, NoRoutes
<1>4. CASE Snapshot \/ StartDone \/ UNCHANGED vars
  <2>1. UNCHANGED <<cfg, queue, table>> /\ (Watching' => Watching)
    BY <1>4 DEF Snapshot, StartDone, vars, Watching
  <2>. QED BY <2>1 DEF RouteInv, Awaited
<1>5. CASE Exit \/ ExitRoute \/ ExitDone \/ Crash
  BY <1>5 DEF Exit, ExitRoute, ExitDone, Crash, RouteInv, Watching
<1>. QED BY <1>1, <1>2, <1>3, <1>4, <1>5 DEF Next, LinkDown, LinkUp

LinksUp == links = Link

LEMMA NextLinks ==
    ASSUME "links" \notin Env PROVE LinksUp /\ [Next]_vars => LinksUp'
BY DEF LinksUp, Next, vars, Startup, Snapshot, Replay, StartDone, Watch, Exit, ExitRoute,
       ExitDone, Crash, Edit, LinkDown, LinkUp

\* With plain configuration, no link changes and no edits during a start, what is
\* installed for an entry, once all events have been delivered, is the one route its
\* configuration describes, whatever the order in which its leaves were written,
\* removed and written again, and however often the daemon was started, stopped or
\* killed in between.
THEOREM AlwaysAccurate ==
    ASSUME Plain, "links" \notin Env, "edits_while_starting" \notin Env
    PROVE  Spec => []Accurate
<1>0. 0 \notin Index
  BY DEF Plain
<1>1. Init => AgreeInv /\ ExitInv /\ QueueInv /\ RouteInv /\ LinksUp
  BY DEF Init, AgreeInv, SlotsDistinct, InKernel, NoRoutes, ExitInv, QueueInv, RouteInv,
         Watching, LinksUp
<1>2. ExitInv => freed = {}
  BY DEF ExitInv
<1>3. TypeOK /\ TableValid /\ TableInKernel /\ LinksUp /\ RouteInv => Accurate
  <2>. SUFFICES ASSUME TypeOK, TableValid, TableInKernel, links = Link, RouteInv, Idle,
                       NEW k \in Key, table[k] # NULL
                PROVE  table[k] \in Wanted(k, cfg[k]) \cap kernel
    BY DEF Accurate, LinksUp
  <2>. DEFINE rr == table[k]
              d == Described(k, cfg[k])
              hop == HopLeaf(k)
  <2>1. /\ k[2] # 0 /\ rr \in RouteObject /\ Valid(rr) /\ rr \in kernel
        /\ rr.fam = k[1]
        /\ \A leaf \in Shapes(k) : Field(rr, leaf) = Image(k, leaf, cfg[k][leaf])
    BY DEF Plain, Key, TypeOK, TableValid, TableInKernel, RouteInv, Idle, Watching, Awaited
  <2>2. hop \in {"nexthop", "ifname"} /\ Shapes(k) = {"prefix", "distance", "metric", hop}
    BY DEF HopLeaf, Shapes
  <2>3. /\ rr.dst = Image(k, "prefix", cfg[k]["prefix"])
        /\ rr.nh = Image(k, hop, cfg[k][hop])
        /\ rr.hi = Image(k, "distance", cfg[k]["distance"])
        /\ rr.lo = Image(k, "metric", cfg[k]["metric"])
    <3>. HIDE DEF hop, rr
    <3>. QED BY <2>1, <2>2 DEF Field
  <2>4. rr = d
    <3>1. rr = [fam |-> rr.fam, dst |-> rr.dst, nh |-> rr.nh, hi |-> rr.hi, lo |-> rr.lo]
      BY <2>1 DEF RouteObject
    <3>. HIDE DEF rr
    <3>. QED BY <2>1, <2>3, <3>1 DEF Described
  <2>5. Wanted(k, cfg[k]) = {r \in {d} : Valid(r)}
    BY WantedIs DEF TypeOK
  <2>. HIDE DEF rr, d
  <2>6. rr \in Wanted(k, cfg[k]) \cap kernel
    BY <2>1, <2>4, <2>5
  <2>. QED BY <2>6 DEF rr
<1>4. TypeOK /\ TableValid /\ KernelOwned /\ ExitInv /\ LinksUp /\ QueueInv /\ RouteInv
          /\ [Next]_vars => RouteInv'
  BY <1>2, NextRoute DEF LinksUp
<1>. QED BY <1>0, <1>1, <1>3, <1>4, NextQueue, NextLinks, NextAgree, NextExit,
            TypeCorrect, TableAlwaysValid, AlwaysOwned, AlwaysInKernel, PTL DEF Spec

------------------------------------------------------------------------------
(* Every entry that describes a route gets it.                             *)

\* A route of an entry has one of its prefixes and a nexthop that is reached.
Own(k, rr) == rr.dst \in Prefixes(k) /\ Via(rr.nh) \in Link

\* The entry is still to be told to the callback.
Due(k) ==
    \/ \E leaf \in Leaf : Awaited(k, leaf)
    \/ phase = "starting" /\ (passes > 0 \/ \E x \in replay : x[1] = k)

\* Without a crash there are no routes of earlier processes in the way; and an
\* entry without the route it describes is still to be dealt with.
CompleteInv ==
    /\ orphans = {}
    /\ \A k \in Key : table[k] # NULL => Own(k, table[k])
    /\ Watching => \A k \in Key :
          /\ Valid(Described(k, cfg[k])) /\ Rivals(k) = {} /\ Identified(k)
          /\ table[k] = NULL
          => Due(k)

\* Whatever an applied value makes of a route is the entry's own.
LEMMA ImageOwn ==
    ASSUME Plain, Reachable, NEW k \in Key, NEW v
    PROVE  /\ v \in Choices(k, "prefix") /\ v # NULL => Image(k, "prefix", v) \in Prefixes(k)
           /\ \A leaf \in {"nexthop", "ifname"} :
                 v \in Choices(k, leaf) /\ v # NULL => Via(Image(k, leaf, v)) \in Link
<1>1. v \in Choices(k, "prefix") /\ v # NULL => Image(k, "prefix", v) \in Prefixes(k)
  BY DEF Choices, Image, Prefixes
<1>2. ASSUME v \in Choices(k, "ifname"), v # NULL PROVE Via(Image(k, "ifname", v)) \in Link
  <2>1. v \in Link
    BY <1>2, CandidatesAssumption DEF Choices, Sort, Leaf
  <2>. QED BY <2>1 DEF Via, Image
<1>3. ASSUME v \in Choices(k, "nexthop"), v # NULL PROVE Via(Image(k, "nexthop", v)) \in Link
  <2>1. v \in Candidates[k]["nexthop"] /\ v \in Text
    BY <1>3, CandidatesAssumption DEF Choices, Sort, Leaf
  <2>2. Address[k[1]][v] \in Addr
    BY <2>1, AddressAssumption DEF Plain, Leaf, Key
  <2>3. LinkOf[Address[k[1]][v]] \in Link
    BY <2>1, <2>2, LinkAssumption DEF Reachable
  <2>. QED BY <1>3, <2>3 DEF Via, Image
<1>. QED BY <1>1, <1>2, <1>3

LEMMA NewOwn ==
    ASSUME Plain, Reachable, links = Link, TypeOK, NEW k \in Key,
           NEW leaf \in Leaf, NEW v \in Choices(k, leaf), leaf = "prefix" => v # NULL,
           NEW new, Valid(new),
           \/ table[k] = NULL /\ new = Described(k, cfg[k])
           \/ table[k] # NULL /\ Own(k, table[k]) /\ new = Apply(k, table[k], leaf, v)
    PROVE  Own(k, new) /\ new \in RouteObject
<1>1. CASE table[k] = NULL /\ new = Described(k, cfg[k])
  <2>. DEFINE hop == HopLeaf(k)
  <2>1. hop \in {"nexthop", "ifname"} /\ hop \in Leaf /\ "prefix" \in Leaf
    BY DEF HopLeaf, Leaf
  <2>2. /\ new.dst = Image(k, "prefix", cfg[k]["prefix"])
        /\ new.nh = Image(k, hop, cfg[k][hop])
    BY <1>1 DEF Described
  <2>3. cfg[k]["prefix"] # NULL /\ cfg[k][hop] # NULL
    BY <1>1, WantedIs DEF TypeOK
  <2>4. cfg[k]["prefix"] \in Choices(k, "prefix") /\ cfg[k][hop] \in Choices(k, hop)
    BY <2>1 DEF TypeOK
  <2>5. new \in RouteObject
    <3>1. new \in Wanted(k, cfg[k])
      BY <1>1, WantedIs DEF TypeOK
    <3>2. \A l \in Leaf : cfg[k][l] = NULL \/ cfg[k][l] \in Sort(l)
      BY SortOfChoice DEF TypeOK
    <3>. QED BY <3>1, <3>2, WantedType DEF Route
  <2>. HIDE DEF hop
  <2>. QED BY <2>1, <2>2, <2>3, <2>4, <2>5, ImageOwn DEF Own
<1>2. CASE table[k] # NULL /\ Own(k, table[k]) /\ new = Apply(k, table[k], leaf, v)
  <2>1. table[k] \in RouteObject
    BY <1>2 DEF TypeOK
  <2>2. /\ new \in RouteObject
        /\ Field(new, leaf) = Image(k, leaf, v)
        /\ \A l \in Leaf \ {leaf} :
              {l, leaf} # {"nexthop", "ifname"} => Field(new, l) = Field(table[k], l)
    BY <1>2, <2>1, ApplyFields
  <2>3. /\ \A r : Field(r, "prefix") = r.dst /\ Field(r, "nexthop") = r.nh
                  /\ Field(r, "ifname") = r.nh
        /\ {"prefix", "nexthop", "ifname"} \subseteq Leaf
    BY DEF Field, Leaf
  <2>4. new.dst \in Prefixes(k)
    <3>1. CASE leaf = "prefix"
      BY <2>2, <2>3, <3>1, ImageOwn
    <3>2. CASE leaf # "prefix"
      <4>1. Field(new, "prefix") = Field(table[k], "prefix")
        BY <2>2, <2>3, <3>2
      <4>. QED BY <1>2, <2>3, <4>1 DEF Own
    <3>. QED BY <3>1, <3>2
  <2>5. Via(new.nh) \in Link
    <3>1. CASE leaf \in {"nexthop", "ifname"}
      <4>1. new.nh = Image(k, leaf, v) /\ new.nh # NULL
        BY <2>2, <2>3, <3>1 DEF Valid
      <4>2. v # NULL
        BY <3>1, <4>1 DEF Image
      <4>. QED BY <3>1, <4>1, <4>2, ImageOwn
    <3>2. CASE leaf \notin {"nexthop", "ifname"}
      <4>1. Field(new, "nexthop") = Field(table[k], "nexthop")
        BY <2>2, <2>3, <3>2
      <4>. QED BY <1>2, <2>3, <4>1 DEF Own
    <3>. QED BY <3>1, <3>2
  <2>. QED BY <2>2, <2>4, <2>5 DEF Own
<1>. QED BY <1>1, <1>2

\* No route is in the way of one of an entry without rivals.
LEMMA NoneInTheWay ==
    ASSUME Plain, TypeOK, KernelOwned, CompleteInv, links = Link, Watching,
           NEW k \in Key, Rivals(k) = {}, NEW new, Own(k, new)
    PROVE  LET rest == IF table[k] = NULL THEN kernel ELSE KernelDelete(kernel, table[k])
           IN  KernelAccepts(rest, new)
<1>. DEFINE rest == IF table[k] = NULL THEN kernel ELSE KernelDelete(kernel, table[k])
<1>1. rest \subseteq kernel /\ kernel \in SUBSET Route /\ NULL \notin kernel
  BY DeleteSubset, NullRouteAssumption DEF TypeOK, Route
<1>2. table[k] \notin rest
  <2>1. CASE table[k] = NULL
    BY <1>1, <2>1
  <2>2. CASE table[k] # NULL /\ table[k] \in kernel
    BY <1>1, <2>2, DeleteOwn
  <2>3. CASE table[k] \notin kernel
    BY <1>1, <2>3
  <2>. QED BY <2>1, <2>2, <2>3
<1>. HIDE DEF rest
<1>3. ASSUME NEW r \in rest PROVE ~SameSlot(r, new)
  <2>1. PICK j \in Key : table[j] = r
    BY <1>1, <1>3 DEF KernelOwned, CompleteInv, Tracked, Watching
  <2>2. j # k /\ Own(j, r)
    BY <1>1, <1>2, <1>3, <2>1 DEF CompleteInv
  <2>3. Prefixes(j) \cap Prefixes(k) = {}
    BY <2>2 DEF Rivals
  <2>. QED BY <2>2, <2>3 DEF Own, SameSlot
<1>4. KernelAccepts(rest, new)
  BY <1>3 DEF KernelAccepts, Own
<1>. QED BY <1>4 DEF rest

LEMMA HandleOrphans ==
    ASSUME orphans = {}, NEW k, NEW leaf, NEW v, Handle(k, leaf, v)
    PROVE  orphans' = {}
BY DEF Handle, HandleAdd, HandleDelete, HandleUpdate, Quiet, SetKernel

LEMMA HandleComplete ==
    ASSUME Plain, Reachable, TypeOK, TableValid, KernelOwned, freed = {}, links = Link,
           QueueInv, CompleteInv, Replay \/ Watch
    PROVE  CompleteInv'
<1>1. PICK e \in Event :
          /\ Handle(e[1], e[2], e[3]) /\ Watching
          /\ UNCHANGED <<cfg, phase, passes, links>>
          /\ Candidates[e[1]][e[2]] # {}
          /\ e[3] = cfg[e[1]][e[2]] \/ Awaited(e[1], e[2])'
          /\ \A k, leaf : Awaited(k, leaf) => Awaited(k, leaf)' \/ (k = e[1] /\ leaf = e[2])
          /\ \A x \in replay : x \in replay' \/ x = e
  BY Taken
<1>2. PICK k, leaf, v : k = e[1] /\ leaf = e[2] /\ v = e[3]
  OBVIOUS
<1>3. k \in Key /\ leaf \in Leaf /\ v \in Choices(k, leaf)
  BY <1>2, EventType
<1>4. k[1] = 4 /\ (leaf \in {"nexthop", "ifname"} => leaf = HopLeaf(k))
  BY <1>1, <1>2, <1>3, WrittenLeaf
<1>. DEFINE old == table[k]
            new == IF old = NULL THEN Described(k, cfg[k]) ELSE Apply(k, old, leaf, v)
            rest == IF old = NULL THEN kernel ELSE KernelDelete(kernel, old)
            gone == old # NULL /\ v = NULL /\ leaf \in {"id", "prefix"}
<1>5. /\ \A j \in Key \ {k} : table'[j] = table[j]
      /\ \/ ~gone /\ Valid(new) /\ table'[k] = new
         \/ table'[k] = NULL /\ (~gone /\ Valid(new) => ~KernelAccepts(rest, new))
  BY <1>1, <1>2, <1>3, <1>4, HandleResult
<1>6. ~gone /\ Valid(new) => Own(k, new) /\ new \in RouteObject
  <2>. SUFFICES ASSUME ~gone, Valid(new) PROVE Own(k, new) /\ new \in RouteObject
    OBVIOUS
  <2>1. CASE old = NULL
    <3>1. "metric" \in Leaf /\ NULL \in Choices(k, "metric")
      BY DEF Leaf, Choices
    <3>. QED BY <1>3, <2>1, <3>1, NewOwn
  <2>2. CASE old # NULL
    <3>1. Own(k, old) /\ (leaf = "prefix" => v # NULL)
      BY <1>3, <2>2 DEF CompleteInv
    <3>. QED BY <1>3, <2>2, <3>1, NewOwn
  <2>. QED BY <2>1, <2>2
<1>7. \A j \in Key : table'[j] # NULL => Own(j, table'[j])
  BY <1>3, <1>5, <1>6 DEF CompleteInv
<1>8. ASSUME NEW j \in Key \ {k}, Due(j) PROVE Due(j)'
  <2>1. CASE \E l \in Leaf : Awaited(j, l)
    <3>1. PICK l \in Leaf : Awaited(j, l)
      BY <2>1
    <3>2. Awaited(j, l)'
      BY <1>1, <1>2, <1>8, <3>1
    <3>. QED BY <3>2 DEF Due
  <2>2. CASE phase = "starting" /\ passes > 0
    BY <1>1, <2>2 DEF Due
  <2>3. CASE phase = "starting" /\ \E x \in replay : x[1] = j
    BY <1>1, <1>2, <1>8, <2>3 DEF Due
  <2>. QED BY <1>8, <2>1, <2>2, <2>3 DEF Due
<1>9. ASSUME Valid(Described(k, cfg[k])), Rivals(k) = {}, Identified(k), table'[k] = NULL
      PROVE  Due(k)'
  <2>1. gone \/ ~Valid(new)
    <3>. SUFFICES ASSUME ~gone, Valid(new) PROVE FALSE
      OBVIOUS
    <3>1. KernelAccepts(rest, new)
      <4>1. Own(k, new)
        BY <1>6
      <4>. HIDE DEF new
      <4>. QED BY <1>1, <1>3, <1>9, <4>1, NoneInTheWay
    <3>2. new # NULL
      BY <1>6, NullRouteAssumption
    <3>. QED BY <1>5, <1>9, <3>1, <3>2
  <2>2. old # NULL
    BY <1>9, <2>1
  <2>3. /\ cfg[k]["prefix"] # NULL /\ cfg[k][HopLeaf(k)] # NULL
    BY <1>3, <1>9, WantedIs DEF TypeOK
  <2>4. v # cfg[k][leaf]
    <3>1. CASE gone
      <4>1. leaf = "id" => cfg[k]["id"] # NULL
        BY <1>1, <1>2, <1>9 DEF Identified
      <4>. QED BY <2>3, <3>1, <4>1
    <3>2. CASE ~gone /\ ~Valid(new)
      <4>1. leaf = "prefix" => v # NULL
        BY <2>2, <3>2
      <4>2. old \in RouteObject /\ old.dst # NULL /\ old.nh # NULL
        BY <1>3, <2>2 DEF TypeOK, TableValid, Valid, Plain, Key
      <4>3. new = Apply(k, old, leaf, v)
        BY <2>2
      <4>4. /\ Field(new, leaf) = Image(k, leaf, v)
            /\ \A l \in Leaf \ {leaf} :
                  {l, leaf} # {"nexthop", "ifname"} => Field(new, l) = Field(old, l)
        <5>. HIDE DEF new, old
        <5>. QED BY <1>3, <4>1, <4>2, <4>3, ApplyFields
      <4>5. /\ \A r : Field(r, "prefix") = r.dst /\ Field(r, "nexthop") = r.nh
                      /\ Field(r, "ifname") = r.nh
            /\ {"prefix", "nexthop", "ifname"} \subseteq Leaf
        BY DEF Field, Leaf
      <4>. HIDE DEF new, old
      <4>6. new.dst # NULL
        <5>1. CASE leaf = "prefix"
          <6>1. v \in Candidates[k]["prefix"] /\ Image(k, leaf, v) = Address[k[1]][v]
            BY <1>3, <4>1, <5>1 DEF Choices, Image
          <6>. QED BY <1>3, <4>4, <4>5, <5>1, <6>1 DEF Plain
        <5>2. CASE leaf # "prefix"
          <6>1. Field(new, "prefix") = Field(old, "prefix")
            BY <4>4, <4>5, <5>2
          <6>. QED BY <4>2, <4>5, <6>1
        <5>. QED BY <5>1, <5>2
      <4>7. new.nh = NULL
        BY <3>2, <4>6 DEF Valid, new
      <4>8. leaf \in {"nexthop", "ifname"}
        <5>. SUFFICES ASSUME leaf \notin {"nexthop", "ifname"} PROVE FALSE
          OBVIOUS
        <5>1. Field(new, "nexthop") = Field(old, "nexthop")
          BY <4>4, <4>5
        <5>. QED BY <4>2, <4>5, <4>7, <5>1
      <4>9. v = NULL
        <5>1. Image(k, leaf, v) = NULL
          BY <4>4, <4>5, <4>7, <4>8
        <5>2. CASE leaf = "ifname"
          BY <5>1, <5>2 DEF Image
        <5>3. CASE leaf = "nexthop" /\ v # NULL
          <6>1. v \in Candidates[k]["nexthop"] /\ Image(k, leaf, v) = Address[k[1]][v]
            BY <1>3, <5>3 DEF Choices, Image
          <6>. QED BY <1>3, <5>1, <5>3, <6>1 DEF Plain
        <5>. QED BY <4>8, <5>2, <5>3
      <4>. QED BY <1>4, <2>3, <4>8, <4>9
    <3>. QED BY <2>1, <3>1, <3>2
  <2>5. Awaited(k, leaf)'
    BY <1>1, <1>2, <2>4
  <2>. QED BY <1>3, <2>5 DEF Due
<1>10. orphans' = {}
  BY <1>1, HandleOrphans DEF CompleteInv
<1>11. ASSUME NEW j \in Key, Valid(Described(j, cfg'[j])), Rivals(j) = {}, Identified(j)',
              table'[j] = NULL
       PROVE  Due(j)'
  <2>1. cfg' = cfg /\ Identified(j)
    BY <1>1, <1>11 DEF Identified
  <2>2. CASE j = k
    BY <1>9, <1>11, <2>1, <2>2
  <2>3. CASE j # k
    <3>1. table[j] = NULL
      BY <1>5, <1>11, <2>3
    <3>2. Due(j)
      BY <1>1, <1>11, <2>1, <3>1 DEF CompleteInv
    <3>. QED BY <1>8, <2>3, <3>2
  <2>. QED BY <2>2, <2>3
<1>. QED BY <1>7, <1>10, <1>11 DEF CompleteInv

LEMMA NextComplete ==
    ASSUME Plain, Reachable, Env \cap {"links", "edits_while_starting", "crash"} = {}
    PROVE  TypeOK /\ TableValid /\ KernelOwned /\ freed = {} /\ links = Link /\ QueueInv
               /\ CompleteInv /\ [Next]_vars => CompleteInv'
<1>. SUFFICES ASSUME TypeOK, TableValid, KernelOwned, freed = {}, links = Link, QueueInv,
                     CompleteInv, [Next]_vars
              PROVE  CompleteInv'
  OBVIOUS
<1>1. CASE Replay \/ Watch
  BY <1>1, HandleComplete
<1>2. CASE Edit
  <2>1. /\ phase # "starting"
        /\ \E k \in Key, leaf \in Leaf :
              /\ \A j \in Key, l \in Leaf : cfg'[j][l] = cfg[j][l] \/ (j = k /\ l = leaf)
              /\ \A j, l : Awaited(j, l) => Awaited(j, l)'
              /\ Watching => Awaited(k, leaf)'
    BY <1>2, Edited
  <2>2. PICK k \in Key, leaf \in Leaf :
            /\ \A j \in Key, l \in Leaf : cfg'[j][l] = cfg[j][l] \/ (j = k /\ l = leaf)
            /\ \A j, l : Awaited(j, l) => Awaited(j, l)'
            /\ Watching => Awaited(k, leaf)'
    BY <2>1
  <2>3. UNCHANGED <<table, phase, orphans>>
    BY <1>2 DEF Edit
  <2>4. ASSUME NEW j \in Key, Watching', Valid(Described(j, cfg'[j])), Rivals(j) = {},
               Identified(j)', table'[j] = NULL
        PROVE  Due(j)'
    <3>1. Watching
      BY <2>3, <2>4 DEF Watching
    <3>2. CASE j = k
      BY <2>2, <3>1, <3>2 DEF Due
    <3>3. CASE j # k
      <4>1. \A l \in Leaf : cfg'[j][l] = cfg[j][l]
        BY <2>2, <3>3
      <4>2. Described(j, cfg'[j]) = Described(j, cfg[j]) /\ Identified(j)
        BY <2>4, <4>1 DEF Described, Identified, HopLeaf, Leaf
      <4>3. Due(j)
        BY <2>3, <2>4, <3>1, <4>2 DEF CompleteInv
      <4>. QED BY <2>1, <2>2, <4>3 DEF Due
    <3>. QED BY <3>2, <3>3
  <2>. QED BY <2>3, <2>4 DEF CompleteInv
<1>3. CASE Snapshot
  <2>1. UNCHANGED <<cfg, queue, phase, table, orphans>> /\ phase = "starting"
    BY <1>3 DEF Snapshot
  <2>2. passes' = passes - 1 /\ passes \in 1 .. 2
    BY <1>3 DEF Snapshot, TypeOK
  <2>3. ASSUME NEW k \in Key, Valid(Described(k, cfg[k])) PROVE Due(k)'
    <3>1. cfg[k]["prefix"] # NULL /\ cfg[k]["prefix"] \in Choices(k, "prefix")
      BY <2>3, WantedIs DEF TypeOK, Leaf
    <3>2. k[1] = 4 /\ k \in {4} \X Index
      BY <3>1 DEF Choices, Plain, Leaf, Key
    <3>3. <<k, "prefix", cfg[k]["prefix"]>> \in replay'
      BY <1>3, <3>1, <3>2 DEF Snapshot, Leaf
    <3>. QED BY <2>1, <3>3 DEF Due
  <2>. QED BY <2>1, <2>3 DEF CompleteInv
<1>4. CASE Startup
  <2>1. phase' = "starting" /\ passes' = 2 /\ UNCHANGED <<table, orphans>>
    BY <1>4 DEF Startup
  <2>. QED BY <2>1 DEF CompleteInv, Due
<1>5. CASE StartDone
  <2>1. /\ UNCHANGED <<cfg, queue, table, orphans>> /\ Watching
        /\ replay = {} /\ passes = 0
    BY <1>5 DEF StartDone, Watching
  <2>2. \A k \in Key : Due(k) => Due(k)'
    BY <2>1 DEF Due, Awaited
  <2>. QED BY <2>1, <2>2 DEF CompleteInv, Identified
<1>6. CASE Exit \/ ExitRoute \/ ExitDone
  <2>1. ~Watching' /\ orphans' = {} /\ (table' = table \/ table' = NoRoutes)
    BY <1>6 DEF Exit, ExitRoute, ExitDone, Watching, SetKernel, CompleteInv
  <2>. QED BY <2>1 DEF CompleteInv, NoRoutes
<1>7. CASE UNCHANGED vars
  BY <1>7 DEF vars, CompleteInv, Watching, Due, Awaited, Identified
<1>. QED BY <1>1, <1>2, <1>3, <1>4, <1>5, <1>6, <1>7 DEF Next, LinkDown, LinkUp, Crash

\* With a plain configuration and gateways that are reached, no crash, no link changes
\* and no edits during a start, every entry that describes a route has it installed
\* once all events have been delivered: no event, snapshot or exit of the daemon comes
\* too early or too late for it, and no route of another entry is in its way, unless
\* one of its prefixes is the other's too.
THEOREM AlwaysComplete ==
    ASSUME Plain, Reachable, Env \cap {"links", "edits_while_starting", "crash"} = {}
    PROVE  Spec => []Complete
<1>0. "links" \notin Env /\ "edits_while_starting" \notin Env /\ 0 \notin Index
  BY DEF Plain
<1>1. Init => AgreeInv /\ ExitInv /\ QueueInv /\ CompleteInv /\ LinksUp
  BY DEF Init, AgreeInv, SlotsDistinct, InKernel, NoRoutes, ExitInv, QueueInv, CompleteInv,
         Watching, LinksUp
<1>2. TypeOK /\ TableValid /\ KernelOwned /\ ExitInv /\ LinksUp /\ QueueInv /\ CompleteInv
          /\ [Next]_vars => CompleteInv'
  BY NextComplete DEF ExitInv, LinksUp
<1>3. TypeOK /\ LinksUp /\ CompleteInv => Complete
  <2>. SUFFICES ASSUME TypeOK, LinksUp, CompleteInv, Idle, NEW k \in Key,
                       Wanted(k, cfg[k]) # {}, Rivals(k) = {}, Identified(k), table[k] = NULL
                PROVE  FALSE
    BY DEF Complete
  <2>1. Valid(Described(k, cfg[k]))
    BY WantedIs DEF TypeOK, LinksUp
  <2>2. Due(k)
    BY <2>1 DEF CompleteInv, Idle, Watching
  <2>. QED BY <2>2 DEF Due, Awaited, Idle
<1>. QED BY <1>0, <1>1, <1>2, <1>3, NextQueue, NextLinks, NextAgree, NextExit,
            TypeCorrect, TableAlwaysValid, AlwaysOwned, PTL DEF Spec

=============================================================================
