---------------------------- MODULE EntityProofs ----------------------------
(***************************************************************************)
(* What holds of Entity for every set of entries and addresses, whatever   *)
(* entities and interfaces they belong to, and every bound: the types are  *)
(* right and the lock is held by who clears; a listed entry keeps its      *)
(* leaves; and once all is quiet just the addresses of configured entries  *)
(* are published, but for what the code is known to lose.                  *)
(***************************************************************************)
EXTENDS Entity, Queues

\* Nothing is left in memory of a process that ended, and there are no events
\* without a watch.
Idle ==
    /\ phase = "down" => call = NULL /\ list = {} /\ lock = NULL /\ walk = NoWalk
                            /\ pub \subseteq lost /\ unread = {}
    /\ ~Watching => queue = <<>>

\* A visit for addresses to clear goes with the lock and an entry that has left
\* the list; one for addresses to publish with an entry that is in the list.
Modes ==
    \A t \in Thread : walk[t] # NULL =>
        /\ walk[t].mode = "del" => /\ lock # NULL /\ walk[lock].entry = walk[t].entry
                                   /\ walk[t].entry \notin list
        /\ walk[t].mode = "add" => walk[t].entry \in list

\* The netlink thread is in a callback about what the cache has, once the link cache
\* has caught up.
Called ==
    /\ call # NULL => unread = {}
    /\ call # NULL /\ call[1] = "del" => call[2] \notin cache
    /\ call # NULL /\ call[1] = "new" => call[2] \in cache

IInv == TypeOK /\ Idle /\ Modes /\ Called

\* A visit comes to addresses of its entry, and has the last of them in hand; it has
\* found the index of the interface.
InHand ==
    \A t \in Thread : walk[t] # NULL =>
        /\ walk[t].seen \subseteq In(walk[t].entry) /\ walk[t].cur \in walk[t].seen \cup {NULL}
        /\ walk[t].cur # NULL => Known(walk[t].entry)

\* The notifications end with what is so, and what the cache has wrong is notified.
Notified ==
    Alive => \A a \in Addr :
        /\ a \in kernel => Says(news, a, TRUE) /\ (a \notin cache => Of(news, a))
        /\ a \notin kernel => Says(news, a, FALSE) /\ (a \in cache => Of(news, a))

\* The events of an entry end with what is configured.
Corrected == \A e \in Entry : Says(queue, e, cfg[e])

\* The list is empty until there is a watch.  What is configured is listed, or will
\* be, and what is listed is configured, or will be removed.
Enlisted ==
    /\ phase = "ready" => list = {}
    /\ phase \in {"loading", "running"} =>
           \A e \in Entry : cfg[e] = "same" =>
               e \in list \/ Pending(e) \/ (phase = "loading" /\ <<e, "same">> \in replay)
    /\ Watching => \A e \in list : cfg[e] # NULL \/ Pending(e) \/ e \in raced

\* A visit is about to publish address a for e.
ToShow(e, a) ==
    \E t \in Thread : /\ walk[t] # NULL
                      /\ walk[t].entry = e /\ walk[t].mode = "add"
                      /\ a \notin walk[t].seen \/ walk[t].cur = a

\* A listed entry shows its cached addresses, or will, unless it has passed them over.
Coming ==
    \A e \in list \ raced : \A a \in In(e) \cap cache :
        Sole(e, a) => \/ LeafOf(e, a) \in pub \/ ToShow(e, a) \/ call = <<"new", a>>
                      \/ <<e, a>> \in blind

\* What was visited to be cleared is still cached, or the netlink thread waits for
\* the lock with it.
Cleared ==
    lock # NULL => \A a \in walk[lock].seen : a \in cache \/ call = <<"del", a>>

\* The entry is listed and the address cached, or one of them is being removed.
Kept(e, a) ==
    \/ e \in list /\ (a \in cache \/ call = <<"del", a>>)
    \/ /\ lock # NULL /\ walk[lock].entry = e
       /\ a \notin cache \/ a \notin walk[lock].seen \/ walk[lock].cur = a

\* What is published was found, so that it can be found again.
Justified ==
    \A leaf \in pub \ lost :
        \E e \in Entry : \E a \in In(e) : LeafOf(e, a) = leaf /\ Known(e) /\ Kept(e, a)

MInv == IInv /\ InHand /\ Notified /\ Corrected /\ Enlisted /\ Coming /\ Cleared /\ Justified
------------------------------------------------------------------------------
(* Visits.                                                                 *)

LEMMA WalkParts ==
    ASSUME NEW w \in Walk
    PROVE  /\ w # NULL /\ w.entry \in Entry /\ w.mode \in {"add", "del", "freed"}
           /\ w.seen \subseteq Addr /\ w.cur \in Addr \cup {NULL}
<1>1. w # NULL
  BY NullAssumption
<1>2. QED BY <1>1 DEF Walk

LEMMA VisitParts ==
    ASSUME NEW e \in Entry, NEW mode \in {"add", "del", "freed"}
    PROVE  /\ Visit(e, mode) \in Walk /\ Visit(e, mode) # NULL
           /\ Visit(e, mode).entry = e /\ Visit(e, mode).mode = mode
           /\ Visit(e, mode).seen = {} /\ Visit(e, mode).cur = NULL
<1>1. Visit(e, mode) \in Walk
  BY DEF Visit, Walk
<1>2. QED BY <1>1, NullAssumption DEF Visit

LEMMA SpoiledParts ==
    ASSUME NEW ws \in [Thread -> Walk \cup {NULL}], NEW t, NEW e, NEW mode \in {"add", "del", "freed"}
    PROVE  /\ Spoiled(ws, t, e, mode) \in [Thread -> Walk \cup {NULL}]
           /\ \A u \in Thread :
                 LET w == Spoiled(ws, t, e, mode)[u]
                 IN  /\ w = NULL <=> ws[u] = NULL
                     /\ ws[u] # NULL => /\ w.entry = ws[u].entry /\ w.seen = ws[u].seen
                                        /\ w.cur = ws[u].cur
                     /\ u # t /\ ws[u] # NULL /\ ws[u].entry = e => w.mode = mode
                     /\ u = t \/ (ws[u] # NULL /\ ws[u].entry # e) => w = ws[u]
<1>. DEFINE sp == Spoiled(ws, t, e, mode)
<1>1. ASSUME NEW u \in Thread, u # t, ws[u] # NULL, ws[u].entry = e
      PROVE  /\ sp[u] \in Walk /\ sp[u].entry = ws[u].entry /\ sp[u].seen = ws[u].seen
             /\ sp[u].cur = ws[u].cur /\ sp[u].mode = mode
  <2>1. ws[u] \in Walk /\ sp[u] = [ws[u] EXCEPT !.mode = mode]
    BY <1>1 DEF Spoiled
  <2>2. QED BY <2>1 DEF Walk
<1>2. ASSUME NEW u \in Thread, ~(u # t /\ ws[u] # NULL /\ ws[u].entry = e)
      PROVE  sp[u] = ws[u]
  BY <1>2 DEF Spoiled
<1>3. DOMAIN sp = Thread /\ sp = [u \in Thread |-> sp[u]]
  BY DEF Spoiled
<1>. HIDE DEF sp
<1>4. \A u \in Thread : sp[u] \in Walk \cup {NULL}
  BY <1>1, <1>2
<1>5. sp \in [Thread -> Walk \cup {NULL}]
  BY <1>3, <1>4
<1>6. \A w \in Walk : w # NULL
  BY NullAssumption
<1>7. QED BY <1>1, <1>2, <1>5, <1>6 DEF sp

\* A thread that is not in a visit begins one for an entry it has listed.
LEMMA EnlistParts ==
    ASSUME TypeOK, NEW t \in Thread, NEW e \in Entry, Enlist(t, e)
    PROVE  /\ lock = NULL /\ lock' = NULL /\ list' = list \cup {e}
           /\ walk' \in [Thread -> Walk \cup {NULL}]
           /\ walk'[t] # NULL /\ walk'[t].entry = e /\ walk'[t].mode = "add"
           /\ walk'[t].seen = {} /\ walk'[t].cur = NULL
           /\ \A u \in Thread : u # t => walk'[u] = walk[u]
           /\ raced' \subseteq Entry
           /\ \A f \in Entry : f # e => (f \in raced' <=> f \in raced)
           /\ e \notin raced' => cfg[e] # NULL \/ Pending(e)'
           /\ blind' = blind \ ({e} \X Addr)
<1>1. /\ Visit(e, "add") \in Walk /\ Visit(e, "add") # NULL
      /\ Visit(e, "add").entry = e /\ Visit(e, "add").mode = "add"
      /\ Visit(e, "add").seen = {} /\ Visit(e, "add").cur = NULL
  BY VisitParts
<1>2. lock = NULL /\ lock' = NULL /\ list' = list \cup {e} /\ walk' = [walk EXCEPT ![t] = Visit(e, "add")]
  BY DEF Enlist
<1>3. /\ walk' \in [Thread -> Walk \cup {NULL}] /\ walk'[t] = Visit(e, "add")
      /\ \A u \in Thread : u # t => walk'[u] = walk[u]
  BY <1>1, <1>2 DEF TypeOK
<1>4. /\ raced' \subseteq Entry
      /\ \A f \in Entry : f # e => (f \in raced' <=> f \in raced)
      /\ e \notin raced' => cfg[e] # NULL \/ Pending(e)'
      /\ blind' = blind \ ({e} \X Addr)
  BY DEF Enlist, TypeOK
<1>5. QED BY <1>1, <1>2, <1>3, <1>4

\* ... or one for an entry it has taken off the list, under the lock.
LEMMA DelistParts ==
    ASSUME TypeOK, NEW t \in Thread, walk[t] = NULL, NEW e \in Entry, Delist(t, e)
    PROVE  /\ lock = NULL /\ lock' = t /\ t # NULL /\ e \in list /\ list' = list \ {e}
           /\ walk' \in [Thread -> Walk \cup {NULL}]
           /\ walk'[t] # NULL /\ walk'[t].entry = e /\ walk'[t].mode = "del"
           /\ walk'[t].seen = {} /\ walk'[t].cur = NULL
           /\ \A u \in Thread : u # t =>
                 /\ walk'[u] = NULL <=> walk[u] = NULL
                 /\ walk[u] # NULL => /\ walk'[u].entry = walk[u].entry /\ walk'[u].seen = walk[u].seen
                                      /\ walk'[u].cur = walk[u].cur
                 /\ walk[u] # NULL /\ walk[u].entry = e => walk'[u].mode = "del"
                 /\ walk[u] # NULL /\ walk[u].entry # e => walk'[u] = walk[u]
           /\ raced' = raced \ {e} /\ blind' = blind \ ({e} \X Addr)
<1>. DEFINE ws == [walk EXCEPT ![t] = Visit(e, "del")]
<1>1. /\ Visit(e, "del") \in Walk /\ Visit(e, "del") # NULL
      /\ Visit(e, "del").entry = e /\ Visit(e, "del").mode = "del"
      /\ Visit(e, "del").seen = {} /\ Visit(e, "del").cur = NULL
  BY VisitParts
<1>2. /\ lock = NULL /\ lock' = t /\ e \in list /\ list' = list \ {e}
      /\ walk' = Spoiled(ws, t, e, "del") /\ raced' = raced \ {e}
      /\ blind' = blind \ ({e} \X Addr)
  BY DEF Delist
<1>3. /\ ws \in [Thread -> Walk \cup {NULL}] /\ ws[t] = Visit(e, "del")
      /\ \A u \in Thread : u # t => ws[u] = walk[u]
  BY <1>1 DEF TypeOK
<1>4. t # NULL
  BY NullAssumption
<1>. HIDE DEF ws
<1>5. /\ walk' \in [Thread -> Walk \cup {NULL}]
      /\ \A u \in Thread :
            /\ walk'[u] = NULL <=> ws[u] = NULL
            /\ ws[u] # NULL => /\ walk'[u].entry = ws[u].entry /\ walk'[u].seen = ws[u].seen
                               /\ walk'[u].cur = ws[u].cur
            /\ u # t /\ ws[u] # NULL /\ ws[u].entry = e => walk'[u].mode = "del"
            /\ u = t \/ (ws[u] # NULL /\ ws[u].entry # e) => walk'[u] = ws[u]
  BY <1>2, <1>3, SpoiledParts
<1>6. walk'[t] = Visit(e, "del")
  BY <1>3, <1>5
<1>7. QED BY <1>1, <1>2, <1>3, <1>4, <1>5, <1>6

LEMMA FetchParts ==
    ASSUME TypeOK, NEW t \in Thread, Fetch(t)
    PROVE  \E a \in cache :
               /\ a \in In(walk[t].entry) /\ a \notin walk[t].seen /\ a \in Addr
               /\ walk[t] # NULL /\ walk[t].cur = NULL /\ Known(walk[t].entry)
               /\ walk' \in [Thread -> Walk \cup {NULL}]
               /\ walk'[t] # NULL /\ walk'[t].entry = walk[t].entry /\ walk'[t].mode = walk[t].mode
               /\ walk'[t].cur = a /\ walk'[t].seen = walk[t].seen \cup {a}
               /\ \A u \in Thread : u # t => walk'[u] = walk[u]
<1>1. PICK a \in (cache \cap In(walk[t].entry)) \ walk[t].seen :
          walk' = [walk EXCEPT ![t].cur = a, ![t].seen = @ \cup {a}]
  BY DEF Fetch
<1>2. /\ walk[t] # NULL /\ walk[t].cur = NULL /\ walk[t] \in Walk /\ a \in Addr
      /\ Known(walk[t].entry)
  BY DEF Fetch, TypeOK
<1>3. /\ walk'[t] = [walk[t] EXCEPT !.cur = a, !.seen = @ \cup {a}]
      /\ \A u \in Thread : u # t => walk'[u] = walk[u]
      /\ DOMAIN walk' = Thread /\ walk' = [u \in Thread |-> walk'[u]]
  BY <1>1 DEF TypeOK
<1>4. /\ walk'[t] \in Walk /\ walk'[t].entry = walk[t].entry /\ walk'[t].mode = walk[t].mode
      /\ walk'[t].cur = a /\ walk'[t].seen = walk[t].seen \cup {a}
  <2> DEFINE w == walk[t]
             more == w.seen \cup {a}
  <2>1. w \in Walk /\ more \in SUBSET Addr /\ a \in Addr
    BY <1>2 DEF Walk
  <2>2. walk'[t] = [w EXCEPT !.cur = a, !.seen = more]
    BY <1>3
  <2> HIDE DEF w, more
  <2>3. /\ walk'[t] \in Walk /\ walk'[t].entry = w.entry /\ walk'[t].mode = w.mode
        /\ walk'[t].cur = a /\ walk'[t].seen = more
    BY <2>1, <2>2 DEF Walk
  <2>4. QED BY <2>3 DEF w, more
<1>5. walk'[t] # NULL
  BY <1>4, NullAssumption
<1>6. walk' \in [Thread -> Walk \cup {NULL}]
  BY <1>3, <1>4 DEF TypeOK
<1>7. QED BY <1>1, <1>2, <1>3, <1>4, <1>5, <1>6

LEMMA SetParts ==
    ASSUME TypeOK, NEW t \in Thread, Set(t)
    PROVE  /\ walk[t] # NULL /\ walk[t].cur \in Addr /\ walk[t].entry \in Entry
           /\ walk[t].mode \in {"add", "del", "freed"}
           /\ walk' \in [Thread -> Walk \cup {NULL}]
           /\ walk'[t] # NULL /\ walk'[t].entry = walk[t].entry /\ walk'[t].mode = walk[t].mode
           /\ walk'[t].cur = NULL /\ walk'[t].seen = walk[t].seen
           /\ \A u \in Thread : u # t => walk'[u] = walk[u]
<1>1. /\ walk[t] # NULL /\ walk[t].cur # NULL /\ walk[t] \in Walk
      /\ walk' = [walk EXCEPT ![t].cur = NULL]
  BY DEF Set, TypeOK
<1>2. /\ walk'[t] = [walk[t] EXCEPT !.cur = NULL]
      /\ \A u \in Thread : u # t => walk'[u] = walk[u]
      /\ DOMAIN walk' = Thread /\ walk' = [u \in Thread |-> walk'[u]]
  BY <1>1 DEF TypeOK
<1>3. /\ walk'[t] \in Walk /\ walk'[t].entry = walk[t].entry /\ walk'[t].mode = walk[t].mode
      /\ walk'[t].cur = NULL /\ walk'[t].seen = walk[t].seen
  BY <1>1, <1>2 DEF Walk
<1>4. walk'[t] # NULL
  BY <1>3, NullAssumption
<1>5. walk' \in [Thread -> Walk \cup {NULL}]
  BY <1>2, <1>3 DEF TypeOK
<1>6. QED BY <1>1, <1>2, <1>3, <1>4, <1>5, WalkParts

LEMMA DoneParts ==
    ASSUME TypeOK, NEW t \in Thread, Done(t)
    PROVE  /\ walk[t] # NULL /\ walk[t].cur = NULL /\ walk[t].entry \in Entry
           /\ Known(walk[t].entry) => cache \cap In(walk[t].entry) \subseteq walk[t].seen
           /\ blind' = IF ~Known(walk[t].entry) /\ walk[t].mode = "add"
                           THEN blind \cup ({walk[t].entry} \X (In(walk[t].entry) \cap cache))
                           ELSE blind
           /\ walk' \in [Thread -> Walk \cup {NULL}] /\ walk'[t] = NULL
           /\ \A u \in Thread : u # t =>
                 /\ walk'[u] = NULL <=> walk[u] = NULL
                 /\ walk[u] # NULL => /\ walk'[u].entry = walk[u].entry /\ walk'[u].seen = walk[u].seen
                                      /\ walk'[u].cur = walk[u].cur
           /\ \A u \in Thread :
                 u # t /\ (lock # t \/ walk[u] = NULL \/ walk[u].entry # walk[t].entry) =>
                     walk'[u] = walk[u]
           /\ \A u \in Thread : u # t /\ lock = t /\ walk[u] # NULL /\ walk[u].entry = walk[t].entry =>
                     walk'[u].mode = "freed"
<1>. DEFINE rest == [walk EXCEPT ![t] = NULL]
            e == walk[t].entry
<1>1. /\ walk[t] # NULL /\ walk[t].cur = NULL /\ walk[t].entry \in Entry
      /\ Known(walk[t].entry) => cache \cap In(walk[t].entry) \subseteq walk[t].seen
      /\ blind' = IF ~Known(walk[t].entry) /\ walk[t].mode = "add"
                      THEN blind \cup ({walk[t].entry} \X (In(walk[t].entry) \cap cache))
                      ELSE blind
      /\ IF lock = t THEN walk' = Spoiled(rest, t, e, "freed") ELSE walk' = rest
  BY WalkParts DEF Done, TypeOK
<1>2. /\ rest \in [Thread -> Walk \cup {NULL}] /\ rest[t] = NULL
      /\ \A u \in Thread : u # t => rest[u] = walk[u]
  BY DEF TypeOK
<1>. HIDE DEF rest, e
<1>3. CASE lock # t
  BY <1>1, <1>2, <1>3
<1>4. CASE lock = t
  <2>1. /\ walk' \in [Thread -> Walk \cup {NULL}]
        /\ \A u \in Thread :
              /\ walk'[u] = NULL <=> rest[u] = NULL
              /\ rest[u] # NULL => /\ walk'[u].entry = rest[u].entry /\ walk'[u].seen = rest[u].seen
                                   /\ walk'[u].cur = rest[u].cur
              /\ u # t /\ rest[u] # NULL /\ rest[u].entry = e => walk'[u].mode = "freed"
              /\ u = t \/ (rest[u] # NULL /\ rest[u].entry # e) => walk'[u] = rest[u]
    BY <1>1, <1>2, <1>4, SpoiledParts
  <2>2. QED BY <1>1, <1>2, <2>1 DEF e
<1>5. QED BY <1>3, <1>4

------------------------------------------------------------------------------
(* Types, and who holds the lock.                                          *)

LEMMA InitInvariant == Init => IInv
<1> SUFFICES ASSUME Init PROVE IInv
  OBVIOUS
<1>1. TypeOK
  <2>1. walk \in [Thread -> Walk \cup {NULL}]
    BY DEF Init, NoWalk
  <2>2. queue \in Seq(Entry \X (Value \cup {NULL})) /\ news \in Seq(Addr \X BOOLEAN)
    BY DEF Init
  <2>3. QED BY <2>1, <2>2 DEF Init, TypeOK
<1>2. Idle /\ Called
  BY DEF Init, Idle, Called
<1>3. Modes
  BY DEF Init, Modes, NoWalk
<1>4. QED BY <1>1, <1>2, <1>3 DEF IInv

\* An entry is handled by thread t: what changes besides is no matter.
LEMMA HandleInvariant ==
    ASSUME IInv, NEW t \in Thread, walk[t] = NULL, NEW e \in Entry, NEW v, Handle(t, e, v),
           UNCHANGED <<cfg, kernelvars, netvars, phase, pub, lost>>, phase # "down",
           queue' \in Seq(Entry \X (Value \cup {NULL})), queue = <<>> => queue' = <<>>,
           replay' \subseteq Entry \X Value
    PROVE  IInv'
<1>1. TypeOK /\ Idle /\ Modes /\ Called
  BY DEF IInv
<1>2. /\ walk' \in [Thread -> Walk \cup {NULL}] /\ list' \subseteq Entry /\ raced' \subseteq Entry
      /\ blind' \subseteq Entry \X Addr /\ lock' \in Thread \cup {NULL}
      /\ lock' # NULL => walk'[lock'] # NULL /\ walk'[lock'].mode = "del"
      /\ Modes'
  <2>1. CASE Enlist(t, e)
    <3>1. /\ lock = NULL /\ lock' = NULL /\ list' = list \cup {e}
          /\ walk' \in [Thread -> Walk \cup {NULL}] /\ raced' \subseteq Entry
          /\ blind' = blind \ ({e} \X Addr)
          /\ walk'[t] # NULL /\ walk'[t].entry = e /\ walk'[t].mode = "add"
          /\ \A u \in Thread : u # t => walk'[u] = walk[u]
      BY <1>1, <2>1, EnlistParts
    <3>2. Modes'
      BY <1>1, <3>1 DEF Modes
    <3>3. QED BY <1>1, <3>1, <3>2 DEF TypeOK
  <2>2. CASE Delist(t, e)
    <3>1. /\ lock = NULL /\ lock' = t /\ t # NULL /\ list' = list \ {e}
          /\ walk' \in [Thread -> Walk \cup {NULL}] /\ raced' = raced \ {e}
          /\ blind' = blind \ ({e} \X Addr)
          /\ walk'[t] # NULL /\ walk'[t].entry = e /\ walk'[t].mode = "del"
      BY <1>1, <2>2, DelistParts
    <3>2. \A u \in Thread : u # t =>
             /\ walk'[u] = NULL <=> walk[u] = NULL
             /\ walk[u] # NULL /\ walk[u].entry = e => walk'[u].mode = "del" /\ walk'[u].entry = e
             /\ walk[u] # NULL /\ walk[u].entry # e => walk'[u] = walk[u]
      BY <1>1, <2>2, DelistParts
    <3>3. Modes'
      BY <1>1, <3>1, <3>2 DEF Modes
    <3>4. QED BY <1>1, <3>1, <3>3 DEF TypeOK
  <2>3. CASE UNCHANGED <<list, lock, walk, raced, blind>>
    BY <1>1, <2>3 DEF TypeOK, Modes
  <2>4. QED BY <2>1, <2>2, <2>3 DEF Handle
<1>3. TypeOK'
  BY <1>1, <1>2 DEF TypeOK, kernelvars, netvars
<1>4. Idle' /\ Called'
  BY <1>1 DEF Idle, Called, Watching, netvars
<1>5. QED BY <1>2, <1>3, <1>4 DEF IInv

LEMMA EventParts ==
    ASSUME NEW S, NEW q \in Seq(Entry \X S), q # <<>>
    PROVE  Tail(q) \in Seq(Entry \X S) /\ Head(q) \in Entry \X S /\ Head(q)[1] \in Entry /\ Head(q)[2] \in S
<1>1. Tail(q) \in Seq(Entry \X S) /\ Head(q) \in Entry \X S
  BY TailIndices
<1>2. QED BY <1>1

LEMMA DeliverInvariant == ASSUME IInv, Deliver PROVE IInv'
<1>1. PICK m \in {Head(queue)} : Handle("apteryx", m[1], m[2])
  BY DEF Deliver
<1>2. /\ walk["apteryx"] = NULL /\ queue # <<>> /\ queue' = Tail(queue) /\ phase # "down"
      /\ UNCHANGED <<cfg, kernelvars, netvars, phase, pub, lost, replay>>
  BY DEF Deliver, Watching
<1>3. queue \in Seq(Entry \X (Value \cup {NULL})) /\ replay \subseteq Entry \X Value
  BY DEF IInv, TypeOK
<1>4. queue' \in Seq(Entry \X (Value \cup {NULL})) /\ m[1] \in Entry
  BY <1>1, <1>2, <1>3, EventParts
<1>5. "apteryx" \in Thread /\ replay' \subseteq Entry \X Value
  BY <1>2, <1>3 DEF Thread
<1>6. QED BY <1>1, <1>2, <1>4, <1>5, HandleInvariant

LEMMA ReplayInvariant == ASSUME IInv, Replay PROVE IInv'
<1>1. PICK x \in replay : replay' = replay \ {x} /\ UNCHANGED queue /\ Handle("main", x[1], x[2])
  BY DEF Replay
<1>2. /\ walk["main"] = NULL /\ phase # "down"
      /\ UNCHANGED <<cfg, kernelvars, netvars, phase, pub, lost>>
  BY DEF Replay
<1>3. /\ queue \in Seq(Entry \X (Value \cup {NULL})) /\ replay \subseteq Entry \X Value
      /\ x[1] \in Entry /\ "main" \in Thread
  BY DEF IInv, TypeOK, Thread
<1>4. queue' \in Seq(Entry \X (Value \cup {NULL})) /\ replay' \subseteq Entry \X Value
  BY <1>1, <1>3
<1>5. QED BY <1>1, <1>2, <1>3, <1>4, HandleInvariant

LEMMA WalkInvariant == ASSUME IInv, WalkStep PROVE IInv'
<1>1. PICK t \in Thread : Fetch(t) \/ Set(t) \/ Done(t)
  BY DEF WalkStep
<1>2. TypeOK /\ Idle /\ Modes /\ Called
  BY DEF IInv
<1>3. CASE Fetch(t)
  <2>1. /\ walk[t] # NULL
        /\ walk' \in [Thread -> Walk \cup {NULL}]
        /\ walk'[t] # NULL /\ walk'[t].entry = walk[t].entry /\ walk'[t].mode = walk[t].mode
        /\ \A u \in Thread : u # t => walk'[u] = walk[u]
    BY <1>2, <1>3, FetchParts
  <2>2. /\ UNCHANGED <<treevars, kernelvars, netvars, phase, replay, list, lock, pub, lost, raced,
                     blind>>
        /\ phase # "down"
    BY <1>2, <1>3, <2>1 DEF Fetch, Idle, NoWalk
  <2>3. TypeOK'
    BY <1>2, <2>1, <2>2 DEF TypeOK, treevars, kernelvars, netvars
  <2>4. Idle' /\ Called' /\ Modes'
    BY <1>2, <2>1, <2>2 DEF TypeOK, Idle, Called, Modes, Watching, treevars, netvars
  <2>5. QED BY <2>3, <2>4 DEF IInv
<1>4. CASE Set(t)
  <2>1. /\ walk[t] # NULL /\ walk[t].cur \in Addr /\ walk[t].entry \in Entry
        /\ walk' \in [Thread -> Walk \cup {NULL}]
        /\ walk'[t] # NULL /\ walk'[t].entry = walk[t].entry /\ walk'[t].mode = walk[t].mode
        /\ \A u \in Thread : u # t => walk'[u] = walk[u]
    BY <1>2, <1>4, SetParts
  <2>2. /\ UNCHANGED <<treevars, kernelvars, netvars, phase, replay, list, lock, blind>>
        /\ phase # "down"
    BY <1>2, <1>4, <2>1 DEF Set, Idle, NoWalk
  <2>3. LeafOf(walk[t].entry, walk[t].cur) \in Leaf
    BY <2>1 DEF Leaf
  <2>4. pub' \subseteq Leaf /\ lost' \subseteq Leaf /\ raced' \subseteq Entry
    <3>1. pub \subseteq Leaf /\ lost \subseteq Leaf /\ raced \subseteq Entry
      BY <1>2 DEF TypeOK
    <3>2. /\ \/ pub' = pub \cup {LeafOf(walk[t].entry, walk[t].cur)}
             \/ pub' = pub \ {LeafOf(walk[t].entry, walk[t].cur)}
          /\ \/ lost' = lost \cup {LeafOf(walk[t].entry, walk[t].cur)}
             \/ lost' = lost \ {LeafOf(walk[t].entry, walk[t].cur)}
          /\ raced' = raced \/ raced' = raced \cup {walk[t].entry}
      BY <1>4 DEF Set
    <3>3. QED BY <2>1, <2>3, <3>1, <3>2
  <2>5. TypeOK'
    BY <1>2, <2>1, <2>2, <2>4 DEF TypeOK, treevars, kernelvars, netvars
  <2>6. Idle' /\ Called' /\ Modes'
    BY <1>2, <2>1, <2>2 DEF TypeOK, Idle, Called, Modes, Watching, treevars, netvars
  <2>7. QED BY <2>5, <2>6 DEF IInv
<1>5. CASE Done(t)
  <2>1. /\ walk[t] # NULL /\ walk' \in [Thread -> Walk \cup {NULL}] /\ walk'[t] = NULL
    BY <1>2, <1>5, DoneParts
  <2>2. /\ \A u \in Thread : u # t =>
              /\ walk'[u] = NULL <=> walk[u] = NULL
              /\ walk[u] # NULL => walk'[u].entry = walk[u].entry
              /\ lock # t \/ walk[u] = NULL \/ walk[u].entry # walk[t].entry => walk'[u] = walk[u]
              /\ lock = t /\ walk[u] # NULL /\ walk[u].entry = walk[t].entry => walk'[u].mode = "freed"
    BY <1>2, <1>5, DoneParts
  <2>3. /\ UNCHANGED <<treevars, kernelvars, netvars, phase, replay, list, pub, raced>>
        /\ phase # "down"
        /\ \/ lock = t /\ lock' = NULL /\ lost' = lost \cup (pub \cap {LeafOf(walk[t].entry, a) : a \in In(walk[t].entry) \ cache})
           \/ lock # t /\ lock' = lock /\ lost' = lost
    BY <1>2, <1>5, <2>1 DEF Done, Idle, NoWalk
  <2>4. lost' \subseteq Leaf /\ blind' \subseteq Entry \X Addr
    <3>1. \/ UNCHANGED blind
          \/ blind' = blind \cup ({walk[t].entry} \X (In(walk[t].entry) \cap cache))
      BY <1>2, <1>5, DoneParts
    <3>2. walk[t].entry \in Entry
      BY <1>2, <1>5, DoneParts
    <3>3. QED BY <1>2, <2>3, <3>1, <3>2 DEF TypeOK
  <2>5. lock' # NULL => walk'[lock'] # NULL /\ walk'[lock'].mode = "del"
    BY <1>2, <2>1, <2>2, <2>3 DEF TypeOK
  <2>6. TypeOK'
    BY <1>2, <2>1, <2>3, <2>4, <2>5 DEF TypeOK, treevars, kernelvars, netvars
  <2>7. Modes'
    <3>1. CASE lock = t
      BY <1>2, <2>1, <2>2, <2>3, <3>1 DEF TypeOK, Modes
    <3>2. CASE lock # t
      BY <1>2, <2>1, <2>2, <2>3, <3>2 DEF TypeOK, Modes
    <3>3. QED BY <3>1, <3>2
  <2>8. Idle' /\ Called'
    BY <1>2, <2>3 DEF Idle, Called, Watching, treevars, netvars
  <2>9. QED BY <2>6, <2>7, <2>8 DEF IInv
<1>6. QED BY <1>1, <1>3, <1>4, <1>5

LEMMA LifeInvariant ==
    ASSUME IInv, Start \/ Watch \/ Load \/ Loaded \/ Unwatch \/ Unregister \/ Crash PROVE IInv'
<1>1. TypeOK /\ Idle /\ Modes /\ Called
  BY DEF IInv
<1>2. CASE Start
  <2>1. TypeOK'
    <3>1. news' \in Seq(Addr \X BOOLEAN)
      BY <1>2 DEF Start
    <3>2. QED BY <1>1, <1>2, <3>1 DEF Start, TypeOK, treevars
  <2>2. Idle' /\ Modes' /\ Called'
    BY <1>1, <1>2 DEF Start, Idle, Modes, Called, Watching, treevars
  <2>3. QED BY <2>1, <2>2 DEF IInv
<1>3. CASE Watch \/ Load \/ Loaded
  <2>1. /\ UNCHANGED <<treevars, kernelvars, netvars, list, lock, walk, pub, lost, raced, blind>>
        /\ phase \in {"ready", "watching", "loading"} /\ phase' \in {"watching", "loading", "running"}
        /\ replay' = replay \/ replay' = {<<e, cfg[e]>> : e \in {x \in Entry : cfg[x] # NULL}}
    BY <1>3 DEF Watch, Load, Loaded
  <2>2. replay' \subseteq Entry \X Value
    BY <1>1, <2>1 DEF TypeOK
  <2>3. TypeOK'
    BY <1>1, <2>1, <2>2 DEF TypeOK, treevars, kernelvars, netvars
  <2>4. Idle' /\ Modes' /\ Called'
    BY <1>1, <2>1 DEF Idle, Modes, Called, Watching, treevars, netvars
  <2>5. QED BY <2>3, <2>4 DEF IInv
<1>4. CASE Unwatch
  <2>1. queue' \in Seq(Entry \X (Value \cup {NULL}))
    BY <1>4 DEF Unwatch
  <2>2. TypeOK'
    BY <1>1, <1>4, <2>1 DEF Unwatch, TypeOK, kernelvars, netvars
  <2>3. Idle' /\ Modes' /\ Called'
    BY <1>1, <1>4 DEF Unwatch, Idle, Modes, Called, Watching, netvars
  <2>4. QED BY <2>2, <2>3 DEF IInv
<1>5. CASE Gone
  <2>1. /\ queue' \in Seq(Entry \X (Value \cup {NULL})) /\ news' \in Seq(Addr \X BOOLEAN)
        /\ walk' \in [Thread -> Walk \cup {NULL}]
    BY <1>5 DEF Gone, NoWalk
  <2>2. TypeOK'
    BY <1>1, <1>5, <2>1 DEF Gone, TypeOK
  <2>3. Idle' /\ Modes' /\ Called'
    BY <1>5 DEF Gone, Idle, Modes, Called, NoWalk
  <2>4. QED BY <2>2, <2>3 DEF IInv
<1>6. QED BY <1>2, <1>3, <1>4, <1>5 DEF Unregister, Crash

LEMMA NetlinkInvariant == ASSUME IInv, NetlinkStep PROVE IInv'
<1>1. TypeOK /\ Idle /\ Modes /\ Called
  BY DEF IInv
<1>2. CASE Receive
  <2>1. PICK m : m = Head(news)
    OBVIOUS
  <2>2. /\ news \in Seq(Addr \X BOOLEAN) /\ news # <<>> /\ news' = Tail(news) /\ phase # "down"
        /\ UNCHANGED <<treevars, kernel, unread, phase, replay, list, lock, walk, pub, lost, raced,
                       blind>>
        /\ unread = {}
    BY <1>1, <1>2 DEF Receive, TypeOK, Alive
  <2>3. news' \in Seq(Addr \X BOOLEAN) /\ m[1] \in Addr
    <3>1. Tail(news) \in Seq(Addr \X BOOLEAN) /\ Head(news) \in Addr \X BOOLEAN
      BY <2>2, TailIndices
    <3>2. QED BY <2>1, <2>2, <3>1
  <2>4. \/ cache' = cache \cup {m[1]} /\ call' \in {<<"change", m[1]>>, <<"new", m[1]>>}
        \/ cache' = cache \ {m[1]} /\ call' = <<"del", m[1]>>
    BY <1>2, <2>1 DEF Receive
  <2>5. TypeOK'
    BY <1>1, <2>2, <2>3, <2>4 DEF TypeOK, Action, treevars
  <2>6. Idle' /\ Modes'
    BY <1>1, <2>2 DEF Idle, Modes, Watching, treevars
  <2>7. Called'
    BY <2>2, <2>4 DEF Called
  <2>8. QED BY <2>5, <2>6, <2>7 DEF IInv
<1>3. CASE Call
  <2>1. /\ call # NULL /\ call' = NULL /\ phase # "down"
        /\ UNCHANGED <<treevars, kernelvars, cache, unread, phase, replay, list, lock, walk, raced>>
        /\ blind' \subseteq blind
    BY <1>1, <1>3 DEF Call, Idle
  <2>2. Found(call[2]) \subseteq Leaf
    <3>1. call[2] \in Addr /\ list \subseteq Entry
      BY <1>1, <2>1 DEF TypeOK, Action
    <3>2. QED BY <3>1 DEF Found, Leaf
  <2>3. pub' \subseteq Leaf /\ lost' \subseteq Leaf
    <3>1. \/ pub' = pub \cup Found(call[2]) /\ lost' = lost \ Found(call[2])
          \/ pub' = pub \ Found(call[2]) /\ lost' = lost \ Found(call[2])
          \/ UNCHANGED <<pub, lost>>
      <4>1. call[1] = "new" \/ call[1] = "del" \/ call[1] = "change"
        BY <1>1, <2>1 DEF TypeOK, Action
      <4>2. QED BY <1>3, <4>1 DEF Call
    <3>2. QED BY <1>1, <2>2, <3>1 DEF TypeOK
  <2>4. TypeOK'
    BY <1>1, <2>1, <2>3 DEF TypeOK, treevars, kernelvars
  <2>5. Idle' /\ Modes' /\ Called'
    BY <1>1, <2>1 DEF Idle, Modes, Called, Watching, treevars
  <2>6. QED BY <2>4, <2>5 DEF IInv
<1>4. CASE ReadLink
  <2>1. /\ unread' \subseteq unread /\ call = NULL
        /\ UNCHANGED <<treevars, kernelvars, cache, call, phase, replay, list, lock, walk, pub,
                       lost, raced, blind>>
    BY <1>4 DEF ReadLink
  <2>2. TypeOK'
    BY <1>1, <2>1 DEF TypeOK, treevars, kernelvars
  <2>3. Idle' /\ Modes' /\ Called'
    BY <1>1, <2>1 DEF Idle, Modes, Called, Watching, treevars
  <2>4. QED BY <2>2, <2>3 DEF IInv
<1>5. QED BY <1>2, <1>3, <1>4 DEF NetlinkStep

LEMMA OthersInvariant == ASSUME IInv, Edit \/ KernelChange PROVE IInv'
<1>1. TypeOK /\ Idle /\ Modes /\ Called
  BY DEF IInv
<1>2. CASE Edit
  <2>1. PICK e \in Entry, v \in Value \cup {NULL} :
            /\ cfg' = [cfg EXCEPT ![e] = v]
            /\ IF Watching THEN queue' = Append(queue, <<e, v>>) ELSE UNCHANGED queue
    BY <1>2 DEF Edit
  <2>2. UNCHANGED <<kernelvars, netvars, phase, replay, list, lock, walk, pub, lost, raced, blind>>
    BY <1>2 DEF Edit
  <2>3. queue' \in Seq(Entry \X (Value \cup {NULL}))
    <3>1. <<e, v>> \in Entry \X (Value \cup {NULL}) /\ queue \in Seq(Entry \X (Value \cup {NULL}))
      BY <1>1 DEF TypeOK
    <3>2. Append(queue, <<e, v>>) \in Seq(Entry \X (Value \cup {NULL}))
      BY <3>1, AppendIndices, Zenon
    <3>3. QED BY <2>1, <3>1, <3>2
  <2>4. TypeOK'
    BY <1>1, <2>1, <2>2, <2>3 DEF TypeOK, kernelvars, netvars
  <2>5. Idle' /\ Modes' /\ Called'
    BY <1>1, <2>1, <2>2 DEF Idle, Modes, Called, Watching, netvars
  <2>6. QED BY <2>4, <2>5 DEF IInv
<1>3. CASE KernelChange
  <2>1. PICK a \in Addr, there \in BOOLEAN :
            /\ kernel' = kernel \cup {a} \/ kernel' = kernel \ {a}
            /\ news' = Append(news, <<a, there>>) \/ UNCHANGED news
    BY <1>3 DEF KernelChange
  <2>2. UNCHANGED <<treevars, netvars, phase, replay, list, lock, walk, pub, lost, raced, blind>>
    BY <1>3 DEF KernelChange
  <2>3. news' \in Seq(Addr \X BOOLEAN)
    <3>1. <<a, there>> \in Addr \X BOOLEAN /\ news \in Seq(Addr \X BOOLEAN)
      BY <1>1 DEF TypeOK
    <3>2. Append(news, <<a, there>>) \in Seq(Addr \X BOOLEAN)
      BY <3>1, AppendIndices, Zenon
    <3>3. QED BY <2>1, <3>1, <3>2
  <2>4. TypeOK'
    BY <1>1, <2>1, <2>2, <2>3 DEF TypeOK, treevars, netvars
  <2>5. Idle' /\ Modes' /\ Called'
    BY <1>1, <2>2 DEF Idle, Modes, Called, Watching, treevars, netvars
  <2>6. QED BY <2>4, <2>5 DEF IInv
<1>4. QED BY <1>2, <1>3

LEMMA InvariantNext == IInv /\ [Next]_vars => IInv'
<1> SUFFICES ASSUME IInv, [Next]_vars PROVE IInv'
  OBVIOUS
<1>1. CASE UNCHANGED vars
  BY <1>1
  DEF IInv, TypeOK, Idle, Modes, Called, Watching, vars, treevars, kernelvars, netvars
<1>2. QED
  BY <1>1, LifeInvariant, ReplayInvariant, WalkInvariant, DeliverInvariant, NetlinkInvariant,
     OthersInvariant
  DEF Next, MainStep

LEMMA InvariantAlways == Spec => []IInv
BY InitInvariant, InvariantNext, PTL DEF Spec

\* The types are right, and only a thread that clears the addresses of an entry it has
\* taken off the list holds the lock from one step to the next.
THEOREM TypeCorrect == Spec => []TypeOK
<1>1. IInv => TypeOK
  BY DEF IInv
<1>2. QED BY <1>1, InvariantAlways, PTL

LEMMA HandInit == Init => InHand
BY DEF Init, InHand, NoWalk

\* A step that hands an entry to a thread keeps the other visits where they are.
LEMMA HandleVisits ==
    ASSUME TypeOK, NEW t \in Thread, walk[t] = NULL, NEW e \in Entry, NEW v, Handle(t, e, v), InHand,
           UNCHANGED unread
    PROVE  InHand'
<1>1. CASE Enlist(t, e)
  <2>1. /\ walk'[t].seen = {} /\ walk'[t].cur = NULL
        /\ \A u \in Thread : u # t => walk'[u] = walk[u]
    BY <1>1, EnlistParts
  <2>2. QED BY <2>1 DEF InHand, Known
<1>2. CASE Delist(t, e)
  <2>1. /\ walk'[t].seen = {} /\ walk'[t].cur = NULL
        /\ \A u \in Thread : u # t =>
              /\ walk'[u] = NULL <=> walk[u] = NULL
              /\ walk[u] # NULL => /\ walk'[u].entry = walk[u].entry /\ walk'[u].seen = walk[u].seen
                                   /\ walk'[u].cur = walk[u].cur
    BY <1>2, DelistParts
  <2>2. QED BY <2>1 DEF InHand, Known
<1>3. CASE UNCHANGED walk
  BY <1>3 DEF InHand, Known
<1>4. QED BY <1>1, <1>2, <1>3 DEF Handle

LEMMA HandNext == IInv /\ InHand /\ [Next]_vars => InHand'
<1> SUFFICES ASSUME IInv, InHand, [Next]_vars PROVE InHand'
  OBVIOUS
<1>1. TypeOK /\ (phase = "down" => walk = NoWalk)
  BY DEF IInv, Idle
<1>2. CASE (UNCHANGED walk /\ unread' \subseteq unread) \/ walk' = NoWalk
  BY <1>2 DEF InHand, NoWalk, Known
<1>3. CASE Deliver
  <2>1. queue \in Seq(Entry \X (Value \cup {NULL})) /\ queue # <<>> /\ walk["apteryx"] = NULL
        /\ "apteryx" \in Thread /\ UNCHANGED unread
    BY <1>1, <1>3 DEF Deliver, TypeOK, Thread, netvars
  <2>2. PICK m \in {Head(queue)} : Handle("apteryx", m[1], m[2])
    BY <1>3 DEF Deliver
  <2>3. m[1] \in Entry
    BY <2>1, <2>2, EventParts
  <2>4. QED BY <1>1, <2>1, <2>2, <2>3, HandleVisits
<1>4. CASE Replay
  <2>1. PICK x \in replay : Handle("main", x[1], x[2])
    BY <1>4 DEF Replay
  <2>2. x[1] \in Entry /\ "main" \in Thread /\ walk["main"] = NULL
        /\ UNCHANGED unread
    BY <1>1, <1>4, <2>1 DEF TypeOK, Thread, Replay, netvars
  <2>3. QED BY <1>1, <2>1, <2>2, HandleVisits
<1>5. ASSUME NEW t \in Thread, Fetch(t) PROVE InHand'
  <2>1. PICK a \in cache :
            /\ walk[t] # NULL /\ a \in In(walk[t].entry) /\ Known(walk[t].entry)
            /\ walk'[t].entry = walk[t].entry
            /\ walk'[t].cur = a /\ walk'[t].seen = walk[t].seen \cup {a}
            /\ \A u \in Thread : u # t => walk'[u] = walk[u]
    BY <1>1, <1>5, FetchParts
  <2>2. UNCHANGED unread
    BY <1>5 DEF Fetch, netvars
  <2>3. QED BY <2>1, <2>2 DEF InHand, Known
<1>6. ASSUME NEW t \in Thread, Set(t) PROVE InHand'
  <2>1. /\ walk[t] # NULL /\ walk'[t].entry = walk[t].entry
        /\ walk'[t].cur = NULL /\ walk'[t].seen = walk[t].seen
        /\ UNCHANGED unread /\ \A u \in Thread : u # t => walk'[u] = walk[u]
    BY <1>1, <1>6, SetParts DEF Set, netvars
  <2>2. QED BY <2>1 DEF InHand, Known
<1>7. ASSUME NEW t \in Thread, Done(t) PROVE InHand'
  <2>1. /\ walk'[t] = NULL
        /\ \A u \in Thread : u # t =>
              /\ walk'[u] = NULL <=> walk[u] = NULL
              /\ walk[u] # NULL => /\ walk'[u].entry = walk[u].entry /\ walk'[u].seen = walk[u].seen
                                   /\ walk'[u].cur = walk[u].cur
    BY <1>1, <1>7, DoneParts
  <2>2. UNCHANGED unread
    BY <1>7 DEF Done, netvars
  <2>3. QED BY <2>1, <2>2 DEF InHand, Known
<1>8. QED
  BY <1>1, <1>2, <1>3, <1>4, <1>5, <1>6, <1>7
  DEF Next, MainStep, WalkStep, NetlinkStep, Start, Watch, Load, Loaded, Unwatch, Unregister, Crash,
      Gone, ReadLink, Receive, Call, Edit, KernelChange, netvars, vars

LEMMA HandAlways == Spec => [](IInv /\ InHand)
<1>1. Init => IInv /\ InHand
  BY InitInvariant, HandInit
<1>2. IInv /\ InHand /\ [Next]_vars => (IInv /\ InHand)'
  BY InvariantNext, HandNext
<1>3. QED BY <1>1, <1>2, PTL DEF Spec

\* Who publishes or clears the only leaf of an entry and an address has both in hand.
LEMMA SoleLeaf ==
    ASSUME IInv, InHand, NEW e \in Entry, NEW a \in In(e), Sole(e, a),
           NEW t \in Thread, walk[t] # NULL, walk[t].cur # NULL,
           LeafOf(walk[t].entry, walk[t].cur) = LeafOf(e, a)
    PROVE  walk[t].entry = e /\ walk[t].cur = a
<1>1. walk[t].entry \in Entry /\ walk[t].cur \in In(walk[t].entry)
  <2>1. walk[t] \in Walk
    BY DEF IInv, TypeOK
  <2>2. QED BY <2>1, WalkParts DEF InHand
<1>2. walk[t].cur = a
  BY <1>1 DEF Sole
<1>3. EntityOf[walk[t].entry] = EntityOf[e]
  BY DEF LeafOf
<1>4. ScopeOf[walk[t].entry] = ScopeOf[e]
  BY <1>1, <1>2 DEF In
<1>5. QED BY <1>1, <1>2, <1>3, <1>4, EntryAssumption

\* No step clears the leaf of a listed entry and a cached address, unless the entry's
\* object was released under the thread that takes it.
THEOREM AlwaysKeepsListed == Spec => KeepsListed
<1>1. ASSUME IInv, InHand, [Next]_vars
      PROVE  [\A e \in list : \A a \in In(e) \cap cache :
                  LeafOf(e, a) \in pub /\ Sole(e, a) =>
                      LeafOf(e, a) \in pub' \/ e \in raced']_vars
  <2> SUFFICES ASSUME NEW e \in list, NEW a \in In(e) \cap cache, LeafOf(e, a) \in pub, Sole(e, a)
               PROVE  LeafOf(e, a) \in pub' \/ e \in raced'
    OBVIOUS
  <2>1. /\ TypeOK /\ Modes /\ Called /\ e \in Entry /\ a \in Addr /\ a \in In(e) /\ a \in cache
    BY <1>1 DEF IInv, TypeOK
  <2>2. CASE Call
    <3>1. LeafOf(e, a) \in Found(call[2]) => call[2] = a
      BY <2>1 DEF Found, Sole, TypeOK
    <3>2. call # NULL /\ (call[1] = "new" \/ call[1] = "del" \/ call[1] = "change")
      BY <2>1, <2>2 DEF TypeOK, Call, Action
    <3>3. CASE call[1] = "del"
      BY <2>1, <2>2, <3>1, <3>2, <3>3 DEF Call, Called
    <3>4. CASE call[1] = "new" \/ call[1] = "change"
      BY <2>2, <3>4 DEF Call
    <3>5. QED BY <3>2, <3>3, <3>4
  <2>3. ASSUME NEW t \in Thread, Set(t) PROVE LeafOf(e, a) \in pub' \/ e \in raced'
    <3>1. walk[t] # NULL /\ walk[t].cur \in Addr /\ walk[t].entry \in Entry
      BY <2>1, <2>3, SetParts
    <3>2. CASE LeafOf(walk[t].entry, walk[t].cur) # LeafOf(e, a)
      BY <2>3, <3>2 DEF Set
    <3>3. CASE LeafOf(walk[t].entry, walk[t].cur) = LeafOf(e, a)
      <4>1. walk[t].entry = e
        BY <1>1, <2>1, <3>1, <3>3, NullAssumption, SoleLeaf
      <4>2. walk[t].mode # "del"
        BY <2>1, <3>1, <4>1 DEF Modes
      <4>3. \/ pub' = pub \cup {LeafOf(e, a)}
            \/ raced' = raced \cup {e}
        BY <2>3, <3>3, <4>1, <4>2 DEF Set
      <4>4. QED BY <4>3
    <3>4. QED BY <3>2, <3>3
  <2>4. CASE UNCHANGED pub
    BY <2>4
  <2>5. QED
    <3>1. UNCHANGED pub \/ Call \/ \E t \in Thread : Set(t)
      BY <1>1 DEF Next, MainStep, WalkStep, NetlinkStep, Start, Watch, Load, Replay, Loaded, Unwatch,
                  Unregister, Crash, Gone, Fetch, Done, Deliver, ReadLink, Receive, Edit, KernelChange,
                  vars
    <3>2. QED BY <2>2, <2>3, <2>4, <3>1
<1>2. QED BY <1>1, HandAlways, PTL DEF Spec, KeepsListed

------------------------------------------------------------------------------
(* What the queues say.                                                    *)

LEMMA NotifiedNext == TypeOK /\ Notified /\ [Next]_vars => Notified'
<1> SUFFICES ASSUME TypeOK, Notified, [Next]_vars PROVE Notified'
  OBVIOUS
<1>1. CASE Start
  BY <1>1, EmptyQueue DEF Start, Notified
<1>2. CASE phase' = "down"
  BY <1>2 DEF Notified, Alive
<1>3. CASE Receive
  <2>1. /\ Alive /\ news \in Seq(Addr \X BOOLEAN) /\ news # <<>> /\ news' = Tail(news) /\ UNCHANGED kernel
    BY <1>3 DEF Receive, TypeOK
  <2>2. PICK m : m = Head(news)
    OBVIOUS
  <2>3. m[2] \in BOOLEAN /\ cache' = IF m[2] THEN cache \cup {m[1]} ELSE cache \ {m[1]}
    <3>1. Head(news) \in Addr \X BOOLEAN
      BY <2>1, TailIndices
    <3>2. QED BY <1>3, <2>2, <3>1 DEF Receive
  <2>4. ASSUME NEW a \in Addr, a \in kernel
        PROVE  Says(news', a, TRUE) /\ (a \notin cache' => Of(news', a))
    <3>1. Says(news, a, TRUE) /\ (a \notin cache => Of(news, a))
      BY <2>1, <2>4 DEF Notified
    <3>2. Says(news', a, TRUE) /\ (m[1] = a => m[2] = TRUE \/ Of(news', a))
      BY <2>1, <2>2, <3>1, TailSays
    <3>3. Of(news, a) <=> Of(news', a) \/ a = m[1]
      BY <2>1, <2>2, TailOf
    <3>4. QED BY <2>3, <3>1, <3>2, <3>3
  <2>5. ASSUME NEW a \in Addr, a \notin kernel
        PROVE  Says(news', a, FALSE) /\ (a \in cache' => Of(news', a))
    <3>1. Says(news, a, FALSE) /\ (a \in cache => Of(news, a))
      BY <2>1, <2>5 DEF Notified
    <3>2. Says(news', a, FALSE) /\ (m[1] = a => m[2] = FALSE \/ Of(news', a))
      BY <2>1, <2>2, <3>1, TailSays
    <3>3. Of(news, a) <=> Of(news', a) \/ a = m[1]
      BY <2>1, <2>2, TailOf
    <3>4. QED BY <2>3, <3>1, <3>2, <3>3
  <2>6. QED BY <2>1, <2>4, <2>5 DEF Notified
<1>4. CASE KernelChange /\ Alive
  <2>1. PICK b \in Addr, there \in BOOLEAN :
            /\ kernel' = IF there THEN kernel \cup {b} ELSE kernel \ {b}
            /\ news' = Append(news, <<b, there>>)
    BY <1>4 DEF KernelChange
  <2>2. UNCHANGED cache /\ news \in Seq(Addr \X BOOLEAN) /\ <<b, there>> \in Addr \X BOOLEAN
        /\ <<b, there>>[1] = b /\ <<b, there>>[2] = there
    BY <1>4 DEF KernelChange, TypeOK, netvars
  <2>3. Says(news', b, there) /\ \A k, v : k # b /\ Says(news, k, v) => Says(news', k, v)
    BY <2>1, <2>2, AppendSays, Zenon
  <2>4. \A k : Of(news', k) <=> Of(news, k) \/ k = b
    BY <2>1, <2>2, AppendOf, Zenon
  <2>5. ASSUME there = TRUE PROVE Says(news', b, TRUE) /\ b \in kernel'
    BY <2>1, <2>3, <2>5, Zenon
  <2>6. ASSUME there = FALSE PROVE Says(news', b, FALSE) /\ b \notin kernel'
    BY <2>1, <2>3, <2>6, Zenon
  <2>7. \A a \in Addr : a # b => (a \in kernel' <=> a \in kernel)
    BY <2>1
  <2>8. QED BY <1>4, <2>2, <2>3, <2>4, <2>5, <2>6, <2>7 DEF Notified
<1>5. CASE ~Alive /\ phase' = phase
  BY <1>5 DEF Notified, Alive
<1>6. CASE UNCHANGED <<kernel, news, cache>> /\ (Alive' => Alive)
  BY <1>6 DEF Notified
<1>7. QED
  BY <1>1, <1>2, <1>3, <1>4, <1>5, <1>6
  DEF Next, MainStep, WalkStep, NetlinkStep, Watch, Load, Replay, Loaded, Unwatch, Unregister, Crash,
      Gone, Fetch, Set, Done, Deliver, ReadLink, Call, Edit, KernelChange, Alive, kernelvars, netvars, vars

LEMMA CorrectedNext == TypeOK /\ Idle /\ Corrected /\ [Next]_vars => Corrected'
<1> SUFFICES ASSUME TypeOK, Idle, Corrected, [Next]_vars PROVE Corrected'
  OBVIOUS
<1>1. queue \in Seq(Entry \X (Value \cup {NULL}))
  BY DEF TypeOK
<1>2. CASE queue' = <<>>
  BY <1>2, EmptyQueue DEF Corrected
<1>3. CASE Deliver
  <2>1. queue # <<>> /\ queue' = Tail(queue) /\ UNCHANGED cfg
    BY <1>3 DEF Deliver
  <2>2. QED BY <1>1, <2>1, TailSays DEF Corrected
<1>4. CASE Edit
  <2>1. PICK e \in Entry, v \in Value \cup {NULL} :
            /\ cfg' = [cfg EXCEPT ![e] = v]
            /\ IF Watching THEN queue' = Append(queue, <<e, v>>) ELSE UNCHANGED queue
    BY <1>4 DEF Edit
  <2>2. CASE Watching
    <3>1. <<e, v>> \in Entry \X (Value \cup {NULL}) /\ <<e, v>>[1] = e /\ <<e, v>>[2] = v
      OBVIOUS
    <3>2. Says(queue', e, v) /\ \A k, x : k # e /\ Says(queue, k, x) => Says(queue', k, x)
      BY <1>1, <2>1, <2>2, <3>1, AppendSays, Zenon
    <3>3. cfg'[e] = v /\ \A f \in Entry : f # e => cfg'[f] = cfg[f]
      BY <2>1 DEF TypeOK
    <3>4. QED BY <3>2, <3>3 DEF Corrected
  <2>3. CASE ~Watching
    BY <1>2, <2>1, <2>3 DEF Idle
  <2>4. QED BY <2>2, <2>3
<1>5. CASE UNCHANGED <<cfg, queue>>
  BY <1>5 DEF Corrected
<1>6. QED
  BY <1>2, <1>3, <1>4, <1>5
  DEF Next, MainStep, WalkStep, NetlinkStep, Start, Watch, Load, Replay, Loaded, Unwatch, Unregister,
      Crash, Gone, Fetch, Set, Done, ReadLink, Receive, Call, KernelChange, treevars, vars

------------------------------------------------------------------------------
(* What is listed.                                                         *)

\* The list and the entries raced agree with the configuration once one more entry has
\* been handled, with a value that is right or is corrected later.
LEMMA HandleListed ==
    ASSUME TypeOK, NEW t \in Thread, walk[t] = NULL, NEW e \in Entry, NEW v, Handle(t, e, v),
           v = cfg[e] \/ Pending(e)', UNCHANGED cfg,
           \A f \in Entry : f # e => (Pending(f)' <=> Pending(f)),
           \A f \in list : cfg[f] # NULL \/ Pending(f) \/ f \in raced
    PROVE  /\ \A f \in list' : cfg'[f] # NULL \/ Pending(f)' \/ f \in raced'
           /\ \A f \in list : f # e => f \in list'
           /\ v = "same" => e \in list'
<1>1. CASE v = "same" /\ Enlist(t, e)
  <2>1. /\ list' = list \cup {e}
        /\ \A f \in Entry : f # e => (f \in raced' <=> f \in raced)
        /\ e \notin raced' => cfg[e] # NULL \/ Pending(e)'
    BY <1>1, EnlistParts
  <2>2. QED BY <1>1, <2>1 DEF TypeOK
<1>2. CASE v = NULL /\ Delist(t, e)
  <2>1. list' = list \ {e} /\ raced' = raced \ {e}
    BY <1>2, DelistParts
  <2>2. v # "same"
    BY <1>2, NullAssumption
  <2>3. QED BY <1>2, <2>1, <2>2 DEF TypeOK
<1>3. CASE /\ v = "other" \/ (v = NULL /\ lock = NULL /\ e \notin list)
           /\ UNCHANGED <<list, lock, walk, raced, blind>>
  <2>1. v # "same" /\ "other" # NULL
    BY <1>3, NullAssumption
  <2>2. e \in list => cfg[e] # NULL \/ Pending(e)' \/ e \in raced
    <3>1. CASE v = NULL
      BY <1>3, <2>1, <3>1
    <3>2. CASE v # NULL
      BY <1>3, <3>2
    <3>3. QED BY <3>1, <3>2
  <2>3. QED BY <1>3, <2>1, <2>2 DEF TypeOK
<1>4. QED BY <1>1, <1>2, <1>3 DEF Handle

LEMMA EnlistedNext == IInv /\ Corrected /\ Enlisted /\ [Next]_vars => Enlisted'
<1> SUFFICES ASSUME IInv, Corrected, Enlisted, [Next]_vars PROVE Enlisted'
  OBVIOUS
<1>1. TypeOK /\ Idle
  BY DEF IInv
<1>2. queue \in Seq(Entry \X (Value \cup {NULL})) /\ \A f : Pending(f) <=> Of(queue, f)
  BY <1>1 DEF TypeOK, Pending, Of
<1>3. CASE Start \/ Watch
  BY <1>1, <1>3 DEF Start, Watch, Idle, Enlisted, Watching
<1>4. CASE Load
  <2>1. /\ phase = "watching" /\ phase' = "loading"
        /\ replay' = {<<e, cfg[e]>> : e \in {x \in Entry : cfg[x] # NULL}}
        /\ UNCHANGED <<cfg, queue, list, raced>>
    BY <1>4 DEF Load, treevars
  <2>2. \A e \in Entry : cfg[e] = "same" => <<e, "same">> \in replay'
    <3>1. "same" # NULL
      BY NullAssumption
    <3>2. QED BY <2>1, <3>1
  <2>3. QED BY <2>1, <2>2 DEF Enlisted, Watching, Pending
<1>5. CASE Loaded
  BY <1>5 DEF Loaded, Enlisted, Watching, Pending, treevars
<1>6. CASE phase' \in {"exiting", "down"}
  BY <1>6 DEF Enlisted, Watching
<1>7. CASE Deliver
  <2>1. /\ Watching /\ walk["apteryx"] = NULL /\ queue # <<>> /\ queue' = Tail(queue)
        /\ "apteryx" \in Thread /\ UNCHANGED <<cfg, phase, replay>>
    BY <1>7 DEF Deliver, Thread
  <2>2. PICK m : m = Head(queue)
    OBVIOUS
  <2>3. Handle("apteryx", m[1], m[2]) /\ m[1] \in Entry
    <3>1. Head(queue)[1] \in Entry
      BY <1>2, <2>1, EventParts
    <3>2. QED BY <1>7, <2>2, <3>1 DEF Deliver
  <2>4. \A f : Pending(f)' <=> Of(queue', f)
    BY DEF Pending, Of
  <2>5. \A f : Of(queue, f) <=> Of(queue', f) \/ f = m[1]
    BY <1>2, <2>1, <2>2, TailOf
  <2>6. m[2] = cfg[m[1]] \/ Pending(m[1])'
    <3>1. Says(queue, m[1], cfg[m[1]])
      BY <2>3 DEF Corrected
    <3>2. QED BY <1>2, <2>1, <2>2, <2>4, <3>1, TailSays
  <2>7. \A f \in Entry : f # m[1] => (Pending(f)' <=> Pending(f))
    BY <1>2, <2>4, <2>5
  <2>8. \A f \in list : cfg[f] # NULL \/ Pending(f) \/ f \in raced
    BY <2>1 DEF Enlisted
  <2>9. /\ \A f \in list' : cfg'[f] # NULL \/ Pending(f)' \/ f \in raced'
        /\ \A f \in list : f # m[1] => f \in list'
        /\ m[2] = "same" => m[1] \in list'
    BY <1>1, <2>1, <2>3, <2>6, <2>7, <2>8, HandleListed
  <2>10. QED BY <2>1, <2>6, <2>7, <2>9 DEF Enlisted, Watching
<1>8. CASE Replay
  <2>1. PICK x \in replay : replay' = replay \ {x} /\ Handle("main", x[1], x[2])
    BY <1>8 DEF Replay
  <2>2. /\ phase = "loading" /\ walk["main"] = NULL /\ "main" \in Thread
        /\ UNCHANGED <<cfg, phase, queue>>
        /\ x[1] \in Entry /\ x[2] \in Value /\ x = <<x[1], x[2]>>
    BY <1>1, <1>8, <2>1 DEF Replay, TypeOK, Thread
  <2>3. \A f : Pending(f)' <=> Pending(f)
    BY <2>2 DEF Pending
  <2>4. CASE x[2] = "same"
    <3>1. /\ list' = list \cup {x[1]}
          /\ \A f \in Entry : f # x[1] => (f \in raced' <=> f \in raced)
          /\ x[1] \notin raced' => cfg[x[1]] # NULL \/ Pending(x[1])'
      <4>1. Enlist("main", x[1])
        <5>1. "same" # NULL
          BY NullAssumption
        <5>2. QED BY <2>1, <2>4, <5>1 DEF Handle
      <4>2. QED BY <1>1, <2>2, <4>1, EnlistParts
    <3>2. QED BY <1>1, <2>1, <2>2, <2>3, <2>4, <3>1 DEF Enlisted, Watching, TypeOK
  <2>5. CASE x[2] # "same"
    <3>1. UNCHANGED <<list, raced>>
      BY <2>1, <2>2, <2>5, NullAssumption DEF Handle, Value
    <3>2. <<x[1], "same">> # x /\ \A e \in Entry : <<e, "same">> # x
      BY <2>2, <2>5
    <3>3. QED BY <2>1, <2>2, <2>3, <3>1, <3>2 DEF Enlisted, Watching
  <2>6. QED BY <2>4, <2>5
<1>9. CASE Edit
  <2>1. PICK e \in Entry, v \in Value \cup {NULL} :
            /\ cfg' = [cfg EXCEPT ![e] = v]
            /\ IF Watching THEN queue' = Append(queue, <<e, v>>) ELSE UNCHANGED queue
    BY <1>9 DEF Edit
  <2>2. UNCHANGED <<phase, replay, list, raced>> /\ \A f \in Entry : f # e => cfg'[f] = cfg[f]
    BY <1>1, <1>9, <2>1 DEF Edit, TypeOK
  <2>3. CASE Watching
    <3>1. <<e, v>> \in Entry \X (Value \cup {NULL}) /\ <<e, v>>[1] = e
      OBVIOUS
    <3>2. \A f : Of(queue', f) <=> Of(queue, f) \/ f = e
      <4>1. queue' = Append(queue, <<e, v>>)
        BY <2>1, <2>3
      <4>2. \A f : Of(Append(queue, <<e, v>>), f) <=> Of(queue, f) \/ f = <<e, v>>[1]
        <5>1. queue \in Seq(Entry \X (Value \cup {NULL}))
          BY <1>2
        <5>2. QED BY <3>1, <5>1, AppendOf
      <4>3. QED BY <3>1, <4>1, <4>2
    <3>3. \A f : Pending(f)' <=> Pending(f) \/ f = e
      BY <1>2, <3>2 DEF Pending, Of
    <3>4. QED BY <1>1, <2>2, <2>3, <3>3 DEF Enlisted, Watching, TypeOK
  <2>4. CASE ~Watching
    BY <2>2, <2>4 DEF Enlisted, Watching
  <2>5. QED BY <2>3, <2>4
<1>10. ASSUME NEW t \in Thread, Set(t) PROVE Enlisted'
  <2>1. UNCHANGED <<cfg, queue, phase, replay, list>> /\ raced \subseteq raced'
    BY <1>10 DEF Set, treevars
  <2>2. QED BY <2>1 DEF Enlisted, Watching, Pending
<1>11. CASE UNCHANGED <<cfg, queue, phase, replay, list, raced>>
  BY <1>11 DEF Enlisted, Watching, Pending
<1>12. QED
  BY <1>3, <1>4, <1>5, <1>6, <1>7, <1>8, <1>9, <1>10, <1>11
  DEF Next, MainStep, WalkStep, NetlinkStep, Unwatch, Unregister, Crash, Gone, Fetch, Done,
      ReadLink, Receive, Call, KernelChange, treevars, vars

------------------------------------------------------------------------------
(* What is published.                                                      *)

\* What a step does to visits and leaves, and to what they depend on.
LEMMA Steps ==
    ASSUME IInv, [Next]_vars
    PROVE  \/ \E t \in Thread, e \in Entry : \E v :
                  /\ walk[t] = NULL /\ Handle(t, e, v)
                  /\ UNCHANGED <<cache, unread, call, phase, pub, lost>>
           \/ \E t \in Thread : Fetch(t) \/ Set(t) \/ Done(t)
           \/ Start \/ Gone \/ Receive \/ Call
           \/ /\ UNCHANGED <<cache, call, list, lock, walk, pub, lost, raced, blind>>
              /\ unread' \subseteq unread
<1>1. CASE Deliver
  <2>1. queue \in Seq(Entry \X (Value \cup {NULL})) /\ queue # <<>> /\ walk["apteryx"] = NULL
        /\ "apteryx" \in Thread /\ UNCHANGED <<cache, unread, call, phase, pub, lost>>
    BY <1>1 DEF IInv, Deliver, TypeOK, Thread, netvars
  <2>2. PICK m \in {Head(queue)} : Handle("apteryx", m[1], m[2])
    BY <1>1 DEF Deliver
  <2>3. m[1] \in Entry
    BY <2>1, <2>2, EventParts
  <2>4. QED BY <2>1, <2>2, <2>3
<1>2. CASE Replay
  <2>1. PICK x \in replay : Handle("main", x[1], x[2])
    BY <1>2 DEF Replay
  <2>2. x[1] \in Entry /\ "main" \in Thread /\ walk["main"] = NULL
        /\ UNCHANGED <<cache, unread, call, phase, pub, lost>>
    BY <1>2, <2>1 DEF IInv, TypeOK, Thread, Replay, netvars
  <2>3. QED BY <2>1, <2>2
<1>3. CASE UNCHANGED vars
  BY <1>3 DEF vars, netvars
<1>4. CASE Watch \/ Load \/ Loaded \/ Unwatch
  BY <1>4 DEF Watch, Load, Loaded, Unwatch, netvars
<1>5. CASE Edit \/ KernelChange
  BY <1>5 DEF Edit, KernelChange, netvars
<1>6. CASE ReadLink
  BY <1>6 DEF ReadLink
<1>7. QED
  BY <1>1, <1>2, <1>3, <1>4, <1>5, <1>6 DEF Next, MainStep, WalkStep, NetlinkStep, Unregister, Crash

\* What Call does: it goes by the action of the callback.
LEMMA CallParts ==
    ASSUME IInv, Call
    PROVE  /\ lock = NULL /\ call[2] \in Addr /\ call' = NULL
           /\ UNCHANGED <<cache, unread, list, lock, walk, raced>>
           /\ blind' = blind \/ (call[1] = "new" /\ blind' = blind \ (list \X {call[2]}))
           /\ \/ /\ call[1] = "new" /\ call[2] \in cache
                 /\ pub' = pub \cup Found(call[2]) /\ lost' = lost \ Found(call[2])
              \/ /\ call[1] = "del" /\ call[2] \notin cache
                 /\ pub' = pub \ Found(call[2]) /\ lost' = lost \ Found(call[2])
              \/ call[1] = "change" /\ UNCHANGED <<pub, lost>>
<1>1. /\ call # NULL /\ lock = NULL /\ call' = NULL /\ UNCHANGED <<cache, unread, list, lock, walk, raced>>
      /\ blind' = IF call[1] = "new" THEN blind \ (list \X {call[2]}) ELSE blind
      /\ call[2] \in Addr /\ call[1] \in {"new", "del", "change"}
  BY DEF IInv, TypeOK, Call, Action
<1>2. QED BY <1>1 DEF Call, IInv, Called

LEMMA ReceiveParts ==
    ASSUME IInv, Receive
    PROVE  /\ call = NULL /\ UNCHANGED <<unread, list, lock, walk, pub, lost, raced, blind>>
           /\ \E b \in Addr :
                  \/ cache' = cache \cup {b} /\ (b \notin cache => call' = <<"new", b>>)
                  \/ cache' = cache \ {b} /\ call' = <<"del", b>>
<1>1. /\ call = NULL /\ UNCHANGED <<unread, list, lock, walk, pub, lost, raced, blind>>
      /\ news # <<>>
  BY DEF Receive
<1>2. PICK m : m = Head(news)
  OBVIOUS
<1>3. m[1] \in Addr
  <2>1. news \in Seq(Addr \X BOOLEAN)
    BY DEF IInv, TypeOK
  <2>2. Head(news) \in Addr \X BOOLEAN
    BY <1>1, <2>1, TailIndices
  <2>3. QED BY <1>2, <2>2
<1>4. \/ cache' = cache \cup {m[1]} /\ (m[1] \notin cache => call' = <<"new", m[1]>>)
      \/ cache' = cache \ {m[1]} /\ call' = <<"del", m[1]>>
  BY <1>2 DEF Receive
<1>5. QED BY <1>1, <1>3, <1>4

\* The leaf that a visit sets or clears, and what becomes of the others.
LEMMA SetLeaf ==
    ASSUME IInv, InHand, NEW t \in Thread, Set(t)
    PROVE  /\ walk[t] # NULL /\ walk[t].cur # NULL
           /\ walk[t].entry \in Entry /\ walk[t].cur \in In(walk[t].entry)
           /\ UNCHANGED <<cache, unread, call, list, lock, blind>> /\ Known(walk[t].entry)
           /\ \/ /\ walk[t].mode \in {"add", "freed"}
                 /\ pub' = pub \cup {LeafOf(walk[t].entry, walk[t].cur)}
              \/ /\ walk[t].mode \in {"del", "freed"}
                 /\ pub' = pub \ {LeafOf(walk[t].entry, walk[t].cur)}
           /\ \A leaf \in pub' \ lost' :
                 \/ leaf \in pub \ lost /\ leaf # LeafOf(walk[t].entry, walk[t].cur)
                 \/ /\ leaf = LeafOf(walk[t].entry, walk[t].cur)
                    /\ walk[t].mode = "add" /\ walk[t].cur \in cache
           /\ raced \subseteq raced' /\ (walk[t].mode = "freed" => walk[t].entry \in raced')
<1>1. walk[t] # NULL /\ walk[t].cur \in Addr /\ walk[t].entry \in Entry /\ walk[t].cur # NULL
  BY SetParts, NullAssumption DEF IInv
<1>2. walk[t].cur \in In(walk[t].entry) /\ Known(walk[t].entry)
  BY <1>1 DEF InHand
<1>3. /\ UNCHANGED <<cache, unread, call, list, lock, blind>>
      /\ raced \subseteq raced' /\ (walk[t].mode = "freed" => walk[t].entry \in raced')
  BY DEF Set, netvars
<1>4. \/ /\ walk[t].mode \in {"add", "freed"}
         /\ pub' = pub \cup {LeafOf(walk[t].entry, walk[t].cur)}
         /\ lost' = IF walk[t].cur \in cache /\ walk[t].mode = "add"
                        THEN lost \ {LeafOf(walk[t].entry, walk[t].cur)}
                        ELSE lost \cup {LeafOf(walk[t].entry, walk[t].cur)}
      \/ /\ walk[t].mode \in {"del", "freed"}
         /\ pub' = pub \ {LeafOf(walk[t].entry, walk[t].cur)}
         /\ lost' = lost \ {LeafOf(walk[t].entry, walk[t].cur)}
  BY DEF Set
<1>5. QED BY <1>1, <1>2, <1>3, <1>4

LEMMA ComingNext == IInv /\ InHand /\ Coming /\ [Next]_vars => Coming'
<1> SUFFICES ASSUME IInv, InHand, Coming, [Next]_vars,
                    NEW e \in list', e \notin raced', NEW a \in In(e), a \in cache', Sole(e, a)
             PROVE  \/ LeafOf(e, a) \in pub' \/ ToShow(e, a)' \/ call' = <<"new", a>>
                    \/ <<e, a>> \in blind'
  BY DEF Coming
<1>1. /\ TypeOK /\ Idle /\ Modes /\ Called /\ a \in Addr /\ a # NULL
  BY NullAssumption DEF IInv, In
<1>2. e \in list /\ e \notin raced /\ a \in cache =>
          LeafOf(e, a) \in pub \/ ToShow(e, a) \/ call = <<"new", a>> \/ <<e, a>> \in blind
  BY DEF Coming
<1>3. ASSUME NEW t \in Thread, NEW f \in Entry, NEW v, walk[t] = NULL, Handle(t, f, v),
             UNCHANGED <<cache, unread, call, phase, pub, lost>>
      PROVE  \/ LeafOf(e, a) \in pub' \/ ToShow(e, a)' \/ call' = <<"new", a>>
                \/ <<e, a>> \in blind'
  <2>1. CASE Enlist(t, f)
    <3>1. /\ list' = list \cup {f}
          /\ walk'[t] # NULL /\ walk'[t].entry = f /\ walk'[t].mode = "add" /\ walk'[t].seen = {}
          /\ \A u \in Thread : u # t => walk'[u] = walk[u]
          /\ \A g \in Entry : g # f => (g \in raced' <=> g \in raced)
          /\ blind' = blind \ ({f} \X Addr)
      BY <1>1, <1>3, <2>1, EnlistParts
    <3>2. CASE e = f
      BY <3>1, <3>2 DEF ToShow
    <3>3. CASE e # f
      <4>1. e \in list /\ e \notin raced
        BY <1>1, <3>1, <3>3 DEF TypeOK
      <4>2. ToShow(e, a) => ToShow(e, a)'
        BY <1>3, <3>1 DEF ToShow
      <4>3. QED BY <1>2, <1>3, <3>1, <3>3, <4>1, <4>2
    <3>4. QED BY <3>2, <3>3
  <2>2. CASE Delist(t, f)
    <3>1. /\ list' = list \ {f} /\ raced' = raced \ {f} /\ blind' = blind \ ({f} \X Addr)
          /\ \A u \in Thread : u # t /\ walk[u] # NULL /\ walk[u].entry # f => walk'[u] = walk[u]
      BY <1>1, <1>3, <2>2, DelistParts
    <3>2. e # f /\ e \in list /\ e \notin raced
      BY <3>1
    <3>3. ToShow(e, a) => ToShow(e, a)'
      BY <1>3, <3>1, <3>2 DEF ToShow
    <3>4. QED BY <1>2, <1>3, <3>1, <3>2, <3>3
  <2>3. CASE UNCHANGED <<list, lock, walk, raced, blind>>
    BY <1>2, <1>3, <2>3 DEF ToShow
  <2>4. QED BY <1>3, <2>1, <2>2, <2>3 DEF Handle
<1>4. ASSUME NEW t \in Thread, Fetch(t)
      PROVE  \/ LeafOf(e, a) \in pub' \/ ToShow(e, a)' \/ call' = <<"new", a>>
                \/ <<e, a>> \in blind'
  <2>1. PICK b \in cache :
            /\ walk[t] # NULL /\ walk[t].cur = NULL
            /\ walk'[t] # NULL /\ walk'[t].entry = walk[t].entry /\ walk'[t].mode = walk[t].mode
            /\ walk'[t].cur = b /\ walk'[t].seen = walk[t].seen \cup {b}
            /\ \A u \in Thread : u # t => walk'[u] = walk[u]
    BY <1>1, <1>4, FetchParts
  <2>2. ToShow(e, a) => ToShow(e, a)'
    BY <1>1, <2>1 DEF ToShow
  <2>3. QED BY <1>2, <1>4, <2>2 DEF Fetch, netvars
<1>5. ASSUME NEW t \in Thread, Set(t)
      PROVE  \/ LeafOf(e, a) \in pub' \/ ToShow(e, a)' \/ call' = <<"new", a>>
                \/ <<e, a>> \in blind'
  <2>1. /\ walk[t] # NULL /\ walk[t].cur # NULL /\ UNCHANGED <<cache, call, list, blind>>
        /\ \/ /\ walk[t].mode \in {"add", "freed"}
              /\ pub' = pub \cup {LeafOf(walk[t].entry, walk[t].cur)}
           \/ /\ walk[t].mode \in {"del", "freed"}
              /\ pub' = pub \ {LeafOf(walk[t].entry, walk[t].cur)}
        /\ raced \subseteq raced' /\ (walk[t].mode = "freed" => walk[t].entry \in raced')
    BY <1>5, SetLeaf
  <2>2. /\ walk'[t] # NULL /\ walk'[t].entry = walk[t].entry /\ walk'[t].mode = walk[t].mode
        /\ walk'[t].seen = walk[t].seen
        /\ \A u \in Thread : u # t => walk'[u] = walk[u]
    BY <1>1, <1>5, SetParts
  <2>3. e \in list /\ e \in Entry
    BY <1>1, <2>1 DEF TypeOK
  <2>4. walk[t].entry = e => walk[t].mode \notin {"del", "freed"}
    BY <1>1, <2>1, <2>3 DEF Modes
  <2>5. LeafOf(e, a) \in pub => LeafOf(e, a) \in pub'
    <3>1. CASE LeafOf(walk[t].entry, walk[t].cur) = LeafOf(e, a)
      <4>1. walk[t].entry = e
        BY <2>1, <2>3, <3>1, SoleLeaf
      <4>2. QED BY <2>1, <2>4, <4>1
    <3>2. CASE LeafOf(walk[t].entry, walk[t].cur) # LeafOf(e, a)
      BY <2>1, <3>2
    <3>3. QED BY <3>1, <3>2
  <2>6. ToShow(e, a) => ToShow(e, a)' \/ LeafOf(e, a) \in pub'
    <3>1. CASE walk[t].entry = e /\ walk[t].mode = "add" /\ walk[t].cur = a
      BY <2>1, <3>1
    <3>2. CASE ~(walk[t].entry = e /\ walk[t].mode = "add" /\ walk[t].cur = a)
      BY <2>2, <3>2 DEF ToShow
    <3>3. QED BY <3>1, <3>2
  <2>7. QED BY <1>2, <2>1, <2>3, <2>5, <2>6
<1>6. ASSUME NEW t \in Thread, Done(t)
      PROVE  \/ LeafOf(e, a) \in pub' \/ ToShow(e, a)' \/ call' = <<"new", a>>
                \/ <<e, a>> \in blind'
  <2>1. /\ walk[t] # NULL /\ walk[t].cur = NULL
        /\ Known(walk[t].entry) => cache \cap In(walk[t].entry) \subseteq walk[t].seen
        /\ blind' = IF ~Known(walk[t].entry) /\ walk[t].mode = "add"
                        THEN blind \cup ({walk[t].entry} \X (In(walk[t].entry) \cap cache))
                        ELSE blind
        /\ \A u \in Thread :
              u # t /\ (lock # t \/ walk[u] = NULL \/ walk[u].entry # walk[t].entry) =>
                  walk'[u] = walk[u]
    BY <1>1, <1>6, DoneParts
  <2>2. UNCHANGED <<cache, call, list, pub, raced>>
    BY <1>6 DEF Done, netvars
  <2>3. lock = t => walk[t].entry # e
    BY <1>1, <2>1, <2>2, NullAssumption DEF TypeOK, Modes
  <2>4. ToShow(e, a) => ToShow(e, a)' \/ <<e, a>> \in blind'
    <3>1. ASSUME NEW u \in Thread, walk[u] # NULL, walk[u].entry = e, walk[u].mode = "add",
                 a \notin walk[u].seen \/ walk[u].cur = a
          PROVE  walk'[u] = walk[u] \/ <<e, a>> \in blind'
      <4>1. CASE u # t
        BY <2>1, <2>3, <3>1, <4>1
      <4>2. CASE u = t /\ Known(e)
        BY <1>1, <2>1, <2>2, <3>1, <4>2
      <4>3. CASE u = t /\ ~Known(e)
        BY <2>1, <2>2, <3>1, <4>3
      <4>4. QED BY <4>1, <4>2, <4>3
    <3>2. QED BY <3>1 DEF ToShow
  <2>5. blind \subseteq blind'
    BY <2>1
  <2>6. QED BY <1>2, <2>2, <2>4, <2>5
<1>7. CASE Start \/ Gone
  BY <1>1, <1>7 DEF Start, Gone, Idle
<1>8. CASE Receive
  <2>1. /\ call = NULL /\ UNCHANGED <<list, walk, pub, raced, blind>>
        /\ \E b \in Addr :
              \/ cache' = cache \cup {b} /\ (b \notin cache => call' = <<"new", b>>)
              \/ cache' = cache \ {b} /\ call' = <<"del", b>>
    BY <1>8, ReceiveParts
  <2>2. a \notin cache => call' = <<"new", a>>
    BY <2>1
  <2>3. call # <<"new", a>>
    BY <1>1, <2>1, NullAssumption DEF Action
  <2>4. QED BY <1>2, <2>1, <2>2, <2>3 DEF ToShow
<1>9. CASE Call
  <2>1. /\ call[2] \in Addr /\ UNCHANGED <<cache, list, walk, raced>>
        /\ \/ call[1] = "new" /\ pub' = pub \cup Found(call[2])
           \/ call[1] = "del" /\ call[2] \notin cache /\ pub' = pub \ Found(call[2])
           \/ call[1] = "change" /\ UNCHANGED pub
    BY <1>9, CallParts
  <2>2. LeafOf(e, a) \in Found(a)
    BY <1>1, <2>1 DEF Found, TypeOK
  <2>3. call = <<"new", a>> => LeafOf(e, a) \in pub'
    BY <2>1, <2>2
  <2>4. LeafOf(e, a) \in Found(call[2]) => call[2] = a
    BY <1>1, <2>1 DEF Found, Sole, TypeOK
  <2>5. LeafOf(e, a) \in pub => LeafOf(e, a) \in pub'
    BY <2>1, <2>4
  <2>6. <<e, a>> \in blind => <<e, a>> \in blind' \/ LeafOf(e, a) \in pub'
    <3>1. CASE blind' = blind
      BY <3>1
    <3>2. CASE call[1] = "new" /\ blind' = blind \ (list \X {call[2]})
      BY <2>1, <2>2, <3>2
    <3>3. QED BY <1>9, <3>1, <3>2, CallParts
  <2>7. QED BY <1>2, <2>1, <2>3, <2>5, <2>6 DEF ToShow
<1>10. CASE /\ UNCHANGED <<cache, call, list, lock, walk, pub, lost, raced, blind>>
             /\ unread' \subseteq unread
  BY <1>2, <1>10 DEF ToShow
<1>11. QED BY <1>3, <1>4, <1>5, <1>6, <1>7, <1>8, <1>9, <1>10, Steps

LEMMA ClearedNext == IInv /\ Cleared /\ [Next]_vars => Cleared'
<1> SUFFICES ASSUME IInv, Cleared, [Next]_vars, lock' # NULL, NEW a \in walk'[lock'].seen
             PROVE  a \in cache' \/ call' = <<"del", a>>
  BY DEF Cleared
<1>1. /\ TypeOK /\ Idle /\ lock \in Thread \cup {NULL}
      /\ lock # NULL => \A b \in walk[lock].seen : b \in cache \/ call = <<"del", b>>
  BY DEF IInv, TypeOK, Cleared
<1>2. ASSUME NEW t \in Thread, NEW f \in Entry, NEW v, walk[t] = NULL, Handle(t, f, v),
             UNCHANGED <<cache, unread, call, phase, pub, lost>>
      PROVE  a \in cache' \/ call' = <<"del", a>>
  <2>1. CASE Enlist(t, f)
    BY <1>1, <1>2, <2>1, EnlistParts
  <2>2. CASE Delist(t, f)
    <3>1. lock' = t /\ walk'[t].seen = {}
      BY <1>1, <1>2, <2>2, DelistParts
    <3>2. QED BY <3>1
  <2>3. CASE UNCHANGED <<list, lock, walk, raced, blind>>
    BY <1>1, <1>2, <2>3
  <2>4. QED BY <1>2, <2>1, <2>2, <2>3 DEF Handle
<1>3. ASSUME NEW t \in Thread, Fetch(t) PROVE a \in cache' \/ call' = <<"del", a>>
  <2>1. PICK b \in cache :
            /\ walk'[t].seen = walk[t].seen \cup {b}
            /\ \A u \in Thread : u # t => walk'[u] = walk[u]
    BY <1>1, <1>3, FetchParts
  <2>2. UNCHANGED <<cache, call, lock>>
    BY <1>3 DEF Fetch, netvars
  <2>3. QED BY <1>1, <2>1, <2>2
<1>4. ASSUME NEW t \in Thread, Set(t) PROVE a \in cache' \/ call' = <<"del", a>>
  <2>1. walk'[t].seen = walk[t].seen /\ \A u \in Thread : u # t => walk'[u] = walk[u]
    BY <1>1, <1>4, SetParts
  <2>2. UNCHANGED <<cache, call, lock>>
    BY <1>4 DEF Set, netvars
  <2>3. QED BY <1>1, <2>1, <2>2
<1>5. ASSUME NEW t \in Thread, Done(t) PROVE a \in cache' \/ call' = <<"del", a>>
  <2>1. UNCHANGED <<cache, call>> /\ IF lock = t THEN lock' = NULL ELSE UNCHANGED lock
    BY <1>5 DEF Done, netvars
  <2>2. lock' = lock /\ lock # t /\ lock # NULL /\ lock \in Thread
    BY <1>1, <2>1
  <2>3. walk'[lock] = walk[lock]
    BY <1>1, <1>5, <2>2, DoneParts
  <2>4. QED BY <1>1, <2>1, <2>2, <2>3
<1>6. CASE Start \/ Gone
  BY <1>1, <1>6 DEF Start, Gone, Idle
<1>7. CASE Receive
  <2>1. /\ call = NULL /\ UNCHANGED <<lock, walk>>
        /\ \E b \in Addr :
              \/ cache' = cache \cup {b}
              \/ cache' = cache \ {b} /\ call' = <<"del", b>>
    BY <1>7, ReceiveParts
  <2>2. call # <<"del", a>>
    <3>1. a \in Addr
      <4>1. walk[lock] \in Walk
        BY <1>1, <2>1 DEF TypeOK
      <4>2. QED BY <2>1, <4>1, WalkParts
    <3>2. QED BY <2>1, <3>1, NullAssumption DEF Action
  <2>3. QED BY <1>1, <2>1, <2>2
<1>8. CASE Call
  BY <1>8, CallParts
<1>9. CASE /\ UNCHANGED <<cache, call, list, lock, walk, pub, lost, raced, blind>>
             /\ unread' \subseteq unread
  BY <1>1, <1>9
<1>10. QED BY <1>2, <1>3, <1>4, <1>5, <1>6, <1>7, <1>8, <1>9, Steps

LEMMA JustifiedNext == IInv /\ InHand /\ Cleared /\ Justified /\ [Next]_vars => Justified'
<1> SUFFICES ASSUME IInv, InHand, Cleared, Justified, [Next]_vars,
                    NEW leaf, leaf \in pub', leaf \notin lost'
             PROVE  \E e \in Entry : \E a \in In(e) : LeafOf(e, a) = leaf /\ Known(e)' /\ Kept(e, a)'
  BY DEF Justified
<1>1. /\ TypeOK /\ Idle /\ Modes /\ Called /\ lock \in Thread \cup {NULL} /\ list \subseteq Entry
  BY DEF IInv, TypeOK
<1>0. unread' \subseteq unread => \A e \in Entry : Known(e) => Known(e)'
  BY DEF Known
<1>2. ASSUME leaf \in pub \ lost
      PROVE  \E e \in Entry : \E a \in In(e) : LeafOf(e, a) = leaf /\ Known(e) /\ Kept(e, a)
  BY <1>2 DEF Justified
<1>3. ASSUME NEW t \in Thread, NEW f \in Entry, NEW v, walk[t] = NULL, Handle(t, f, v),
             UNCHANGED <<cache, unread, call, phase, pub, lost>>
      PROVE  \E e \in Entry : \E a \in In(e) : LeafOf(e, a) = leaf /\ Known(e)' /\ Kept(e, a)'
  <2>1. PICK e \in Entry : \E a \in In(e) : LeafOf(e, a) = leaf /\ Known(e) /\ Kept(e, a)
    BY <1>2, <1>3
  <2>2. PICK a \in In(e) : LeafOf(e, a) = leaf /\ Known(e) /\ Kept(e, a)
    BY <2>1
  <2>3. CASE Enlist(t, f)
    <3>1. lock = NULL /\ list' = list \cup {f}
      BY <2>3 DEF Enlist
    <3>2. Kept(e, a)'
      BY <1>3, <2>2, <3>1 DEF Kept
    <3>3. QED BY <1>0, <1>3, <2>2, <3>2
  <2>4. CASE Delist(t, f)
    <3>1. /\ lock = NULL /\ lock' = t /\ t # NULL /\ list' = list \ {f}
          /\ walk'[t].entry = f /\ walk'[t].seen = {}
      BY <1>1, <1>3, <2>4, DelistParts
    <3>2. Kept(e, a)'
      BY <1>3, <2>2, <3>1 DEF Kept
    <3>3. QED BY <1>0, <1>3, <2>2, <3>2
  <2>5. CASE UNCHANGED <<list, lock, walk, raced, blind>>
    <3>1. Kept(e, a)'
      BY <1>3, <2>2, <2>5 DEF Kept
    <3>2. QED BY <1>0, <1>3, <2>2, <3>1
  <2>6. QED BY <1>3, <2>3, <2>4, <2>5 DEF Handle
<1>4. ASSUME NEW t \in Thread, Fetch(t)
      PROVE  \E e \in Entry : \E a \in In(e) : LeafOf(e, a) = leaf /\ Known(e)' /\ Kept(e, a)'
  <2>1. UNCHANGED <<cache, unread, call, list, lock, pub, lost>>
    BY <1>4 DEF Fetch, netvars
  <2>2. PICK e \in Entry : \E a \in In(e) : LeafOf(e, a) = leaf /\ Known(e) /\ Kept(e, a)
    BY <1>2, <2>1
  <2>3. PICK a \in In(e) : LeafOf(e, a) = leaf /\ Known(e) /\ Kept(e, a)
    BY <2>2
  <2>4. PICK b \in cache :
            /\ walk[t].cur = NULL
            /\ walk'[t].entry = walk[t].entry
            /\ walk'[t].cur = b /\ walk'[t].seen = walk[t].seen \cup {b}
            /\ \A u \in Thread : u # t => walk'[u] = walk[u]
    BY <1>1, <1>4, FetchParts
  <2>5. a # NULL
    BY NullAssumption DEF In
  <2>6. Kept(e, a)'
    BY <1>1, <2>1, <2>3, <2>4, <2>5 DEF Kept
  <2>7. QED BY <1>0, <2>1, <2>3, <2>6
<1>5. ASSUME NEW t \in Thread, Set(t)
      PROVE  \E e \in Entry : \E a \in In(e) : LeafOf(e, a) = leaf /\ Known(e)' /\ Kept(e, a)'
  <2>1. /\ walk[t] # NULL /\ walk[t].entry \in Entry /\ walk[t].cur \in In(walk[t].entry)
        /\ UNCHANGED <<cache, unread, call, list, lock>> /\ Known(walk[t].entry)
        /\ \/ leaf \in pub \ lost /\ leaf # LeafOf(walk[t].entry, walk[t].cur)
           \/ /\ leaf = LeafOf(walk[t].entry, walk[t].cur)
              /\ walk[t].mode = "add" /\ walk[t].cur \in cache
    BY <1>5, SetLeaf
  <2>2. /\ walk'[t].entry = walk[t].entry /\ walk'[t].seen = walk[t].seen
        /\ \A u \in Thread : u # t => walk'[u] = walk[u]
    BY <1>1, <1>5, SetParts
  <2>3. CASE leaf \in pub \ lost /\ leaf # LeafOf(walk[t].entry, walk[t].cur)
    <3>1. PICK e \in Entry : \E a \in In(e) : LeafOf(e, a) = leaf /\ Known(e) /\ Kept(e, a)
      BY <1>2, <2>3
    <3>2. PICK a \in In(e) : LeafOf(e, a) = leaf /\ Known(e) /\ Kept(e, a)
      BY <3>1
    <3>3. walk[t].entry = e => walk[t].cur # a
      BY <2>3, <3>2
    <3>4. Kept(e, a)'
      BY <1>1, <2>1, <2>2, <3>2, <3>3 DEF Kept
    <3>5. QED BY <1>0, <2>1, <3>2, <3>4
  <2>4. CASE /\ leaf = LeafOf(walk[t].entry, walk[t].cur)
             /\ walk[t].mode = "add" /\ walk[t].cur \in cache
    <3>1. walk[t].entry \in list
      BY <1>1, <2>1, <2>4 DEF Modes
    <3>2. PICK e, a : e = walk[t].entry /\ a = walk[t].cur
      OBVIOUS
    <3>3. e \in Entry /\ a \in In(e) /\ LeafOf(e, a) = leaf
      BY <2>1, <2>4, <3>2
    <3>4. Kept(e, a)'
      BY <2>1, <2>4, <3>1, <3>2 DEF Kept
    <3>5. Known(e)'
      BY <1>0, <2>1, <3>2, <3>3
    <3>6. QED BY <3>3, <3>4, <3>5
  <2>5. QED BY <2>1, <2>3, <2>4
<1>6. ASSUME NEW t \in Thread, Done(t)
      PROVE  \E e \in Entry : \E a \in In(e) : LeafOf(e, a) = leaf /\ Known(e)' /\ Kept(e, a)'
  <2>1. /\ walk[t].cur = NULL
        /\ Known(walk[t].entry) => cache \cap In(walk[t].entry) \subseteq walk[t].seen
        /\ \A u \in Thread : u # t /\ lock # t => walk'[u] = walk[u]
    BY <1>1, <1>6, DoneParts
  <2>2. /\ UNCHANGED <<cache, unread, call, list, pub>>
        /\ \/ /\ lock = t /\ lock' = NULL
              /\ lost' = lost \cup (pub \cap {LeafOf(walk[t].entry, a) : a \in In(walk[t].entry) \ cache})
           \/ lock # t /\ UNCHANGED <<lock, lost>>
    BY <1>6 DEF Done, netvars
  <2>3. PICK e \in Entry : \E a \in In(e) : LeafOf(e, a) = leaf /\ Known(e) /\ Kept(e, a)
    BY <1>2, <2>2
  <2>4. PICK a \in In(e) : LeafOf(e, a) = leaf /\ Known(e) /\ Kept(e, a)
    BY <2>3
  <2>5. a # NULL
    BY NullAssumption DEF In
  <2>6. CASE lock = t
    <3>1. ~(walk[t].entry = e /\ a \notin cache)
      BY <2>2, <2>4, <2>6
    <3>2. ~(walk[t].entry = e /\ (a \notin walk[t].seen \/ walk[t].cur = a))
      BY <2>1, <2>4, <2>5, <3>1
    <3>3. Kept(e, a)'
      BY <2>2, <2>4, <2>6, <3>1, <3>2 DEF Kept
    <3>4. QED BY <1>0, <2>2, <2>4, <3>3
  <2>7. CASE lock # t
    <3>1. Kept(e, a)'
      BY <1>1, <2>1, <2>2, <2>4, <2>7 DEF Kept
    <3>2. QED BY <1>0, <2>2, <2>4, <3>1
  <2>8. QED BY <2>6, <2>7
<1>7. CASE Start \/ Gone
  BY <1>1, <1>7 DEF Start, Gone, Idle
<1>8. CASE Receive
  <2>1. /\ call = NULL /\ UNCHANGED <<unread, list, lock, walk, pub, lost>>
    BY <1>8, ReceiveParts
  <2>2. PICK b \in Addr :
            cache' = cache \cup {b} \/ (cache' = cache \ {b} /\ call' = <<"del", b>>)
    BY <1>8, ReceiveParts
  <2>3. PICK e \in Entry : \E a \in In(e) : LeafOf(e, a) = leaf /\ Known(e) /\ Kept(e, a)
    BY <1>2, <2>1
  <2>4. PICK a \in In(e) : LeafOf(e, a) = leaf /\ Known(e) /\ Kept(e, a)
    BY <2>3
  <2>5. call # <<"del", a>>
    BY <2>1, NullAssumption DEF Action, In
  <2>6. Kept(e, a)'
    BY <2>1, <2>2, <2>4, <2>5 DEF Kept, Cleared
  <2>7. QED BY <1>0, <2>1, <2>4, <2>6
<1>9. CASE Call
  <2>1. /\ lock = NULL /\ call[2] \in Addr /\ UNCHANGED <<cache, unread, list, lock, walk>>
        /\ unread = {}
        /\ \/ /\ call[1] = "new" /\ call[2] \in cache
              /\ pub' = pub \cup Found(call[2]) /\ lost' = lost \ Found(call[2])
           \/ /\ call[1] = "del" /\ call[2] \notin cache
              /\ pub' = pub \ Found(call[2]) /\ lost' = lost \ Found(call[2])
           \/ call[1] = "change" /\ UNCHANGED <<pub, lost>>
    BY <1>1, <1>9, CallParts DEF Called, Call
  <2>2. CASE call[1] = "new" /\ leaf \in Found(call[2])
    <3>1. PICK e \in list : call[2] \in In(e) /\ leaf = LeafOf(e, call[2])
      BY <2>2 DEF Found
    <3>2. PICK a : a = call[2]
      OBVIOUS
    <3>3. Kept(e, a)'
      BY <2>1, <2>2, <3>2 DEF Kept
    <3>4. Known(e)'
      BY <2>1 DEF Known
    <3>5. QED BY <1>1, <3>1, <3>2, <3>3, <3>4
  <2>3. CASE ~(call[1] = "new" /\ leaf \in Found(call[2]))
    <3>1. leaf \in pub \ lost /\ (call[1] = "del" => leaf \notin Found(call[2]))
      BY <2>1, <2>3
    <3>2. PICK e \in Entry : \E a \in In(e) : LeafOf(e, a) = leaf /\ Known(e) /\ Kept(e, a)
      BY <1>2, <3>1
    <3>3. PICK a \in In(e) : LeafOf(e, a) = leaf /\ Known(e) /\ Kept(e, a)
      BY <3>2
    <3>4. e \in list => call # <<"del", a>>
      BY <3>1, <3>3 DEF Found
    <3>5. Kept(e, a)'
      BY <2>1, <3>3, <3>4 DEF Kept
    <3>6. QED BY <1>0, <2>1, <3>3, <3>5
  <2>4. QED BY <2>2, <2>3
<1>10. CASE /\ UNCHANGED <<cache, call, list, lock, walk, pub, lost, raced, blind>>
             /\ unread' \subseteq unread
  <2>1. PICK e \in Entry : \E a \in In(e) : LeafOf(e, a) = leaf /\ Known(e) /\ Kept(e, a)
    BY <1>2, <1>10
  <2>2. PICK a \in In(e) : LeafOf(e, a) = leaf /\ Known(e) /\ Kept(e, a)
    BY <2>1
  <2>3. Kept(e, a)'
    BY <1>10, <2>2 DEF Kept
  <2>4. QED BY <1>0, <1>10, <2>2, <2>3
<1>11. QED BY <1>3, <1>4, <1>5, <1>6, <1>7, <1>8, <1>9, <1>10, Steps

LEMMA MInvAlways == Spec => []MInv
<1>1. Init => MInv
  <2> SUFFICES ASSUME Init PROVE MInv
    OBVIOUS
  <2>1. IInv /\ InHand
    BY InitInvariant, HandInit
  <2>2. Notified /\ Corrected /\ Enlisted /\ Coming /\ Cleared /\ Justified
    BY EmptyQueue DEF Init, Notified, Corrected, Enlisted, Coming, Cleared, Justified, Alive, Watching
  <2>3. QED BY <2>1, <2>2 DEF MInv
<1>2. MInv /\ [Next]_vars => MInv'
  <2> SUFFICES ASSUME MInv, [Next]_vars PROVE MInv'
    OBVIOUS
  <2>1. IInv /\ TypeOK /\ Idle /\ InHand /\ Notified /\ Corrected /\ Enlisted /\ Coming /\ Cleared /\ Justified
    BY DEF MInv, IInv
  <2>2. IInv' /\ InHand' /\ Notified' /\ Corrected'
    BY <2>1, InvariantNext, HandNext, NotifiedNext, CorrectedNext
  <2>3. Enlisted' /\ Coming' /\ Cleared' /\ Justified'
    BY <2>1, EnlistedNext, ComingNext, ClearedNext, JustifiedNext
  <2>4. QED BY <2>2, <2>3 DEF MInv
<1>3. QED BY <1>1, <1>2, PTL DEF Spec

\* Once all is quiet, every configured entry shows every address of its interface, but
\* for those it passed over at the start while the link cache was behind.
THEOREM AlwaysShown == Spec => []Shown
<1>1. ASSUME MInv PROVE Shown
  <2> SUFFICES ASSUME Quiescent, NEW e \in Entry, e \notin raced, NEW a \in In(e), a \in kernel,
                      cfg[e] = "same", Sole(e, a), <<e, a>> \notin blind
               PROVE  LeafOf(e, a) \in pub
    BY DEF Shown
  <2>1. /\ phase = "running" /\ queue = <<>> /\ news = <<>> /\ call = NULL
        /\ \A t \in Thread : walk[t] = NULL
    BY DEF Quiescent, NoWalk
  <2>2. e \in list
    BY <1>1, <2>1 DEF MInv, Enlisted, Pending
  <2>3. a \in cache
    BY <1>1, <2>1, EmptyQueue DEF MInv, Notified, Alive, In
  <2>4. call # <<"new", a>>
    BY <2>1, NullAssumption DEF Action, In
  <2>5. ~ToShow(e, a)
    BY <2>1 DEF ToShow
  <2>6. QED BY <1>1, <2>2, <2>3, <2>4, <2>5 DEF MInv, Coming
<1>2. QED BY <1>1, MInvAlways, PTL

\* ... and nothing else is published but what the code is known to lose.
THEOREM AlwaysNothingLeft == Spec => []NothingLeft
<1>1. ASSUME MInv PROVE NothingLeft
  <2> SUFFICES ASSUME Quiescent, NEW leaf \in pub \ lost
               PROVE  \E e \in Entry : \E a \in In(e) \cap kernel :
                          LeafOf(e, a) = leaf /\ (cfg[e] # NULL \/ e \in raced)
    BY DEF NothingLeft
  <2>1. /\ phase = "running" /\ queue = <<>> /\ news = <<>> /\ call = NULL
        /\ \A t \in Thread : walk[t] = NULL
    BY DEF Quiescent, NoWalk
  <2>2. lock = NULL
    BY <1>1, <2>1 DEF MInv, IInv, TypeOK
  <2>3. PICK e \in Entry : \E a \in In(e) : LeafOf(e, a) = leaf /\ Kept(e, a)
    BY <1>1 DEF MInv, Justified
  <2>4. PICK a \in In(e) : LeafOf(e, a) = leaf /\ Kept(e, a)
    BY <2>3
  <2>5. call # <<"del", a>>
    BY <2>1, NullAssumption DEF Action, In
  <2>6. e \in list /\ a \in cache
    BY <2>2, <2>4, <2>5 DEF Kept
  <2>7. a \in kernel
    BY <1>1, <2>1, <2>6, EmptyQueue DEF MInv, Notified, Alive, In
  <2>8. cfg[e] # NULL \/ e \in raced
    BY <1>1, <2>1, <2>6 DEF MInv, Enlisted, Watching, Pending
  <2>9. QED BY <2>4, <2>7, <2>8
<1>2. QED BY <1>1, MInvAlways, PTL
=============================================================================
