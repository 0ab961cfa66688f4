--------------------------- MODULE PublishProofs ---------------------------
(***************************************************************************)
(* What holds of Publish for every set of links, routes, addresses and     *)
(* neighbors, whatever they look like, and every bound: the types are      *)
(* right, a daemon that has exited leaves nothing but what callbacks       *)
(* under way publish late, and once all is quiet what is published is what *)
(* the kernel has, but for what the code is known to miss.                 *)
(*                                                                         *)
(* One socket keeps the notifications of all kinds in order, so a cache    *)
(* goes through states the kernel was in: names are unique in it, and no   *)
(* dependent survives its link.  That is what Unique and Bereft say of     *)
(* each state the caches will be in, and what the callbacks rely on.       *)
(***************************************************************************)
EXTENDS Publish, Queues

Looks == Content \cup LinkContent \cup {NULL}
Up == phase \in {"init", "running"}

Sent == socket \in Seq(Id \X Looks)

\* Nothing is left in memory of a process that ended.
Idle ==
    phase \in {"down", "stopped"} =>
        /\ joined = {} /\ registered = {} /\ unseen = {} /\ socket = <<>>
        /\ blind = {} /\ moved = {} /\ abandoned = {}
        /\ \A i \in Id : cache[i] = NULL

\* Kinds are joined in order, unless their publisher is refused; and objects are
\* called back for when their kind is.
Stage ==
    /\ Up => registered = joined
    /\ phase = "init" =>
           /\ at >= 1
           /\ \A n \in 1 .. Len(Order) :
                 /\ n < at => Order[n] \in joined \cup {"link", "route"}
                 /\ Order[n] \in joined => n <= at
           /\ unseen # {} => at <= Len(Order) /\ Order[at] \in joined /\ unseen \subseteq IdOf(Order[at])
    /\ phase = "running" => {"address", "neighbor"} \subseteq joined /\ unseen = {}

\* While the daemon exits a callback may be under way, the last one of its kind if
\* its publisher has unregistered.
UnderWay ==
    calling # NULL =>
        /\ phase = "exit" /\ calling[2] # calling[3]
        /\ \A i \in late : KindOf[i] # KindOf[calling[1]]

\* There is one late object of each kind at most.
Lateness ==
    /\ late # {} => phase \in {"exit", "stopped"}
    /\ \A i \in late : KindOf[i] \notin registered
    /\ \A i, j \in late : KindOf[i] = KindOf[j] => i = j

\* Publisher n has emptied its tree and is not called back ...
Over(n) ==
    /\ Order[n] \notin registered
    /\ phase = "running" \/ (phase = "init" /\ n < at) \/ (phase = "exit" /\ at < n)

\* ... so that its tree stays empty, but for what comes late.
Remains(k) == \A p \in PathOf(k) : pub[p] # NULL => \E i \in late : i \in About(p)

Swept ==
    /\ phase = "exit" => \A n \in at + 1 .. Len(Order) : Order[n] \notin registered
    /\ \A n \in 1 .. Len(Order) : Over(n) => Remains(Order[n])
    /\ CleanExit

IInv == TypeOK /\ Sent /\ Idle /\ Stage /\ UnderWay /\ Lateness /\ Swept

\* The kernel has unique names, and no dependent without a link.
Sound ==
    /\ \A l, m \in Link : l # m /\ kernel[l] # NULL /\ kernel[m] # NULL => kernel[l][1] # kernel[m][1]
    /\ \A i \in Dependent : kernel[i] # NULL => kernel[On[i]] # NULL

\* The notifications end with what is so, and what a cache has wrong is notified.
Notified ==
    Up => \A i \in Id :
              /\ KindOf[i] \in joined => Says(socket, i, kernel[i])
                                         /\ (cache[i] # kernel[i] => Of(socket, i))
              /\ KindOf[i] \notin joined => cache[i] = NULL /\ ~Of(socket, i)

\* A link whose removal has not been received has not come back.
Removed ==
    Up => \A n \in 1 .. Len(socket) : socket[n][1] \in Link /\ socket[n][2] = NULL =>
              kernel[socket[n][1]] = NULL

\* Names are unique in every state the link cache will be in ...
Unique ==
    Up => \A n \in 0 .. Len(socket) : \A l, m \in Link : \A x, y \in LinkContent :
              l # m /\ After(cache, socket, n, l, x) /\ After(cache, socket, n, m, y) => x[1] # y[1]

\* ... and the dependents of a link have gone when its removal is received.
Bereft ==
    Up => \A n \in 1 .. Len(socket) : socket[n][1] \in Link /\ socket[n][2] = NULL =>
              \A i \in Dependent : \A x \in Looks :
                  On[i] = socket[n][1] /\ After(cache, socket, n, i, x) => x = NULL

CInv == IInv /\ Sound /\ Notified /\ Removed /\ Unique /\ Bereft

Told(i) == KindOf[i] \in registered /\ i \notin unseen

\* A cached link that was called back for is published ...
LinkShown ==
    Up => \A l \in Link : Told(l) /\ cache[l] # NULL =>
              /\ pub[<<"alias", l>>] = cache[l][1]
              /\ pub[<<"identity", cache[l][1]>>] = l
              /\ pub[<<"status", cache[l][1]>>] = cache[l]

\* ... and no other one.
LinkOnly ==
    Up /\ "link" \in registered =>
        /\ \A l \in Link : pub[<<"alias", l>>] # NULL => cache[l] # NULL
        /\ \A n \in Name \ abandoned : pub[<<"status", n>>] # NULL =>
               \E l \in Link : cache[l] # NULL /\ cache[l][1] = n

\* A cached dependent is published under the name the link cache has ...
DependentShown ==
    Up => \A i \in Dependent : Told(i) /\ cache[i] # NULL /\ Settled(i) =>
              cache[On[i]] # NULL /\ pub[<<"entry", cache[On[i]][1], i>>] = cache[i]

\* ... and nowhere else.
DependentOnly ==
    Up => \A i \in Dependent \ (blind \cup Short) : \A n \in (Name \cup {NULL}) \ abandoned :
              KindOf[i] \in registered /\ pub[<<"entry", n, i>>] # NULL =>
                  cache[i] # NULL /\ cache[On[i]] # NULL /\ cache[On[i]][1] = n

RouteShown ==
    Up => \A r \in Route \ moved : Told(r) /\ cache[r] # NULL => pub[<<"fib", r, cache[r]>>] = cache[r]

RouteOnly ==
    Up => \A r \in Route \ moved, x \in Content :
              KindOf[r] \in registered /\ pub[<<"fib", r, x>>] # NULL => cache[r] = x

PInv == CInv /\ LinkShown /\ LinkOnly /\ DependentShown /\ DependentOnly /\ RouteShown /\ RouteOnly
------------------------------------------------------------------------------
(* Kinds, objects and paths.                                               *)

LEMMA OrderParts ==
    /\ Len(Order) = 4 /\ Order[1] = "link"
    /\ \A n \in 1 .. 4 : Order[n] \in Kinds
    /\ \A k \in Kinds : \E n \in 1 .. 4 : Order[n] = k
    /\ \A m, n \in 1 .. 4 : Order[m] = Order[n] => m = n
<1>1. Len(Order) = 4 /\ Order[1] = "link" /\ Order[2] = "route" /\ Order[3] = "address" /\ Order[4] = "neighbor"
  BY DEF Order
<1>2. \A n \in 1 .. 4 : n = 1 \/ n = 2 \/ n = 3 \/ n = 4
  OBVIOUS
<1>3. 1 \in 1 .. 4 /\ 2 \in 1 .. 4 /\ 3 \in 1 .. 4 /\ 4 \in 1 .. 4
  OBVIOUS
<1>4. QED BY <1>1, <1>2, <1>3 DEF Kinds

LEMMA Members ==
    /\ \A i \in Id : i \in Link \/ i \in Route \/ i \in Dependent
    /\ \A i \in Link : i \in Id /\ KindOf[i] = "link" /\ i \notin Route /\ i \notin Dependent
    /\ \A i \in Route : i \in Id /\ KindOf[i] = "route" /\ i \notin Link /\ i \notin Dependent
    /\ \A i \in Dependent :
          /\ i \in Id /\ KindOf[i] \in {"address", "neighbor"} /\ i \notin Link /\ i \notin Route
          /\ On[i] \in Link /\ On[i] \in Id /\ On[i] # i
BY KindAssumption, OnAssumption DEF Link, Route, Dependent, IdOf, Kinds

LEMMA Appearance ==
    /\ \A x \in LinkContent : x # NULL /\ x[1] \in Name /\ x[1] # NULL
    /\ \A x \in Content : x # NULL
    /\ \A i \in Link : Object(i) = LinkContent
    /\ \A i \in Route \cup Dependent : Object(i) = Content
    /\ \A i \in Id : Object(i) \subseteq Looks /\ NULL \notin Object(i)
<1>1. \A x \in LinkContent : x # NULL /\ x[1] \in Name /\ x[1] # NULL
  BY NullAssumption DEF LinkContent
<1>2. QED BY <1>1, Members, NullAssumption DEF Object, Looks

LEMMA Paths ==
    /\ \A l \in Link : <<"alias", l>> \in Path
    /\ \A n \in Name : <<"identity", n>> \in Path /\ <<"status", n>> \in Path
    /\ \A n \in Name \cup {NULL}, i \in Dependent : <<"entry", n, i>> \in Path
    /\ \A r \in Route, x \in Content : <<"fib", r, x>> \in Path
BY DEF Path

\* Each path is an identity's or of one publisher.
LEMMA Publishers ==
    /\ \A l \in Link : <<"alias", l>> \in PathOf("link")
    /\ \A n \in Name : <<"status", n>> \in PathOf("link")
    /\ \A n \in Name \cup {NULL}, i \in Dependent : <<"entry", n, i>> \in PathOf(KindOf[i])
    /\ \A r \in Route, x \in Content : <<"fib", r, x>> \in PathOf("route")
    /\ \A p \in Path : p[1] # "identity" => \E k \in Kinds : p \in PathOf(k)
<1>1. /\ \A l \in Link : <<"alias", l>> \in PathOf("link")
      /\ \A n \in Name : <<"status", n>> \in PathOf("link")
      /\ \A r \in Route, x \in Content : <<"fib", r, x>> \in PathOf("route")
  BY Paths DEF PathOf
<1>2. \A n \in Name \cup {NULL}, i \in Dependent : <<"entry", n, i>> \in PathOf(KindOf[i])
  BY Paths DEF PathOf
<1>3. ASSUME NEW p \in Path, p[1] # "identity" PROVE \E k \in Kinds : p \in PathOf(k)
  <2>1. CASE p \in ({"alias"} \X Link) \cup ({"identity", "status"} \X Name)
    <3>1. p[1] \in {"alias", "status"}
      BY <1>3, <2>1
    <3>2. QED BY <3>1 DEF PathOf, Kinds
  <2>2. CASE p \in {"entry"} \X (Name \cup {NULL}) \X Dependent
    <3>1. p[1] = "entry" /\ p[3] \in Dependent
      BY <2>2
    <3>2. KindOf[p[3]] \in Kinds
      BY <3>1, Members DEF Kinds
    <3>3. QED BY <3>1, <3>2 DEF PathOf
  <2>3. CASE p \in {"fib"} \X Route \X Content
    <3>1. p[1] = "fib"
      BY <2>3
    <3>2. QED BY <3>1 DEF PathOf, Kinds
  <2>4. QED BY <2>1, <2>2, <2>3 DEF Path
<1>4. QED BY <1>1, <1>2, <1>3

\* No path is of two publishers.
LEMMA Apart ==
    ASSUME NEW j \in Kinds, NEW k \in Kinds, j # k, NEW p \in PathOf(j)
    PROVE  p \in Path /\ p \notin PathOf(k) /\ p[1] # "identity"
BY DEF PathOf, Kinds

\* What the part of kind k is emptied leaves.
LEMMA WithoutPart ==
    ASSUME NEW k, pub' = Without(PathOf(k))
    PROVE  /\ DOMAIN pub' = Path
           /\ \A p \in PathOf(k) : pub'[p] = NULL
           /\ \A p \in Path : p \notin PathOf(k) => pub'[p] = pub[p]
           /\ k # "link" => /\ \A l \in Link : pub'[<<"alias", l>>] = pub[<<"alias", l>>]
                            /\ \A n \in Name : /\ pub'[<<"identity", n>>] = pub[<<"identity", n>>]
                                               /\ pub'[<<"status", n>>] = pub[<<"status", n>>]
           /\ \A n \in Name \cup {NULL}, i \in Dependent :
                  KindOf[i] # k => pub'[<<"entry", n, i>>] = pub[<<"entry", n, i>>]
           /\ k # "route" => \A r \in Route, x \in Content : pub'[<<"fib", r, x>>] = pub[<<"fib", r, x>>]
<1>1. /\ DOMAIN pub' = Path
      /\ \A p \in PathOf(k) : p \in Path /\ pub'[p] = NULL
      /\ \A p \in Path : p \notin PathOf(k) => pub'[p] = pub[p]
  BY DEF Without, PathOf
<1>2. k # "link" => /\ \A l \in Link : <<"alias", l>> \notin PathOf(k)
                    /\ \A n \in Name : <<"identity", n>> \notin PathOf(k) /\ <<"status", n>> \notin PathOf(k)
  BY DEF PathOf
<1>3. \A n \in Name \cup {NULL}, i \in Dependent : KindOf[i] # k => <<"entry", n, i>> \notin PathOf(k)
  BY DEF PathOf
<1>4. k # "route" => \A r \in Route, x \in Content : <<"fib", r, x>> \notin PathOf(k)
  BY DEF PathOf
<1>5. QED BY <1>1, <1>2, <1>3, <1>4, Paths

------------------------------------------------------------------------------
(* What the callbacks do.                                                  *)

LEMMA LinkEffect ==
    ASSUME DOMAIN pub = Path, NEW i \in Link, NEW old \in LinkContent \cup {NULL},
           NEW new \in LinkContent \cup {NULL}, old # new, LinkCallback(i, old, new)
    PROVE  /\ DOMAIN pub' = Path
           /\ \A p \in Path : p[1] \notin {"alias", "identity", "status"} => pub'[p] = pub[p]
           /\ \A l \in Link : l # i => pub'[<<"alias", l>>] = pub[<<"alias", l>>]
           /\ new = NULL =>
                 /\ old[1] \in Name /\ pub'[<<"alias", i>>] = NULL /\ pub'[<<"status", old[1]>>] = NULL
                 /\ \A n \in Name : /\ pub'[<<"identity", n>>] = pub[<<"identity", n>>]
                                    /\ n # old[1] => pub'[<<"status", n>>] = pub[<<"status", n>>]
           /\ new # NULL =>
                 /\ new[1] \in Name /\ pub'[<<"alias", i>>] = new[1]
                 /\ pub'[<<"identity", new[1]>>] = i /\ pub'[<<"status", new[1]>>] = new
                 /\ \A n \in Name : n # new[1] =>
                       /\ pub'[<<"identity", n>>] = pub[<<"identity", n>>]
                       /\ pub'[<<"status", n>>] = pub[<<"status", n>>]
<1>1. CASE new = NULL
  <2>1. old[1] \in Name
    BY <1>1, Appearance
  <2>2. pub' = [p \in Path |-> IF p \in {<<"alias", i>>, <<"status", old[1]>>} THEN NULL ELSE pub[p]]
    BY <1>1 DEF LinkCallback, Without
  <2>3. /\ DOMAIN pub' = Path
        /\ \A p \in Path : pub'[p] = IF p = <<"alias", i>> \/ p = <<"status", old[1]>> THEN NULL ELSE pub[p]
    BY <2>2
  <2>4. PICK n : n = old[1]
    OBVIOUS
  <2>5. /\ n \in Name /\ \A p \in Path : p # <<"alias", i>> /\ p # <<"status", n>> => pub'[p] = pub[p]
        /\ pub'[<<"alias", i>>] = NULL /\ pub'[<<"status", n>>] = NULL
    BY <2>1, <2>3, <2>4, Paths
  <2>6. /\ \A p \in Path : p[1] \notin {"alias", "identity", "status"} => pub'[p] = pub[p]
        /\ \A l \in Link : l # i => pub'[<<"alias", l>>] = pub[<<"alias", l>>]
    BY <2>5, Paths
  <2>7. \A m \in Name : pub'[<<"identity", m>>] = pub[<<"identity", m>>]
    BY <2>5, Paths
  <2>8. \A m \in Name : m # n => pub'[<<"status", m>>] = pub[<<"status", m>>]
    BY <2>5, Paths
  <2>9. QED BY <1>1, <2>3, <2>4, <2>5, <2>6, <2>7, <2>8
<1>2. CASE new # NULL
  <2>1. new[1] \in Name
    BY <1>2, Appearance
  <2>2. pub' = [pub EXCEPT ![<<"alias", i>>] = new[1], ![<<"identity", new[1]>>] = i,
                           ![<<"status", new[1]>>] = new]
    BY <1>2 DEF LinkCallback
  <2>3. DOMAIN pub' = Path
    BY <2>2
  <2>4. \A p \in Path : pub'[p] = IF p = <<"status", new[1]>> THEN new
                                  ELSE IF p = <<"identity", new[1]>> THEN i
                                  ELSE IF p = <<"alias", i>> THEN new[1] ELSE pub[p]
    BY <2>2
  <2>5. QED BY <1>2, <2>1, <2>3, <2>4, Paths
<1>3. QED BY <1>1, <1>2

LEMMA RouteEffect ==
    ASSUME DOMAIN pub = Path, NEW i \in Route, NEW old \in Content \cup {NULL},
           NEW new \in Content \cup {NULL}, old # new, RouteCallback(i, old, new)
    PROVE  /\ DOMAIN pub' = Path
           /\ \A p \in Path : p[1] # "fib" => pub'[p] = pub[p]
           /\ \A r \in Route, x \in Content : r # i => pub'[<<"fib", r, x>>] = pub[<<"fib", r, x>>]
           /\ new = NULL => /\ pub'[<<"fib", i, old>>] = NULL
                            /\ \A x \in Content : x # old => pub'[<<"fib", i, x>>] = pub[<<"fib", i, x>>]
           /\ old = NULL => /\ pub'[<<"fib", i, new>>] = new
                            /\ \A x \in Content : x # new => pub'[<<"fib", i, x>>] = pub[<<"fib", i, x>>]
<1>1. CASE new = NULL
  <2>1. old \in Content /\ old # NULL
    BY <1>1
  <2>2. pub' = [p \in Path |-> IF p \in {<<"fib", i, old>>} THEN NULL ELSE pub[p]]
    BY <1>1 DEF RouteCallback, Without
  <2>3. QED BY <1>1, <2>1, <2>2, Paths
<1>2. CASE new # NULL /\ old = NULL
  <2>1. new \in Content
    BY <1>2
  <2>2. pub' = [pub EXCEPT ![<<"fib", i, new>>] = new]
    BY <1>2 DEF RouteCallback
  <2>3. DOMAIN pub' = Path /\ \A p \in Path : pub'[p] = IF p = <<"fib", i, new>> THEN new ELSE pub[p]
    BY <2>2
  <2>4. QED BY <1>2, <2>1, <2>3, Paths
<1>3. CASE new # NULL /\ old # NULL
  BY <1>3 DEF RouteCallback
<1>4. QED BY <1>1, <1>2, <1>3

LEMMA DependentEffect ==
    ASSUME DOMAIN pub = Path, NEW i \in Dependent, NEW old, NEW new \in Content \cup {NULL},
           LinkName(i) \in Name \cup {NULL}, DependentCallback(i, old, new)
    PROVE  /\ DOMAIN pub' = Path
           /\ \A p \in Path : p[1] # "entry" \/ p[3] # i => pub'[p] = pub[p]
           /\ \A n \in Name \cup {NULL}, j \in Dependent :
                  j # i => pub'[<<"entry", n, j>>] = pub[<<"entry", n, j>>]
           /\ new = NULL => \A n \in Name \cup {NULL} :
                 /\ pub'[<<"entry", n, i>>] \in {NULL, pub[<<"entry", n, i>>]}
                 /\ n = LinkName(i) /\ n # NULL /\ i \notin Short => pub'[<<"entry", n, i>>] = NULL
           /\ new # NULL => /\ pub'[<<"entry", LinkName(i), i>>] = new
                            /\ \A n \in Name \cup {NULL} : n # LinkName(i) =>
                                  pub'[<<"entry", n, i>>] = pub[<<"entry", n, i>>]
<1>. DEFINE here == LinkName(i)
<1>0. here \in Name \cup {NULL}
  OBVIOUS
<1>1. CASE new = NULL
  <2>1. PICK m \in IF here # NULL THEN {here} ELSE Name \cup {NULL, "none"} :
            pub' = IF i \in Short THEN pub ELSE Without({<<"entry", m, i>>})
    BY <1>1 DEF DependentCallback
  <2>2. CASE i \in Short
    BY <1>1, <2>1, <2>2, Paths
  <2>3. CASE i \notin Short
    <3>1. pub' = [p \in Path |-> IF p \in {<<"entry", m, i>>} THEN NULL ELSE pub[p]]
      BY <2>1, <2>3 DEF Without
    <3>2. here # NULL => m = here
      BY <2>1
    <3> HIDE DEF here
    <3>3. /\ DOMAIN pub' = Path
          /\ \A p \in Path : pub'[p] = IF p = <<"entry", m, i>> THEN NULL ELSE pub[p]
      BY <3>1
    <3>4. /\ \A p \in Path : p[1] # "entry" \/ p[3] # i => pub'[p] = pub[p]
          /\ \A n \in Name \cup {NULL}, j \in Dependent :
                 j # i => pub'[<<"entry", n, j>>] = pub[<<"entry", n, j>>]
      BY <3>3, Paths
    <3>5. \A n \in Name \cup {NULL} :
             /\ pub'[<<"entry", n, i>>] \in {NULL, pub[<<"entry", n, i>>]}
             /\ n = here /\ n # NULL => pub'[<<"entry", n, i>>] = NULL
      BY <3>2, <3>3, Paths
    <3>6. QED BY <1>1, <3>3, <3>4, <3>5 DEF here
  <2>4. QED BY <2>2, <2>3
<1>2. CASE new # NULL
  <2>1. pub' = [pub EXCEPT ![<<"entry", here, i>>] = new]
    BY <1>2 DEF DependentCallback
  <2> HIDE DEF here
  <2>2. DOMAIN pub' = Path /\ \A p \in Path : pub'[p] = IF p = <<"entry", here, i>> THEN new ELSE pub[p]
    BY <2>1
  <2>3. /\ \A p \in Path : p[1] # "entry" \/ p[3] # i => pub'[p] = pub[p]
        /\ \A n \in Name \cup {NULL}, j \in Dependent :
               j # i => pub'[<<"entry", n, j>>] = pub[<<"entry", n, j>>]
        /\ pub'[<<"entry", here, i>>] = new
        /\ \A n \in Name \cup {NULL} : n # here => pub'[<<"entry", n, i>>] = pub[<<"entry", n, i>>]
    BY <1>0, <2>2, Paths
  <2>4. QED BY <1>2, <2>2, <2>3 DEF here
<1>3. QED BY <1>1, <1>2

LEMMA LinkNames ==
    ASSUME TypeOK, \A l \in Link : cache'[l] \in LinkContent \cup {NULL}, NEW i \in Dependent
    PROVE  /\ LinkName(i) \in Name \cup {NULL}
           /\ ~Astray(i) => cache'[On[i]] # NULL /\ LinkName(i) = cache'[On[i]][1] /\ LinkName(i) # NULL
<1>1. On[i] \in Link /\ On[i] \in Id
  BY Members
<1>2. kernel[On[i]] \in LinkContent \cup {NULL} /\ cache'[On[i]] \in LinkContent \cup {NULL}
  BY <1>1, Appearance DEF TypeOK
<1>3. NameIn(kernel, On[i]) \in Name \cup {NULL} /\ NameIn(cache', On[i]) \in Name \cup {NULL}
  BY <1>2, Appearance DEF NameIn
<1>4. LinkName(i) = NameIn(kernel, On[i]) \/ LinkName(i) = NameIn(cache', On[i])
  BY DEF LinkName
<1>5. ~Astray(i) => LinkName(i) # NULL /\ LinkName(i) = NameIn(cache', On[i])
  BY DEF Astray
<1>6. QED BY <1>3, <1>4, <1>5 DEF NameIn

\* A callback changes nothing that is another publisher's, and what it publishes is
\* about its object.
LEMMA CallbackFrame ==
    ASSUME TypeOK, \A l \in Link : cache'[l] \in LinkContent \cup {NULL}, NEW i \in Id,
           NEW old \in Object(i) \cup {NULL}, NEW new \in Object(i) \cup {NULL}, old # new,
           Publishes(i, old, new)
    PROVE  /\ DOMAIN pub' = Path
           /\ \A p \in Path : p \notin PathOf(KindOf[i]) /\ p[1] # "identity" => pub'[p] = pub[p]
           /\ \A p \in Path : p[1] # "identity" /\ pub'[p] # pub[p] => i \in About(p)
<1>1. DOMAIN pub = Path
  BY DEF TypeOK
<1>2. CASE i \in Link
  <2>1. LinkCallback(i, old, new) /\ KindOf[i] = "link" /\ Object(i) = LinkContent
    BY <1>2, Members, Appearance DEF Publishes
  <2>2. /\ DOMAIN pub' = Path
        /\ \A p \in Path : p[1] \notin {"alias", "identity", "status"} => pub'[p] = pub[p]
        /\ \A l \in Link : l # i => pub'[<<"alias", l>>] = pub[<<"alias", l>>]
    BY <1>1, <1>2, <2>1, LinkEffect
  <2>3. ASSUME NEW p \in Path, p[1] # "identity", pub'[p] # pub[p] PROVE i \in About(p)
    <3>1. p[1] = "alias" \/ p[1] = "status"
      BY <2>2, <2>3
    <3>2. CASE p[1] = "status"
      BY <1>2, <3>2 DEF About
    <3>3. CASE p[1] = "alias"
      <4>1. p[2] \in Link /\ p = <<"alias", p[2]>>
        BY <3>3 DEF Path
      <4>2. p[2] = i
        BY <2>2, <2>3, <4>1
      <4>3. QED BY <3>3, <4>2 DEF About
    <3>4. QED BY <3>1, <3>2, <3>3
  <2>4. QED BY <2>1, <2>2, <2>3 DEF PathOf
<1>3. CASE i \in Route
  <2>1. RouteCallback(i, old, new) /\ KindOf[i] = "route" /\ Object(i) = Content
    BY <1>3, Members, Appearance DEF Publishes
  <2>2. /\ DOMAIN pub' = Path /\ \A p \in Path : p[1] # "fib" => pub'[p] = pub[p]
        /\ \A r \in Route, x \in Content : r # i => pub'[<<"fib", r, x>>] = pub[<<"fib", r, x>>]
    BY <1>1, <1>3, <2>1, RouteEffect
  <2>3. ASSUME NEW p \in Path, pub'[p] # pub[p] PROVE i \in About(p)
    <3>1. p[1] = "fib"
      BY <2>2, <2>3
    <3>2. p[2] \in Route /\ p[3] \in Content /\ p = <<"fib", p[2], p[3]>>
      BY <3>1 DEF Path
    <3>3. p[2] = i
      BY <2>2, <2>3, <3>2
    <3>4. QED BY <3>1, <3>3 DEF About
  <2>4. QED BY <2>1, <2>2, <2>3 DEF PathOf
<1>4. CASE i \in Dependent
  <2>1. DependentCallback(i, old, new) /\ Object(i) = Content /\ LinkName(i) \in Name \cup {NULL}
    BY <1>4, Members, Appearance, LinkNames DEF Publishes
  <2>2. DOMAIN pub' = Path /\ \A p \in Path : p[1] # "entry" \/ p[3] # i => pub'[p] = pub[p]
    BY <1>1, <1>4, <2>1, DependentEffect
  <2>3. \A p \in Path : pub'[p] # pub[p] => i \in About(p)
    BY <2>2 DEF About
  <2>4. QED BY <2>2, <2>3 DEF PathOf
<1>5. QED BY <1>2, <1>3, <1>4, Members

\* A tree that is emptied stays so when it is emptied again ...
LEMMA RemainsKept ==
    ASSUME NEW k, Remains(k), late \subseteq late',
           \A p \in PathOf(k) : pub'[p] = pub[p] \/ pub'[p] = NULL
    PROVE  Remains(k)'
BY DEF Remains

\* ... and when another publisher is called back.
LEMMA RemainsOthers ==
    ASSUME TypeOK, \A l \in Link : cache'[l] \in LinkContent \cup {NULL}, NEW i \in Id,
           NEW old \in Object(i) \cup {NULL}, NEW new \in Object(i) \cup {NULL}, old # new,
           Publishes(i, old, new), NEW k \in Kinds, k # KindOf[i], Remains(k), late \subseteq late'
    PROVE  Remains(k)'
<1>1. KindOf[i] \in Kinds
  BY KindAssumption
<1>2. \A p \in PathOf(k) : pub'[p] = pub[p]
  BY <1>1, Apart, CallbackFrame
<1>3. QED BY <1>2, RemainsKept

\* What it records.
LEMMA CallbackRecords ==
    ASSUME TypeOK, NEW i \in Id, NEW old \in Object(i) \cup {NULL}, NEW new \in Object(i) \cup {NULL},
           Callback(i, old, new)
    PROVE  /\ blind' = IF i \in Dependent /\ Astray(i) THEN blind \cup {i} ELSE blind
           /\ moved \subseteq moved' /\ \A j : j # i => (j \in moved' <=> j \in moved)
           /\ old # NULL /\ new # NULL /\ (i \in Route \/ (i \in Link /\ old[1] # new[1])) => i \in moved'
           /\ abandoned \subseteq abandoned'
           /\ i \in Link /\ old # NULL /\ new # NULL /\ old[1] # new[1] => old[1] \in abandoned'
           /\ blind' \subseteq Dependent /\ moved' \subseteq Link \cup Route /\ abandoned' \subseteq Name
<1>1. blind' = IF i \in Dependent /\ Astray(i) THEN blind \cup {i} ELSE blind
  BY DEF Callback
<1>2. /\ moved' = moved \/ (moved' = moved \cup {i} /\ i \in Link \cup Route)
      /\ old # NULL /\ new # NULL /\ (i \in Route \/ (i \in Link /\ old[1] # new[1])) => i \in moved'
  <2>1. CASE old = NULL \/ new = NULL
    BY <2>1 DEF Callback
  <2>2. CASE old # NULL /\ new # NULL /\ i \in Route
    BY <2>2, Members DEF Callback
  <2>3. CASE old # NULL /\ new # NULL /\ i \notin Route
    BY <2>3 DEF Callback
  <2>4. QED BY <2>1, <2>2, <2>3
<1>3. /\ \/ abandoned' = abandoned
         \/ abandoned' = abandoned \cup {old[1]} /\ i \in Link /\ old # NULL
      /\ i \in Link /\ old # NULL /\ new # NULL /\ old[1] # new[1] => old[1] \in abandoned'
  BY DEF Callback
<1>4. i \in Link /\ old # NULL => old[1] \in Name
  BY Appearance
<1>5. QED BY <1>1, <1>2, <1>3, <1>4 DEF TypeOK

------------------------------------------------------------------------------
(* Types, stages and what is cleaned up.                                   *)

LEMMA InitInvariant == Init => IInv
<1> SUFFICES ASSUME Init PROVE IInv
  OBVIOUS
<1>1. TypeOK
  BY OrderParts DEF Init, TypeOK
<1>2. Sent /\ Idle /\ Stage /\ UnderWay /\ Lateness /\ Swept
  BY DEF Init, Sent, Idle, Stage, UnderWay, Lateness, Swept, Over, CleanExit, Up
<1>3. QED BY <1>1, <1>2 DEF IInv

\* The process ends.
LEMMA EndInvariant ==
    ASSUME IInv, NEW how \in {"down", "stopped"}, End(how), UNCHANGED <<kernel, pub>>,
           how = "stopped" => phase = "exit" /\ at = 0
    PROVE  IInv'
<1>1. TypeOK'
  BY OrderParts DEF IInv, TypeOK, End, Forget
<1>2. Sent' /\ Idle' /\ Stage' /\ UnderWay'
  BY DEF End, Forget, Sent, Idle, Stage, UnderWay, Up
<1>3. Lateness'
  BY DEF IInv, Lateness, End
<1>4. Swept'
  <2>1. CASE how = "down"
    BY <2>1 DEF End, Swept, Over, CleanExit
  <2>2. CASE how = "stopped"
    <3>1. \A n \in 1 .. 4 : Remains(Order[n])
      BY <2>2, OrderParts DEF IInv, Swept, Over
    <3>2. \A p \in Path : p[1] # "identity" /\ pub[p] # NULL => \E i \in late : i \in About(p)
      BY <3>1, OrderParts, Publishers DEF Remains
    <3>3. \A i, j \in late : KindOf[i] = KindOf[j] => i = j
      BY DEF IInv, Lateness
    <3>4. late' = late /\ pub' = pub /\ phase' = "stopped"
      BY <2>2 DEF End
    <3>5. CleanExit'
      BY <3>2, <3>3, <3>4 DEF CleanExit
    <3>6. QED BY <3>4, <3>5 DEF Swept, Over
  <2>3. QED BY <2>1, <2>2
<1>5. QED BY <1>1, <1>2, <1>3, <1>4 DEF IInv

LEMMA RegisterInvariant == ASSUME IInv, Register PROVE IInv'
<1>1. /\ phase = "init" /\ at \in 1 .. 4 /\ Order[at] \notin joined /\ Order[at] \in Kinds
      /\ joined' = joined \cup {Order[at]} /\ registered' = registered \cup {Order[at]}
      /\ unseen' = IdOf(Order[at]) /\ UNCHANGED <<kernel, socket, phase, at, calling, late>>
      /\ cache' = [i \in Id |-> IF KindOf[i] = Order[at] THEN kernel[i] ELSE cache[i]]
      /\ pub' = Without(PathOf(Order[at]))
  <2>1. at \in 1 .. 4
    BY OrderParts DEF Register, IInv, TypeOK, Stage
  <2>2. QED BY <2>1, OrderParts DEF Register, callback
<1>2. DOMAIN pub' = Path
  BY <1>1, WithoutPart
<1>3. TypeOK'
  <2>1. /\ cache' \in [Id -> Content \cup LinkContent \cup {NULL}]
        /\ \A i \in Id : {kernel'[i], cache'[i]} \subseteq Object(i) \cup {NULL}
    BY <1>1 DEF IInv, TypeOK
  <2>2. blind' \subseteq Dependent /\ moved' \subseteq Link \cup Route /\ abandoned' \subseteq Name
    BY DEF IInv, TypeOK, Register
  <2>3. unseen' \subseteq Id /\ registered' \subseteq joined' /\ joined' \subseteq Kinds
    BY <1>1 DEF IInv, TypeOK, IdOf
  <2>4. QED BY <1>1, <1>2, <2>1, <2>2, <2>3 DEF IInv, TypeOK
<1>4. Sent' /\ Idle'
  BY <1>1 DEF IInv, Sent, Idle
<1>5. Stage'
  <2>1. /\ registered = joined
        /\ \A n \in 1 .. 4 : n < at => Order[n] \in joined \cup {"link", "route"}
        /\ \A n \in 1 .. 4 : Order[n] \in joined => n <= at
    BY <1>1, OrderParts DEF IInv, Stage, Up
  <2>2. \A n \in 1 .. 4 : Order[n] \in joined' => n <= at
    BY <1>1, <2>1, OrderParts
  <2>3. ASSUME NEW n \in 1 .. 4, n < at PROVE Order[n] \in joined' \cup {"link", "route"}
    <3>1. Order[n] \in joined \cup {"link", "route"}
      BY <2>1, <2>3
    <3>2. joined \subseteq joined'
      BY <1>1
    <3>3. QED BY <3>1, <3>2
  <2>4. registered' = joined' /\ Order[at] \in joined' /\ unseen' \subseteq IdOf(Order[at])
    BY <1>1, <2>1
  <2>5. phase' = "init" /\ at' = at /\ at >= 1 /\ at <= 4
    BY <1>1
  <2>6. QED BY <2>2, <2>3, <2>4, <2>5, OrderParts DEF Stage, Up
<1>6. UnderWay' /\ Lateness'
  BY <1>1 DEF IInv, UnderWay, Lateness
<1>7. Swept'
  <2>1. ASSUME NEW n \in 1 .. 4, Over(n)' PROVE Remains(Order[n])'
    <3>1. Over(n)
      BY <1>1, <2>1 DEF Over
    <3>2. Remains(Order[n])
      BY <3>1, OrderParts DEF IInv, Swept
    <3>3. \A p \in PathOf(Order[n]) : pub'[p] = pub[p] \/ pub'[p] = NULL
      BY <1>1, WithoutPart DEF PathOf
    <3>4. QED BY <1>1, <3>2, <3>3, RemainsKept
  <2>2. QED BY <1>1, <2>1, OrderParts DEF Swept, CleanExit
<1>8. QED BY <1>3, <1>4, <1>5, <1>6, <1>7 DEF IInv

\* A callback in service leaves what is over alone.
LEMMA SweptCallback ==
    ASSUME IInv, \A l \in Link : cache'[l] \in LinkContent \cup {NULL}, NEW i \in Id,
           NEW old \in Object(i) \cup {NULL}, NEW new \in Object(i) \cup {NULL}, old # new,
           Publishes(i, old, new), KindOf[i] \in registered, late \subseteq late',
           UNCHANGED <<phase, at, registered>>, phase # "stopped"
    PROVE  Swept'
<1>1. ASSUME NEW n \in 1 .. 4, Over(n)' PROVE Remains(Order[n])'
  <2>1. Over(n)
    BY <1>1 DEF Over
  <2>2. Remains(Order[n]) /\ Order[n] \in Kinds /\ Order[n] # KindOf[i]
    BY <2>1, OrderParts DEF IInv, Swept, Over
  <2>3. QED BY <2>2, RemainsOthers DEF IInv
<1>2. QED BY <1>1, OrderParts DEF IInv, Swept, CleanExit

LEMMA TellInvariant == ASSUME IInv, Tell PROVE IInv'
<1>1. PICK i \in unseen :
          /\ unseen' = unseen \ {i}
          /\ IF cache[i] = NULL THEN UNCHANGED <<pub, history>> ELSE Callback(i, NULL, cache[i])
  BY DEF Tell
<1>2. phase = "init" /\ UNCHANGED <<kernel, socket, cache, joined, registered, phase, at, calling, late>>
  BY DEF Tell, callback
<1>3. TypeOK /\ i \in Id /\ cache[i] \in Object(i) \cup {NULL} /\ KindOf[i] \in registered
      /\ \A l \in Link : cache'[l] \in LinkContent \cup {NULL}
  <2>1. TypeOK /\ i \in Id /\ cache[i] \in Object(i) \cup {NULL}
        /\ \A l \in Link : cache'[l] \in LinkContent \cup {NULL}
    BY <1>2, Members, Appearance DEF IInv, TypeOK
  <2>2. KindOf[i] \in registered
    BY <1>1, <1>2 DEF IInv, Stage, Up, IdOf
  <2>3. QED BY <2>1, <2>2
<1>4. /\ DOMAIN pub' = Path
      /\ blind' \subseteq Dependent /\ moved' \subseteq Link \cup Route /\ abandoned' \subseteq Name
      /\ Swept'
  <2>1. CASE cache[i] = NULL
    BY <1>1, <1>2, <1>3, <2>1 DEF IInv, TypeOK, Swept, Over, Remains, CleanExit, history
  <2>2. CASE cache[i] # NULL
    <3>1. Callback(i, NULL, cache[i]) /\ Publishes(i, NULL, cache[i])
      BY <1>1, <2>2 DEF Callback
    <3>2. Swept'
      BY <1>2, <1>3, <2>2, <3>1, SweptCallback
    <3>3. QED BY <1>3, <2>2, <3>1, <3>2, CallbackFrame, CallbackRecords
  <2>3. QED BY <2>1, <2>2
<1>5. TypeOK'
  BY <1>1, <1>2, <1>3, <1>4 DEF TypeOK
<1>6. Sent' /\ Idle' /\ Stage' /\ UnderWay' /\ Lateness'
  BY <1>1, <1>2 DEF IInv, Sent, Idle, Stage, UnderWay, Lateness, Up
<1>7. QED BY <1>4, <1>5, <1>6 DEF IInv

LEMMA LifeInvariant ==
    ASSUME IInv, Start \/ Refuse \/ Registered \/ Run \/ Quit \/ Unregister \/ Clean PROVE IInv'
<1>1. /\ UNCHANGED <<kernel, socket, cache, joined, unseen, calling>>
      /\ blind' \subseteq blind /\ moved' \subseteq moved /\ abandoned' \subseteq abandoned
      /\ pub' = pub \/ \E k : pub' = Without(PathOf(k))
      /\ registered' \subseteq registered
      /\ late' = late \/ late' = {}
  BY DEF Start, Refuse, Registered, Run, Quit, Unregister, Clean, Forget, history, callback
<1>2. DOMAIN pub' = Path
  BY <1>1, WithoutPart DEF IInv, TypeOK
<1>3. /\ at' \in 0 .. Len(Order) + 1
      /\ phase' \in {"down", "init", "running", "exit", "stopped"}
  BY OrderParts DEF IInv, TypeOK, Start, Refuse, Registered, Run, Quit, Unregister, Clean
<1>4. TypeOK'
  BY <1>1, <1>2, <1>3 DEF IInv, TypeOK
<1>5. Sent' /\ Idle'
  BY <1>1 DEF IInv, Sent, Idle, Start, Refuse, Registered, Run, Quit, Unregister, Clean
<1>6. Stage'
  <2>1. CASE Start
    <3>1. joined' = {} /\ registered' = {} /\ unseen' = {} /\ phase' = "init" /\ at' = 1
      BY <2>1 DEF IInv, Idle, Start
    <3>2. \A n \in 1 .. 4 : ~(n < 1)
      OBVIOUS
    <3>3. QED BY <3>1, <3>2, OrderParts DEF Stage, Up
  <2>2. CASE Registered \/ Refuse
    <3>1. /\ phase = "init" /\ at \in 1 .. 4 /\ unseen = {}
          /\ UNCHANGED <<joined, registered, unseen>>
          /\ \/ /\ phase' = "init" /\ at' = at + 1
                /\ Order[at] \in joined \cup {"link", "route"}
             \/ phase' = "exit"
      BY <2>2, OrderParts DEF Registered, Refuse, IInv, TypeOK, Stage
    <3>2. \A n \in 1 .. 4 : n < at + 1 => n < at \/ n = at
      BY <3>1
    <3>3. \A n \in 1 .. 4 : n <= at => n <= at + 1
      BY <3>1
    <3>4. QED BY <3>1, <3>2, <3>3, OrderParts DEF IInv, Stage, Up
  <2>3. CASE Run
    <3>1. /\ phase = "init" /\ at > 4 /\ at \in Nat /\ phase' = "running"
          /\ UNCHANGED <<joined, registered, unseen>>
      BY <2>3, OrderParts DEF Run, IInv, TypeOK
    <3>2. \A n \in 1 .. 4 : Order[n] \in joined \cup {"link", "route"}
      BY <3>1, OrderParts DEF IInv, Stage
    <3>3. {"address", "neighbor"} \subseteq joined
      BY <3>2, OrderParts DEF Kinds
    <3>4. unseen = {}
      BY <3>1, OrderParts DEF IInv, Stage
    <3>5. QED BY <3>1, <3>3, <3>4 DEF IInv, Stage, Up
  <2>4. CASE Quit \/ Unregister \/ Clean
    BY <2>4 DEF IInv, Stage, Quit, Unregister, Clean, Up
  <2>5. QED BY <2>1, <2>2, <2>3, <2>4
<1>7. UnderWay' /\ Lateness'
  <2>1. CASE Start
    BY <2>1 DEF IInv, UnderWay, Lateness, Start
  <2>2. CASE Refuse \/ Registered \/ Run \/ Quit
    BY <2>2 DEF IInv, UnderWay, Lateness, Refuse, Registered, Run, Quit, callback
  <2>3. CASE Unregister \/ Clean
    BY <1>1, <2>3 DEF IInv, UnderWay, Lateness, Unregister, Clean, callback
  <2>4. QED BY <2>1, <2>2, <2>3
<1>8. Swept'
  <2>1. CASE Start
    BY <2>1, OrderParts DEF Start, Swept, Over, CleanExit
  <2>2. CASE Run
    <3>1. phase = "init" /\ at > 4 /\ at \in Nat /\ phase' = "running" /\ UNCHANGED <<registered, pub, late>>
      BY <2>2, OrderParts DEF Run, IInv, TypeOK, callback
    <3>2. \A n \in 1 .. 4 : Over(n)' => Over(n)
      BY <3>1 DEF Over
    <3>3. QED BY <3>1, <3>2, OrderParts DEF IInv, Swept, Remains, CleanExit
  <2>3. CASE Registered
    <3>1. /\ phase = "init" /\ phase' = "init" /\ at \in 1 .. 4 /\ at' = at + 1
          /\ Order[at] \in registered /\ UNCHANGED <<registered, pub, late>>
      BY <2>3, OrderParts DEF Registered, IInv, TypeOK, Stage, Up, callback
    <3>2. \A n \in 1 .. 4 : Over(n)' => Over(n)
      <4>1. \A n \in 1 .. 4 : n < at + 1 => n < at \/ n = at
        BY <3>1
      <4>2. QED BY <3>1, <4>1 DEF Over
    <3>3. QED BY <3>1, <3>2, OrderParts DEF IInv, Swept, Remains, CleanExit
  <2>4. CASE Quit \/ (Refuse /\ phase' = "exit")
    <3>1. phase' = "exit" /\ at' = 4
      BY <2>4, OrderParts DEF Quit, Refuse
    <3>2. \A n \in 1 .. 4 : ~(4 < n)
      OBVIOUS
    <3>3. QED BY <3>1, <3>2, OrderParts DEF Swept, Over, CleanExit
  <2>5. CASE Unregister
    <3>1. /\ phase = "exit" /\ at > 0 /\ at \in Nat /\ registered' = registered \ {Order[at]}
          /\ UNCHANGED <<phase, at, pub, late>>
      BY <2>5 DEF Unregister, IInv, TypeOK, callback
    <3>2. \A n \in 1 .. 4 : Over(n)' => Over(n)
      <4>1. ASSUME NEW n \in 1 .. 4, Over(n)' PROVE Over(n)
        <5>1. at < n
          BY <3>1, <4>1 DEF Over
        <5>2. Order[n] \notin registered
          BY <3>1, <5>1, OrderParts DEF IInv, Swept
        <5>3. QED BY <3>1, <5>1, <5>2 DEF Over
      <4>2. QED BY <4>1
    <3>3. QED BY <3>1, <3>2, OrderParts DEF IInv, Swept, Remains, CleanExit
  <2>6. ASSUME Clean \/ (Refuse /\ phase' # "exit") PROVE Swept'
    <3>1. /\ at \in 1 .. 5 /\ Order[at] \notin registered /\ pub' = Without(PathOf(Order[at]))
          /\ UNCHANGED <<phase, registered, late>>
          /\ \/ phase = "exit" /\ at' = at - 1
             \/ phase = "init" /\ at' = at + 1
      <4>1. CASE Clean
        BY <4>1, OrderParts DEF Clean, IInv, TypeOK, callback
      <4>2. CASE Refuse /\ phase' # "exit"
        BY <4>2, OrderParts DEF Refuse, IInv, TypeOK, Stage, Up, callback
      <4>3. QED BY <2>6, <4>1, <4>2
    <3>2. /\ \A p \in PathOf(Order[at]) : pub'[p] = NULL
          /\ \A p \in Path : pub'[p] = NULL \/ pub'[p] = pub[p]
      BY <3>1, WithoutPart
    <3>3. ASSUME NEW n \in 1 .. 4, Over(n)' PROVE Remains(Order[n])'
      <4>1. CASE n = at
        BY <3>2, <4>1 DEF Remains
      <4>2. CASE n # at
        <5>1. Over(n)
          BY <3>1, <3>3, <4>2 DEF Over
        <5>2. Remains(Order[n])
          BY <5>1, OrderParts DEF IInv, Swept
        <5>3. \A p \in PathOf(Order[n]) : pub'[p] = pub[p] \/ pub'[p] = NULL
          BY <3>2 DEF PathOf
        <5>4. QED BY <3>1, <5>2, <5>3, RemainsKept
      <4>3. QED BY <4>1, <4>2
    <3>4. phase' = "exit" => \A n \in at' + 1 .. 4 : Order[n] \notin registered'
      <4>1. ASSUME phase = "exit", NEW n \in at .. 4 PROVE Order[n] \notin registered
        <5>1. n = at \/ n \in at + 1 .. 4
          BY <3>1, <4>1
        <5>2. QED BY <3>1, <4>1, <5>1, OrderParts DEF IInv, Swept
      <4>2. phase = "exit" => at' + 1 = at
        BY <3>1
      <4>3. QED BY <3>1, <4>1, <4>2
    <3>5. QED BY <3>1, <3>3, <3>4, OrderParts DEF Swept, CleanExit
  <2>7. QED BY <2>1, <2>2, <2>3, <2>4, <2>5, <2>6
<1>9. QED BY <1>4, <1>5, <1>6, <1>7, <1>8 DEF IInv

\* What a notification does when the process survives it: a callback, the beginning
\* of one, or none.
Does(i, x) ==
    /\ socket' = Tail(socket) /\ cache' = [cache EXCEPT ![i] = x] /\ UNCHANGED <<life, late>>
    /\ \/ /\ cache[i] # x /\ KindOf[i] \in registered /\ phase # "exit"
          /\ Callback(i, cache[i], x) /\ calling' = NULL
       \/ /\ cache[i] # x /\ KindOf[i] \in registered /\ phase = "exit"
          /\ UNCHANGED <<pub, history>> /\ calling' = <<i, cache[i], x>>
       \/ /\ cache[i] = x \/ KindOf[i] \notin registered
          /\ UNCHANGED <<pub, history>> /\ calling' = NULL

LEMMA ReceiveParts ==
    ASSUME IInv, Receive
    PROVE  \E i \in Id : \E x \in Object(i) \cup {NULL} :
               /\ socket # <<>> /\ Head(socket) = <<i, x>> /\ Running /\ UNCHANGED kernel
               /\ (End("down") /\ UNCHANGED pub) \/ Does(i, x)
<1>1. PICK m : m = Head(socket)
  OBVIOUS
<1>2. socket # <<>> /\ socket \in Seq(Id \X Looks) /\ Running /\ UNCHANGED kernel
  BY DEF Receive, IInv, Sent
<1>3. m = <<m[1], m[2]>> /\ m[1] \in Id /\ m[2] \in Object(m[1]) \cup {NULL}
  <2>1. m = socket[1] /\ m \in Id \X Looks /\ 1 \in 1 .. Len(socket)
    BY <1>1, <1>2, TailIndices
  <2>2. m[2] \in Object(m[1]) \cup {NULL}
    BY <2>1 DEF IInv, TypeOK
  <2>3. QED BY <2>1, <2>2
<1>4. (End("down") /\ UNCHANGED pub) \/ Does(m[1], m[2])
  BY <1>1 DEF Receive, Does
<1>5. PICK i, x : i = m[1] /\ x = m[2]
  OBVIOUS
<1>6. /\ i \in Id /\ x \in Object(i) \cup {NULL} /\ Head(socket) = <<i, x>>
      /\ (End("down") /\ UNCHANGED pub) \/ Does(i, x)
  BY <1>1, <1>3, <1>4, <1>5
<1>7. QED BY <1>2, <1>6

LEMMA ReceiveInvariant == ASSUME IInv, Receive PROVE IInv'
<1>1. PICK i \in Id : \E x \in Object(i) \cup {NULL} :
               /\ socket # <<>> /\ Head(socket) = <<i, x>> /\ Running /\ UNCHANGED kernel
               /\ (End("down") /\ UNCHANGED pub) \/ Does(i, x)
  BY ReceiveParts
<1>2. PICK x \in Object(i) \cup {NULL} :
               /\ socket # <<>> /\ Running /\ UNCHANGED kernel
               /\ (End("down") /\ UNCHANGED pub) \/ Does(i, x)
  BY <1>1
<1>3. CASE End("down") /\ UNCHANGED pub
  BY <1>2, <1>3, EndInvariant
<1>4. CASE Does(i, x)
  <2>1. /\ TypeOK /\ cache[i] \in Object(i) \cup {NULL}
        /\ socket' = Tail(socket) /\ cache' = [cache EXCEPT ![i] = x]
        /\ UNCHANGED <<joined, registered, phase, at, unseen, late>>
    BY <1>4 DEF IInv, TypeOK, Does, life
  <2>2. /\ cache' \in [Id -> Content \cup LinkContent \cup {NULL}]
        /\ cache'[i] = x /\ \A j \in Id : j # i => cache'[j] = cache[j]
    BY <2>1, Appearance DEF TypeOK, Looks
  <2>3. \A j \in Id : cache'[j] \in Object(j) \cup {NULL}
    BY <2>1, <2>2 DEF TypeOK
  <2>4. \A l \in Link : cache'[l] \in LinkContent \cup {NULL}
    BY <2>3, Members, Appearance
  <2>5. /\ DOMAIN pub' = Path
        /\ blind' \subseteq Dependent /\ moved' \subseteq Link \cup Route /\ abandoned' \subseteq Name
        /\ Swept'
    <3>1. CASE UNCHANGED <<pub, history>>
      <4>1. Swept'
        BY <1>2, <2>1, <3>1 DEF IInv, Swept, Over, Remains, CleanExit
      <4>2. QED BY <2>1, <3>1, <4>1 DEF TypeOK, history
    <3>2. CASE cache[i] # x /\ KindOf[i] \in registered /\ Callback(i, cache[i], x)
      <4>1. Publishes(i, cache[i], x) /\ phase # "stopped"
        BY <1>2, <3>2 DEF Callback, Running
      <4>2. Swept'
        BY <2>1, <2>4, <3>2, <4>1, SweptCallback
      <4>3. QED BY <2>1, <2>4, <3>2, <4>1, <4>2, CallbackFrame, CallbackRecords
    <3>3. QED BY <1>4, <3>1, <3>2 DEF Does
  <2>6. socket' \in Seq(Id \X Looks) /\ Len(socket') = Len(socket) - 1 /\ Len(socket) \in Nat
        /\ \A n \in 1 .. Len(socket') : n + 1 \in 1 .. Len(socket) /\ socket'[n] = socket[n + 1]
    BY <1>2, <2>1, TailIndices DEF IInv, Sent
  <2>7. calling' # NULL => /\ calling' = <<i, cache[i], x>> /\ phase = "exit"
                           /\ cache[i] # x /\ KindOf[i] \in registered
    BY <1>4 DEF Does
  <2>8. calling' # NULL => /\ calling'[1] = i /\ calling'[2] = cache[i] /\ calling'[3] = x
    BY <2>7
  <2>9. TypeOK'
    <3>1. \A j \in Id : {kernel'[j], cache'[j]} \subseteq Object(j) \cup {NULL}
      BY <1>2, <2>1, <2>3 DEF TypeOK
    <3>2. \A n \in 1 .. Len(socket') :
             socket'[n][1] \in Id /\ socket'[n][2] \in Object(socket'[n][1]) \cup {NULL}
      BY <2>1, <2>6 DEF TypeOK
    <3>3. calling' # NULL => /\ calling'[1] \in Id
                             /\ {calling'[2], calling'[3]} \subseteq Object(calling'[1]) \cup {NULL}
      BY <2>1, <2>8
    <3>4. QED BY <1>2, <2>1, <2>2, <2>5, <3>1, <3>2, <3>3 DEF TypeOK
  <2>10. Sent' /\ Idle' /\ Stage' /\ Lateness'
    BY <1>2, <2>1, <2>6 DEF IInv, Sent, Idle, Stage, Lateness, Running, Up
  <2>11. UnderWay'
    BY <2>1, <2>7, <2>8 DEF IInv, UnderWay, Lateness
  <2>12. QED BY <2>5, <2>9, <2>10, <2>11 DEF IInv
<1>5. QED BY <1>2, <1>3, <1>4

\* A callback that ends during the exit is late if its publisher has cleaned up.
LEMMA ReturnInvariant == ASSUME IInv, Return PROVE IInv'
<1>1. PICK i : i = calling[1]
  OBVIOUS
<1>2. PICK old, new : old = calling[2] /\ new = calling[3]
  OBVIOUS
<1>3. /\ TypeOK /\ i \in Id /\ old \in Object(i) \cup {NULL} /\ new \in Object(i) \cup {NULL}
      /\ old # new /\ phase = "exit" /\ Publishes(i, old, new)
      /\ \A j \in late : KindOf[j] # KindOf[i]
      /\ UNCHANGED <<kernel, socket, cache, joined, registered, phase, at, unseen, blind, moved, abandoned>>
      /\ calling' = NULL
      /\ late' = IF \E n \in at + 1 .. 4 : Order[n] = KindOf[i] THEN late \cup {i} ELSE late
  BY <1>1, <1>2, OrderParts DEF IInv, TypeOK, UnderWay, Return, life, history
<1>4. \A l \in Link : cache'[l] \in LinkContent \cup {NULL}
  BY <1>3, Members, Appearance DEF TypeOK
<1>5. late' \subseteq Id /\ late \subseteq late'
  BY <1>3 DEF TypeOK
<1>6. /\ DOMAIN pub' = Path
      /\ \A p \in Path : p[1] # "identity" /\ pub'[p] # pub[p] => i \in About(p)
  BY <1>3, <1>4, CallbackFrame
<1>7. TypeOK'
  BY <1>3, <1>5, <1>6 DEF TypeOK
<1>8. Sent' /\ Idle' /\ Stage' /\ UnderWay'
  BY <1>3 DEF IInv, Sent, Idle, Stage, UnderWay, Up
<1>9. Lateness'
  <2>1. i \in late' => KindOf[i] \notin registered \/ i \in late
    BY <1>3, OrderParts DEF IInv, Swept
  <2>2. QED BY <1>3, <2>1 DEF IInv, Lateness
<1>10. Swept'
  <2>1. ASSUME NEW n \in 1 .. 4, Over(n)' PROVE Remains(Order[n])'
    <3>1. Over(n) /\ n \in at + 1 .. 4 /\ Order[n] \in Kinds
      BY <1>3, <2>1, OrderParts DEF Over, TypeOK
    <3>2. Remains(Order[n])
      BY <3>1, OrderParts DEF IInv, Swept
    <3>3. CASE Order[n] = KindOf[i]
      <4>1. i \in late'
        BY <1>3, <3>1, <3>3
      <4>2. ASSUME NEW p \in PathOf(Order[n]), pub'[p] # NULL PROVE \E j \in late' : j \in About(p)
        <5>1. p \in Path /\ p[1] # "identity"
          BY <3>1 DEF PathOf, Kinds
        <5>2. CASE pub'[p] = pub[p]
          BY <1>5, <3>2, <4>2, <5>2 DEF Remains
        <5>3. CASE pub'[p] # pub[p]
          BY <1>6, <4>1, <5>1, <5>3
        <5>4. QED BY <5>2, <5>3
      <4>3. QED BY <4>2 DEF Remains, About
    <3>4. CASE Order[n] # KindOf[i]
      BY <1>3, <1>4, <1>5, <3>1, <3>2, <3>4, RemainsOthers
    <3>5. QED BY <3>3, <3>4
  <2>2. QED BY <1>3, <2>1, OrderParts DEF IInv, Swept, CleanExit
<1>11. QED BY <1>7, <1>8, <1>9, <1>10 DEF IInv

LEMMA KernelParts ==
    ASSUME IInv, KernelChange
    PROVE  \E i \in Id : \E x \in Object(i) \cup {NULL} :
               /\ x # kernel[i] /\ Allowed(i, x)
               /\ kernel'[i] = x /\ \A j \in Id : j # i => kernel'[j] = kernel[j]
               /\ kernel' \in [Id -> Content \cup LinkContent \cup {NULL}]
               /\ <<i, x>> \in Id \X Looks
               /\ IF Running /\ KindOf[i] \in joined THEN socket' = Append(socket, <<i, x>>)
                                                     ELSE UNCHANGED socket
               /\ UNCHANGED <<cache, life, pub, history, callback>>
<1>1. PICK i \in Id : \E x \in Object(i) \cup {NULL} :
          /\ x # kernel[i] /\ Allowed(i, x)
          /\ kernel' = [kernel EXCEPT ![i] = x]
          /\ IF Running /\ KindOf[i] \in joined
                 THEN Len(socket) < SocketSize /\ socket' = Append(socket, <<i, x>>)
                 ELSE UNCHANGED socket
  BY DEF KernelChange
<1>2. PICK x \in Object(i) \cup {NULL} :
          /\ x # kernel[i] /\ Allowed(i, x)
          /\ kernel' = [kernel EXCEPT ![i] = x]
          /\ IF Running /\ KindOf[i] \in joined THEN socket' = Append(socket, <<i, x>>)
                                                ELSE UNCHANGED socket
  BY <1>1
<1>3. UNCHANGED <<cache, life, pub, history, callback>>
  BY DEF KernelChange
<1>4. x \in Looks
  BY Appearance DEF Looks
<1>5. /\ kernel'[i] = x /\ \A j \in Id : j # i => kernel'[j] = kernel[j]
      /\ kernel' \in [Id -> Content \cup LinkContent \cup {NULL}]
  BY <1>2, <1>4 DEF IInv, TypeOK, Looks
<1>6. QED BY <1>2, <1>3, <1>4, <1>5

LEMMA KernelInvariant == ASSUME IInv, KernelChange PROVE IInv'
<1>1. PICK i \in Id : \E x \in Object(i) \cup {NULL} :
               /\ kernel'[i] = x /\ \A j \in Id : j # i => kernel'[j] = kernel[j]
               /\ kernel' \in [Id -> Content \cup LinkContent \cup {NULL}]
               /\ <<i, x>> \in Id \X Looks
               /\ IF Running /\ KindOf[i] \in joined THEN socket' = Append(socket, <<i, x>>)
                                                     ELSE UNCHANGED socket
               /\ UNCHANGED <<cache, life, pub, history, callback>>
  BY KernelParts
<1>2. PICK x \in Object(i) \cup {NULL} :
               /\ kernel'[i] = x /\ \A j \in Id : j # i => kernel'[j] = kernel[j]
               /\ kernel' \in [Id -> Content \cup LinkContent \cup {NULL}]
               /\ <<i, x>> \in Id \X Looks
               /\ IF Running /\ KindOf[i] \in joined THEN socket' = Append(socket, <<i, x>>)
                                                     ELSE UNCHANGED socket
               /\ UNCHANGED <<cache, life, pub, history, callback>>
  BY <1>1
<1>3. /\ socket' \in Seq(Id \X Looks)
      /\ \A n \in 1 .. Len(socket') :
            socket'[n][1] \in Id /\ socket'[n][2] \in Object(socket'[n][1]) \cup {NULL}
      /\ ~Running => UNCHANGED socket
  <2>1. socket \in Seq(Id \X Looks) /\ \A n \in 1 .. Len(socket) :
            socket[n][1] \in Id /\ socket[n][2] \in Object(socket[n][1]) \cup {NULL}
    BY DEF IInv, Sent, TypeOK
  <2>2. CASE UNCHANGED socket
    BY <2>1, <2>2
  <2>3. CASE socket' = Append(socket, <<i, x>>) /\ Running
    <3>1. /\ socket' \in Seq(Id \X Looks) /\ Len(socket) \in Nat /\ Len(socket') = Len(socket) + 1
          /\ \A n \in 1 .. Len(socket) : socket'[n] = socket[n]
          /\ socket'[Len(socket) + 1] = <<i, x>>
      BY <1>2, <2>1, <2>3, AppendIndices
    <3>2. \A n \in 1 .. Len(socket') : n \in 1 .. Len(socket) \/ n = Len(socket) + 1
      BY <3>1
    <3>3. QED BY <2>1, <2>3, <3>1, <3>2
  <2>4. QED BY <1>2, <2>2, <2>3
<1>4. TypeOK'
  <2>1. \A j \in Id : {kernel'[j], cache'[j]} \subseteq Object(j) \cup {NULL}
    BY <1>2 DEF IInv, TypeOK
  <2>2. QED BY <1>2, <1>3, <2>1 DEF IInv, TypeOK, life, history, callback
<1>5. Sent' /\ Idle' /\ Stage'
  BY <1>2, <1>3 DEF IInv, Sent, Idle, Stage, Up, Running, life, history
<1>6. UnderWay' /\ Lateness' /\ Swept'
  BY <1>2 DEF IInv, UnderWay, Lateness, Swept, Over, Remains, CleanExit, life, callback
<1>7. QED BY <1>4, <1>5, <1>6 DEF IInv

LEMMA InvariantNext == IInv /\ [Next]_vars => IInv'
<1> SUFFICES ASSUME IInv, [Next]_vars PROVE IInv'
  OBVIOUS
<1>1. CASE UNCHANGED vars
  <2>1. TypeOK' /\ Sent' /\ Idle' /\ Stage'
    BY <1>1 DEF IInv, TypeOK, Sent, Idle, Stage, Up, vars, life, history, callback
  <2>2. UnderWay' /\ Lateness' /\ Swept'
    BY <1>1 DEF IInv, UnderWay, Lateness, Swept, Over, Remains, CleanExit, vars, life, callback
  <2>3. QED BY <2>1, <2>2 DEF IInv
<1>2. CASE Stopped \/ Crash
  BY <1>2, EndInvariant DEF Stopped, Crash
<1>3. QED
  BY <1>1, <1>2, LifeInvariant, RegisterInvariant, TellInvariant, ReceiveInvariant, ReturnInvariant,
     KernelInvariant
  DEF Next, MainStep

LEMMA InvariantAlways == Spec => []IInv
BY InitInvariant, InvariantNext, PTL DEF Spec

\* The types are right: no callback gets an object of another kind.
THEOREM TypeCorrect == Spec => []TypeOK
<1>1. IInv => TypeOK
  BY DEF IInv
<1>2. QED BY <1>1, InvariantAlways, PTL

\* A daemon that has exited leaves nothing published but identities, and what one
\* callback of each kind publishes that was under way when its publisher unregistered.
THEOREM AlwaysCleanExit == Spec => []CleanExit
<1>1. IInv => CleanExit
  BY DEF IInv, Swept
<1>2. QED BY <1>1, InvariantAlways, PTL

------------------------------------------------------------------------------
(* How far the caches are behind.                                          *)

\* The cache takes in what has become of object i ...
Takes(i, x) ==
    /\ socket # <<>> /\ Head(socket)[1] = i /\ Head(socket)[2] = x /\ socket' = Tail(socket)
    /\ cache'[i] = x /\ \A j \in Id : j # i => cache'[j] = cache[j]
    /\ UNCHANGED <<kernel, joined>>

\* ... and what becomes of it.
Becomes(i, x) ==
    /\ x # kernel[i] /\ Allowed(i, x)
    /\ kernel'[i] = x /\ \A j \in Id : j # i => kernel'[j] = kernel[j]
    /\ IF KindOf[i] \in joined
           THEN <<i, x>> \in Id \X Looks /\ socket' = Append(socket, <<i, x>>)
           ELSE UNCHANGED socket
    /\ UNCHANGED <<cache, joined>>

\* A kind is joined.
Joins(k) ==
    /\ k \in Kinds /\ k \notin joined /\ joined' = joined \cup {k}
    /\ \A i \in Id : cache'[i] = IF KindOf[i] = k THEN kernel[i] ELSE cache[i]
    /\ UNCHANGED <<kernel, socket>>

LEMMA Moves ==
    ASSUME IInv, [Next]_vars, Up'
    PROVE  \/ /\ joined' = {} /\ socket' = <<>> /\ \A i \in Id : cache'[i] = NULL
              /\ ~Up /\ UNCHANGED kernel
           \/ Up /\ \E k \in Kinds : Joins(k)
           \/ Up /\ \E i \in Id : \E x \in Object(i) \cup {NULL} : Takes(i, x)
           \/ Up /\ \E i \in Id : \E x \in Object(i) \cup {NULL} : Becomes(i, x)
           \/ Up /\ UNCHANGED <<kernel, socket, cache, joined>>
<1>1. CASE Start
  BY <1>1 DEF IInv, Idle, Start, Up
<1>2. CASE Register
  <2>1. at \in 1 .. 4 /\ Up
    BY <1>2, OrderParts DEF Register, IInv, TypeOK, Stage, Up
  <2>2. Joins(Order[at])
    BY <1>2, <2>1, OrderParts DEF Register, Joins
  <2>3. QED BY <2>1, <2>2, OrderParts
<1>3. CASE Receive
  <2>1. PICK i \in Id : \E x \in Object(i) \cup {NULL} :
               /\ socket # <<>> /\ Head(socket) = <<i, x>> /\ Running /\ UNCHANGED kernel
               /\ (End("down") /\ UNCHANGED pub) \/ Does(i, x)
    BY <1>3, ReceiveParts
  <2>2. ~End("down")
    BY DEF End, Up
  <2>3. PICK x \in Object(i) \cup {NULL} :
               /\ socket # <<>> /\ Head(socket) = <<i, x>> /\ UNCHANGED kernel
               /\ socket' = Tail(socket) /\ cache' = [cache EXCEPT ![i] = x] /\ UNCHANGED life
    BY <2>1, <2>2 DEF Does
  <2>4. cache'[i] = x /\ \A j \in Id : j # i => cache'[j] = cache[j]
    BY <2>3 DEF IInv, TypeOK
  <2>5. Takes(i, x) /\ Up
    BY <2>3, <2>4 DEF Takes, life, Up
  <2>6. QED BY <2>5
<1>4. CASE KernelChange
  <2>1. PICK i \in Id : \E x \in Object(i) \cup {NULL} :
               /\ x # kernel[i] /\ Allowed(i, x)
               /\ kernel'[i] = x /\ \A j \in Id : j # i => kernel'[j] = kernel[j]
               /\ kernel' \in [Id -> Content \cup LinkContent \cup {NULL}]
               /\ <<i, x>> \in Id \X Looks
               /\ IF Running /\ KindOf[i] \in joined THEN socket' = Append(socket, <<i, x>>)
                                                     ELSE UNCHANGED socket
               /\ UNCHANGED <<cache, life, pub, history, callback>>
    BY <1>4, KernelParts
  <2>2. Up /\ Running
    BY <2>1 DEF life, Up, Running
  <2>3. \E x \in Object(i) \cup {NULL} : Becomes(i, x)
    BY <2>1, <2>2 DEF Becomes, life
  <2>4. QED BY <2>2, <2>3
<1>5. CASE Stopped \/ Crash \/ Quit \/ Unregister \/ Clean \/ Return
  BY <1>5 DEF Stopped, Crash, Quit, Unregister, Clean, Return, End, Up, IInv, UnderWay, life
<1>6. CASE Refuse \/ Tell \/ Registered \/ Run
  BY <1>6 DEF Refuse, Tell, Registered, Run, Up
<1>7. CASE UNCHANGED vars
  BY <1>7 DEF vars, life, Up
<1>8. QED BY <1>1, <1>2, <1>3, <1>4, <1>5, <1>6, <1>7 DEF Next, MainStep

LEMMA SoundNext == IInv /\ Sound /\ [Next]_vars => Sound'
<1> SUFFICES ASSUME IInv, Sound, [Next]_vars PROVE Sound'
  OBVIOUS
<1>1. CASE KernelChange
  <2>1. PICK i \in Id : \E x \in Object(i) \cup {NULL} :
               /\ x # kernel[i] /\ Allowed(i, x)
               /\ kernel'[i] = x /\ \A j \in Id : j # i => kernel'[j] = kernel[j]
    BY <1>1, KernelParts
  <2>2. PICK x : /\ Allowed(i, x)
                 /\ kernel'[i] = x /\ \A j \in Id : j # i => kernel'[j] = kernel[j]
    BY <2>1
  <2>3. ASSUME NEW l \in Link, NEW m \in Link, l # m, kernel'[l] # NULL, kernel'[m] # NULL
        PROVE  kernel'[l][1] # kernel'[m][1]
    BY <2>2, <2>3, Members DEF Sound, Allowed
  <2>4. ASSUME NEW j \in Dependent, kernel'[j] # NULL PROVE kernel'[On[j]] # NULL
    BY <2>2, <2>4, Members DEF Sound, Allowed
  <2>5. QED BY <2>3, <2>4 DEF Sound
<1>2. CASE UNCHANGED kernel
  BY <1>2 DEF Sound
<1>3. UNCHANGED kernel \/ KernelChange
  BY DEF Next, MainStep, Start, Register, Refuse, Tell, Registered, Run, Quit, Unregister, Clean,
         Stopped, Crash, Receive, Return, vars
<1>4. QED BY <1>1, <1>2, <1>3

LEMMA NotifiedNext == IInv /\ Notified /\ [Next]_vars => Notified'
<1> SUFFICES ASSUME IInv, Notified, [Next]_vars, Up' PROVE Notified'
  BY DEF Notified
<1>0. socket \in Seq(Id \X Looks)
  BY DEF IInv, Sent
<1>1. CASE joined' = {} /\ socket' = <<>> /\ \A i \in Id : cache'[i] = NULL
  BY <1>1, EmptyQueue DEF Notified
<1>2. ASSUME Up, NEW k \in Kinds, Joins(k) PROVE Notified'
  <2>1. \A i : ~Of(socket, i) => Says(socket, i, kernel[i])
    BY DEF Of, Says
  <2>2. QED BY <1>2, <2>1 DEF Notified, Joins
<1>3. ASSUME Up, NEW i \in Id, NEW x \in Object(i) \cup {NULL}, Takes(i, x) PROVE Notified'
  <2>1. /\ socket # <<>> /\ Head(socket)[1] = i /\ Head(socket)[2] = x /\ socket' = Tail(socket)
        /\ cache'[i] = x /\ \A j \in Id : j # i => cache'[j] = cache[j]
        /\ UNCHANGED <<kernel, joined>>
    BY <1>3 DEF Takes
  <2>2. \A j : Of(socket, j) <=> Of(socket', j) \/ j = i
    BY <1>0, <2>1, TailOf
  <2>3. ASSUME NEW j \in Id, KindOf[j] \in joined
        PROVE  Says(socket', j, kernel'[j]) /\ (cache'[j] # kernel'[j] => Of(socket', j))
    <3>1. Says(socket, j, kernel[j]) /\ (cache[j] # kernel[j] => Of(socket, j))
      BY <1>3, <2>3 DEF Notified
    <3>2. Says(socket', j, kernel[j]) /\ (i = j => x = kernel[j] \/ Of(socket', j))
      BY <1>0, <2>1, <3>1, TailSays
    <3>3. QED BY <2>1, <2>2, <3>1, <3>2
  <2>4. ASSUME NEW j \in Id, KindOf[j] \notin joined PROVE cache'[j] = NULL /\ ~Of(socket', j)
    BY <1>3, <2>1, <2>2, <2>4 DEF Notified
  <2>5. QED BY <2>1, <2>3, <2>4 DEF Notified
<1>4. ASSUME Up, NEW i \in Id, NEW x \in Object(i) \cup {NULL}, Becomes(i, x) PROVE Notified'
  <2>1. /\ kernel'[i] = x /\ \A j \in Id : j # i => kernel'[j] = kernel[j]
        /\ UNCHANGED <<cache, joined>>
    BY <1>4 DEF Becomes
  <2>2. CASE KindOf[i] \in joined
    <3>1. /\ <<i, x>> \in Id \X Looks /\ socket' = Append(socket, <<i, x>>)
          /\ <<i, x>>[1] = i /\ <<i, x>>[2] = x
      BY <1>4, <2>2 DEF Becomes
    <3>2. Says(socket', i, x) /\ \A j, y : j # i /\ Says(socket, j, y) => Says(socket', j, y)
      BY <1>0, <3>1, AppendSays, Zenon
    <3>3. \A j : Of(socket', j) <=> Of(socket, j) \/ j = i
      BY <1>0, <3>1, AppendOf, Zenon
    <3>4. QED BY <1>4, <2>1, <2>2, <3>2, <3>3 DEF Notified
  <2>3. CASE KindOf[i] \notin joined
    <3>1. UNCHANGED socket
      BY <1>4, <2>3 DEF Becomes
    <3>2. QED BY <1>4, <2>1, <2>3, <3>1 DEF Notified
  <2>4. QED BY <2>2, <2>3
<1>5. CASE Up /\ UNCHANGED <<kernel, socket, cache, joined>>
  BY <1>5 DEF Notified
<1>6. QED BY <1>1, <1>2, <1>3, <1>4, <1>5, Moves

\* Where the caches will get to in the end.
LEMMA InTheEnd ==
    ASSUME Sent', Notified', Up', NEW i \in Id, NEW x, After(cache', socket', Len(socket'), i, x)
    PROVE  IF KindOf[i] \in joined' THEN x = kernel'[i] ELSE x = NULL
<1>1. socket' \in Seq(Id \X Looks) /\ Len(socket') \in 0 .. Len(socket')
  BY DEF Sent
<1>2. CASE KindOf[i] \in joined'
  <2>1. Says(socket', i, kernel'[i]) /\ (cache'[i] # kernel'[i] => Of(socket', i))
    BY <1>2 DEF Notified
  <2>2. QED BY <1>1, <1>2, <2>1, AfterAll
<1>3. CASE KindOf[i] \notin joined'
  <2>1. cache'[i] = NULL /\ ~Of(socket', i)
    BY <1>3 DEF Notified
  <2>2. QED BY <1>1, <1>3, <2>1, AfterNever
<1>4. QED BY <1>2, <1>3

\* When an update is appended, the states before it are the same as ever.
LEMMA Becoming ==
    ASSUME Sent, NEW i \in Id, NEW x, Becomes(i, x), KindOf[i] \in joined
    PROVE  /\ Len(socket) \in Nat /\ Len(socket') = Len(socket) + 1
           /\ socket'[Len(socket')][1] = i /\ socket'[Len(socket')][2] = x
           /\ \A n \in 1 .. Len(socket) : socket'[n] = socket[n]
           /\ \A n \in 0 .. Len(socket) : \A j, y :
                  After(cache', socket', n, j, y) => After(cache, socket, n, j, y)
<1>1. /\ socket \in Seq(Id \X Looks) /\ <<i, x>> \in Id \X Looks /\ socket' = Append(socket, <<i, x>>)
      /\ UNCHANGED cache
  BY DEF Sent, Becomes
<1>2. /\ Len(socket) \in Nat /\ Len(socket') = Len(socket) + 1
      /\ \A n \in 1 .. Len(socket) : socket'[n] = socket[n]
      /\ socket'[Len(socket) + 1] = <<i, x>>
  BY <1>1, AppendIndices
<1>3. \A n \in 0 .. Len(socket) : \A j, y :
          After(cache, Append(socket, <<i, x>>), n, j, y) => After(cache, socket, n, j, y)
  BY <1>1, AfterAppend
<1>4. socket'[Len(socket')] = <<i, x>>
  BY <1>2
<1>5. socket'[Len(socket')][1] = i /\ socket'[Len(socket')][2] = x
  BY <1>4
<1>6. \A n \in 0 .. Len(socket) : \A j, y :
          After(cache', socket', n, j, y) => After(cache, socket, n, j, y)
  BY <1>1, <1>3, Zenon
<1>7. QED BY <1>2, <1>5, <1>6

\* When one is taken in, the states that follow are the same as ever.
LEMMA Taking ==
    ASSUME Sent, NEW i \in Id, NEW x, Takes(i, x)
    PROVE  /\ Len(socket) \in Nat /\ Len(socket) >= 1 /\ Len(socket') = Len(socket) - 1
           /\ socket[1][1] = i /\ socket[1][2] = x
           /\ \A n \in 1 .. Len(socket') : socket'[n] = socket[n + 1]
           /\ \A n \in 0 .. Len(socket') : \A j \in Id : \A y :
                  After(cache', socket', n, j, y) => After(cache, socket, n + 1, j, y)
<1>1. /\ socket \in Seq(Id \X Looks) /\ socket # <<>> /\ socket' = Tail(socket)
      /\ Head(socket)[1] = i /\ Head(socket)[2] = x
      /\ cache'[i] = x /\ \A j \in Id : j # i => cache'[j] = cache[j]
  BY DEF Sent, Takes
<1>2. /\ Len(socket) \in Nat /\ Len(socket) >= 1 /\ Len(socket') = Len(socket) - 1
      /\ socket[1] = Head(socket)
      /\ \A n \in 1 .. Len(socket') : socket'[n] = socket[n + 1]
  BY <1>1, TailIndices
<1>3. ASSUME NEW n \in 0 .. Len(socket'), NEW j \in Id, NEW y, After(cache', socket', n, j, y)
      PROVE  After(cache, socket, n + 1, j, y)
  <2>1. cache'[j] = IF j = Head(socket)[1] THEN Head(socket)[2] ELSE cache[j]
    BY <1>1
  <2>2. n \in 0 .. Len(Tail(socket)) /\ After(cache', Tail(socket), n, j, y)
    BY <1>1, <1>3
  <2>3. QED BY <1>1, <2>1, <2>2, AfterTail
<1>4. QED BY <1>1, <1>2, <1>3

\* When a kind is joined, its objects will stay as they are.
LEMMA Joining ==
    ASSUME Sent, Notified, Up, NEW k \in Kinds, Joins(k)
    PROVE  \A n \in 0 .. Len(socket) : \A j \in Id : \A y : After(cache', socket', n, j, y) =>
               IF KindOf[j] = k THEN y = kernel[j] ELSE After(cache, socket, n, j, y)
<1> SUFFICES ASSUME NEW n \in 0 .. Len(socket), NEW j \in Id, NEW y, After(cache', socket', n, j, y)
             PROVE  IF KindOf[j] = k THEN y = kernel[j] ELSE After(cache, socket, n, j, y)
  OBVIOUS
<1>1. /\ socket \in Seq(Id \X Looks) /\ UNCHANGED socket
      /\ cache'[j] = IF KindOf[j] = k THEN kernel[j] ELSE cache[j]
  BY DEF Sent, Joins
<1>2. CASE KindOf[j] = k
  <2>1. ~Of(socket, j)
    BY <1>2 DEF Notified, Joins
  <2>2. y = cache'[j]
    BY <1>1, <2>1, AfterNever
  <2>3. QED BY <1>1, <1>2, <2>2
<1>3. CASE KindOf[j] # k
  BY <1>1, <1>3 DEF After
<1>4. QED BY <1>2, <1>3

LEMMA RemovedNext == IInv /\ Removed /\ [Next]_vars => Removed'
<1> SUFFICES ASSUME IInv, Removed, [Next]_vars, Up', NEW n \in 1 .. Len(socket'),
                    socket'[n][1] \in Link, socket'[n][2] = NULL
             PROVE  kernel'[socket'[n][1]] = NULL
  BY DEF Removed
<1>0. Sent /\ Link \subseteq Id
  BY Members DEF IInv
<1>1. CASE socket' = <<>>
  BY <1>1
<1>2. CASE Up /\ UNCHANGED <<kernel, socket>>
  BY <1>2 DEF Removed
<1>3. ASSUME Up, NEW i \in Id, NEW x \in Object(i) \cup {NULL}, Takes(i, x)
      PROVE  kernel'[socket'[n][1]] = NULL
  <2>1. n + 1 \in 1 .. Len(socket) /\ socket'[n] = socket[n + 1] /\ UNCHANGED kernel
    BY <1>0, <1>3, Taking DEF Takes
  <2>2. QED BY <1>3, <2>1 DEF Removed
<1>4. ASSUME Up, NEW i \in Id, NEW x \in Object(i) \cup {NULL}, Becomes(i, x)
      PROVE  kernel'[socket'[n][1]] = NULL
  <2>1. /\ Allowed(i, x) /\ kernel'[i] = x /\ \A j \in Id : j # i => kernel'[j] = kernel[j]
        /\ KindOf[i] \notin joined => UNCHANGED socket
    BY <1>4 DEF Becomes
  <2>2. CASE n \in 1 .. Len(socket) /\ socket'[n] = socket[n]
    <3>1. kernel[socket[n][1]] = NULL
      BY <1>4, <2>2 DEF Removed
    <3>2. socket[n] = <<socket[n][1], socket[n][2]>>
      BY <1>0, <2>2 DEF Sent
    <3>3. socket[n][1] = i /\ x # NULL => socket[n] # <<i, NULL>>
      BY <1>0, <2>1, <2>2, <3>1 DEF Allowed
    <3>4. socket[n][1] = i => x = NULL
      BY <2>2, <3>2, <3>3
    <3>5. QED BY <1>0, <2>1, <2>2, <3>1, <3>4
  <2>3. CASE socket'[n][1] = i /\ socket'[n][2] = x
    BY <2>1, <2>3
  <2>4. CASE UNCHANGED socket
    BY <2>2, <2>4
  <2>5. CASE KindOf[i] \in joined
    <3>1. /\ Len(socket) \in Nat /\ Len(socket') = Len(socket) + 1
          /\ socket'[Len(socket')][1] = i /\ socket'[Len(socket')][2] = x
          /\ \A m \in 1 .. Len(socket) : socket'[m] = socket[m]
      BY <1>0, <1>4, <2>5, Becoming
    <3>2. n \in 1 .. Len(socket) \/ n = Len(socket')
      BY <3>1
    <3>3. QED BY <2>2, <2>3, <3>1, <3>2
  <2>6. QED BY <2>1, <2>4, <2>5
<1>5. QED BY <1>1, <1>2, <1>3, <1>4, Moves DEF Joins

LEMMA UniqueNext == IInv /\ Sound /\ Notified /\ Unique /\ [Next]_vars => Unique'
<1> SUFFICES ASSUME IInv, Sound, Notified, Unique, [Next]_vars, Up', NEW n \in 0 .. Len(socket'),
                    NEW l \in Link, NEW m \in Link, NEW x \in LinkContent, NEW y \in LinkContent,
                    l # m, After(cache', socket', n, l, x), After(cache', socket', n, m, y)
             PROVE  x[1] # y[1]
  BY DEF Unique
<1>0. /\ Sent /\ Sent' /\ Sound' /\ Notified' /\ l \in Id /\ m \in Id
      /\ x # NULL /\ y # NULL /\ KindOf[l] = "link" /\ KindOf[m] = "link"
  BY Members, Appearance, InvariantNext, SoundNext, NotifiedNext DEF IInv
<1>1. ASSUME Up, NEW n0 \in 0 .. Len(socket), After(cache, socket, n0, l, x), After(cache, socket, n0, m, y)
      PROVE  x[1] # y[1]
  BY <1>1 DEF Unique
<1>2. CASE n = Len(socket')
  <2>1. x = kernel'[l] /\ y = kernel'[m]
    BY <1>0, <1>2, InTheEnd
  <2>2. QED BY <1>0, <2>1 DEF Sound
<1>3. CASE socket' = <<>>
  <2>1. n = Len(socket')
    BY <1>3
  <2>2. QED BY <1>2, <2>1
<1>4. ASSUME Up, NEW k \in Kinds, Joins(k) PROVE x[1] # y[1]
  <2>1. n \in 0 .. Len(socket)
    BY <1>4 DEF Joins
  <2>2. CASE k = "link"
    <3>1. x = kernel[l] /\ y = kernel[m]
      BY <1>0, <1>4, <2>1, <2>2, Joining
    <3>2. QED BY <1>0, <3>1 DEF Sound
  <2>3. CASE k # "link"
    <3>1. After(cache, socket, n, l, x) /\ After(cache, socket, n, m, y)
      BY <1>0, <1>4, <2>1, <2>3, Joining
    <3>2. QED BY <1>1, <1>4, <2>1, <3>1
  <2>4. QED BY <2>2, <2>3
<1>5. ASSUME Up, NEW i \in Id, NEW z \in Object(i) \cup {NULL}, Takes(i, z) PROVE x[1] # y[1]
  <2>1. n + 1 \in 0 .. Len(socket)
    BY <1>0, <1>5, Taking
  <2>2. After(cache, socket, n + 1, l, x) /\ After(cache, socket, n + 1, m, y)
    BY <1>0, <1>5, Taking
  <2>3. QED BY <1>1, <1>5, <2>1, <2>2
<1>6. ASSUME Up, NEW i \in Id, NEW z \in Object(i) \cup {NULL}, Becomes(i, z) PROVE x[1] # y[1]
  <2>1. CASE KindOf[i] \notin joined
    BY <1>1, <1>6, <2>1 DEF Becomes
  <2>2. CASE KindOf[i] \in joined
    <3>1. n \in 0 .. Len(socket) \/ n = Len(socket')
      BY <1>0, <1>6, <2>2, Becoming
    <3>2. CASE n \in 0 .. Len(socket)
      <4>1. After(cache, socket, n, l, x) /\ After(cache, socket, n, m, y)
        BY <1>0, <1>6, <2>2, <3>2, Becoming
      <4>2. QED BY <1>1, <1>6, <3>2, <4>1
    <3>3. QED BY <1>2, <3>1, <3>2
  <2>3. QED BY <2>1, <2>2
<1>7. CASE Up /\ UNCHANGED <<kernel, socket, cache, joined>>
  BY <1>1, <1>7
<1>8. QED BY <1>3, <1>4, <1>5, <1>6, <1>7, Moves

LEMMA BereftNext == IInv /\ Sound /\ Notified /\ Removed /\ Bereft /\ [Next]_vars => Bereft'
<1> SUFFICES ASSUME IInv, Sound, Notified, Removed, Bereft, [Next]_vars, Up',
                    NEW n \in 1 .. Len(socket'), socket'[n][1] \in Link, socket'[n][2] = NULL,
                    NEW j \in Dependent, NEW y \in Looks, On[j] = socket'[n][1],
                    After(cache', socket', n, j, y)
             PROVE  y = NULL
  BY DEF Bereft
<1>0. Sent /\ Sent' /\ Notified' /\ j \in Id /\ j \notin Link
  BY Members, InvariantNext, NotifiedNext DEF IInv
<1>1. ASSUME Up, NEW n0 \in 1 .. Len(socket), socket'[n] = socket[n0], After(cache, socket, n0, j, y)
      PROVE  y = NULL
  BY <1>1 DEF Bereft
<1>2. CASE socket' = <<>>
  BY <1>2
<1>3. ASSUME Up, NEW k \in Kinds, Joins(k) PROVE y = NULL
  <2>1. n \in 1 .. Len(socket) /\ n \in 0 .. Len(socket) /\ socket'[n] = socket[n]
    BY <1>3 DEF Joins
  <2>2. CASE KindOf[j] = k
    <3>1. y = kernel[j]
      BY <1>0, <1>3, <2>1, <2>2, Joining
    <3>2. kernel[On[j]] = NULL
      BY <1>3, <2>1 DEF Removed
    <3>3. QED BY <3>1, <3>2 DEF Sound
  <2>3. CASE KindOf[j] # k
    <3>1. After(cache, socket, n, j, y)
      BY <1>0, <1>3, <2>1, <2>3, Joining
    <3>2. QED BY <1>1, <1>3, <2>1, <3>1
  <2>4. QED BY <2>2, <2>3
<1>4. ASSUME Up, NEW i \in Id, NEW z \in Object(i) \cup {NULL}, Takes(i, z) PROVE y = NULL
  <2>1. n + 1 \in 1 .. Len(socket) /\ n \in 0 .. Len(socket') /\ socket'[n] = socket[n + 1]
    BY <1>0, <1>4, Taking
  <2>2. After(cache, socket, n + 1, j, y)
    BY <1>0, <1>4, <2>1, Taking
  <2>3. QED BY <1>1, <1>4, <2>1, <2>2
<1>5. ASSUME Up, NEW i \in Id, NEW z \in Object(i) \cup {NULL}, Becomes(i, z) PROVE y = NULL
  <2>1. CASE KindOf[i] \notin joined
    BY <1>1, <1>5, <2>1 DEF Becomes
  <2>2. CASE KindOf[i] \in joined
    <3>1. /\ n \in 1 .. Len(socket) \/ n = Len(socket')
          /\ n \in 1 .. Len(socket) => n \in 0 .. Len(socket) /\ socket'[n] = socket[n]
          /\ socket'[Len(socket')][1] = i /\ socket'[Len(socket')][2] = z
      BY <1>0, <1>5, <2>2, Becoming
    <3>2. CASE n \in 1 .. Len(socket)
      <4>1. After(cache, socket, n, j, y)
        BY <1>0, <1>5, <2>2, <3>1, <3>2, Becoming
      <4>2. QED BY <1>1, <1>5, <3>1, <3>2, <4>1
    <3>3. CASE n = Len(socket')
      <4>1. i \in Link /\ z = NULL /\ On[j] = i
        BY <3>1, <3>3
      <4>2. kernel[j] = NULL /\ kernel'[j] = NULL
        BY <1>0, <1>5, <4>1 DEF Becomes, Allowed
      <4>3. QED BY <1>0, <3>3, <4>2, InTheEnd
    <3>4. QED BY <3>1, <3>2, <3>3
  <2>3. QED BY <2>1, <2>2
<1>6. CASE Up /\ UNCHANGED <<kernel, socket, cache, joined>>
  BY <1>1, <1>6
<1>7. QED BY <1>2, <1>3, <1>4, <1>5, <1>6, Moves

LEMMA CInit == Init => CInv
<1> SUFFICES ASSUME Init PROVE CInv
  OBVIOUS
<1>1. IInv
  BY InitInvariant
<1>2. Sound
  BY Members DEF Init, Sound
<1>3. Notified /\ Removed /\ Unique /\ Bereft
  BY DEF Init, Notified, Removed, Unique, Bereft, Up
<1>4. QED BY <1>1, <1>2, <1>3 DEF CInv

LEMMA CNext == CInv /\ [Next]_vars => CInv'
BY InvariantNext, SoundNext, NotifiedNext, RemovedNext, UniqueNext, BereftNext DEF CInv

LEMMA CAlways == Spec => []CInv
BY CInit, CNext, PTL DEF Spec

\* Names are unique in the link cache.
LEMMA Distinct ==
    ASSUME CInv, [Next]_vars, Up, Up', NEW l \in Link, NEW m \in Link, l # m
    PROVE  /\ cache[l] # NULL /\ cache[m] # NULL => cache[l][1] # cache[m][1]
           /\ cache'[l] # NULL /\ cache'[m] # NULL => cache'[l][1] # cache'[m][1]
<1>1. CInv' /\ l \in Id /\ m \in Id
  BY Members, CNext
<1>2. ASSUME cache[l] # NULL, cache[m] # NULL PROVE cache[l][1] # cache[m][1]
  <2>1. cache[l] \in LinkContent /\ cache[m] \in LinkContent
    BY <1>1, <1>2, Appearance DEF CInv, IInv, TypeOK
  <2>2. 0 \in 0 .. Len(socket)
    BY DEF CInv, IInv, Sent
  <2>3. After(cache, socket, 0, l, cache[l]) /\ After(cache, socket, 0, m, cache[m])
    BY AfterNone
  <2>4. QED BY <2>1, <2>2, <2>3 DEF CInv, Unique
<1>3. ASSUME cache'[l] # NULL, cache'[m] # NULL PROVE cache'[l][1] # cache'[m][1]
  <2>1. cache'[l] \in LinkContent /\ cache'[m] \in LinkContent
    BY <1>1, <1>3, Appearance DEF CInv, IInv, TypeOK
  <2>2. 0 \in 0 .. Len(socket')
    BY <1>1 DEF CInv, IInv, Sent
  <2>3. After(cache', socket', 0, l, cache'[l]) /\ After(cache', socket', 0, m, cache'[m])
    BY AfterNone
  <2>4. QED BY <1>1, <2>1, <2>2, <2>3 DEF CInv, Unique
<1>4. QED BY <1>2, <1>3

\* When the link cache loses a link, its dependents have gone from theirs.
LEMMA Orphans ==
    ASSUME CInv, Up, NEW i \in Link, socket # <<>>, Head(socket)[1] = i, Head(socket)[2] = NULL,
           NEW j \in Dependent, On[j] = i
    PROVE  cache[j] = NULL
<1>1. 1 \in 1 .. Len(socket) /\ socket[1] = Head(socket)
  BY TailIndices DEF CInv, IInv, Sent
<1>2. After(cache, socket, 1, j, cache[j])
  BY <1>1, Members, AfterOther
<1>3. cache[j] \in Looks
  BY Members, Appearance DEF CInv, IInv, TypeOK, Looks
<1>4. QED BY <1>1, <1>2, <1>3 DEF CInv, Bereft

------------------------------------------------------------------------------
(* What a step publishes.                                                  *)

\* A publisher begins.
Registers(k) ==
    /\ k \in Kinds /\ k \notin registered /\ registered' = registered \cup {k}
    /\ k = "link" => registered = {}
    /\ \A i \in Id : KindOf[i] # k => cache'[i] = cache[i]
    /\ unseen = {} /\ unseen' = IdOf(k)
    /\ pub' = Without(PathOf(k))
    /\ blind' = blind \ IdOf(k) /\ moved' = moved \ IdOf(k)
    /\ k # "link" => UNCHANGED abandoned

\* It is refused.
Refused(k) ==
    /\ k \in Kinds /\ k \notin registered
    /\ \A i \in Id : cache'[i] = cache[i]
    /\ pub' = Without(PathOf(k))
    /\ UNCHANGED <<registered, unseen, history>>

\* It is called back: for an object it has not seen, or for a notification.
CallsBack(i, old, new) ==
    /\ KindOf[i] \in registered /\ UNCHANGED registered
    /\ old # new /\ Callback(i, old, new)
    /\ cache'[i] = new /\ \A j \in Id : j # i => cache'[j] = cache[j]
    /\ \/ /\ old = cache[i] /\ UNCHANGED unseen
          /\ socket # <<>> /\ Head(socket)[1] = i /\ Head(socket)[2] = new
       \/ old = NULL /\ cache[i] = new /\ unseen' = unseen \ {i}

\* None is.
Quiet ==
    /\ \A i \in Id : cache'[i] = cache[i] /\ (i \notin unseen' => i \notin unseen \/ cache[i] = NULL)
    /\ UNCHANGED <<registered, pub, history>>

LEMMA Publishing ==
    ASSUME CInv, [Next]_vars, Up'
    PROVE  \/ ~Up /\ registered' = {}
           \/ Up /\ \E k \in Kinds : Registers(k) \/ Refused(k)
           \/ Up /\ \E i \in Id : \E old, new \in Object(i) \cup {NULL} : CallsBack(i, old, new)
           \/ Up /\ Quiet
<1>0. IInv /\ TypeOK /\ Stage /\ \A i \in Id : cache[i] \in Object(i) \cup {NULL}
  BY DEF CInv, IInv, TypeOK
<1>1. CASE Start
  BY <1>0, <1>1 DEF IInv, Idle, Start, Up
<1>2. CASE Register
  <2>1. at \in 1 .. 4 /\ Up /\ Order[at] \notin joined /\ Order[at] \in Kinds
    BY <1>0, <1>2, OrderParts DEF Register, TypeOK, Stage, Up
  <2>2. registered = joined /\ unseen = {}
    BY <1>0, <1>2, <2>1 DEF Register, Stage
  <2>3. ASSUME Order[at] = "link" PROVE registered = {}
    <3>1. at = 1
      BY <2>1, <2>3, OrderParts
    <3>2. \A n \in 1 .. 4 : Order[n] \in joined => n = 1
      BY <1>0, <1>2, <3>1, OrderParts DEF Register, Stage
    <3>3. \A k \in Kinds : k \notin joined
      BY <2>1, <3>1, <3>2, OrderParts
    <3>4. QED BY <1>0, <2>2, <3>3 DEF TypeOK
  <2>4. Registers(Order[at])
    BY <1>0, <1>2, <2>1, <2>2, <2>3 DEF Register, Registers
  <2>5. QED BY <2>1, <2>4
<1>3. CASE Tell
  <2>1. PICK i \in unseen :
            /\ unseen' = unseen \ {i}
            /\ IF cache[i] = NULL THEN UNCHANGED <<pub, history>> ELSE Callback(i, NULL, cache[i])
    BY <1>3 DEF Tell
  <2>2. phase = "init" /\ Up /\ i \in Id /\ UNCHANGED <<cache, registered>>
    BY <1>0, <1>3 DEF Tell, TypeOK, Up
  <2>3. CASE cache[i] = NULL
    BY <2>1, <2>2, <2>3 DEF Quiet
  <2>4. CASE cache[i] # NULL
    <3>1. KindOf[i] \in registered
      BY <1>0, <2>1, <2>2 DEF Stage, IdOf
    <3>2. CallsBack(i, NULL, cache[i])
      BY <2>1, <2>2, <2>4, <3>1 DEF CallsBack
    <3>3. QED BY <1>0, <2>2, <3>2
  <2>5. QED BY <2>3, <2>4
<1>4. CASE Receive
  <2>1. PICK i \in Id : \E x \in Object(i) \cup {NULL} :
               /\ socket # <<>> /\ Head(socket) = <<i, x>> /\ Running /\ UNCHANGED kernel
               /\ (End("down") /\ UNCHANGED pub) \/ Does(i, x)
    BY <1>0, <1>4, ReceiveParts
  <2>2. ~End("down") /\ phase' # "exit"
    BY DEF End, Up
  <2>3. PICK x \in Object(i) \cup {NULL} :
               /\ socket # <<>> /\ Head(socket) = <<i, x>>
               /\ cache' = [cache EXCEPT ![i] = x] /\ UNCHANGED life
               /\ \/ cache[i] # x /\ KindOf[i] \in registered /\ Callback(i, cache[i], x)
                  \/ /\ cache[i] = x \/ KindOf[i] \notin registered
                     /\ UNCHANGED <<pub, history>>
    BY <2>1, <2>2 DEF Does, life
  <2>4. /\ cache'[i] = x /\ \A j \in Id : j # i => cache'[j] = cache[j]
        /\ Up /\ UNCHANGED <<registered, unseen>>
    BY <1>0, <2>3 DEF TypeOK, life, Up
  <2>5. KindOf[i] \in registered
    <3>1. 1 \in 1 .. Len(socket) /\ socket[1] = Head(socket)
      BY <1>0, <2>3, TailIndices DEF IInv, Sent
    <3>2. Of(socket, i)
      BY <2>3, <3>1 DEF Of
    <3>3. QED BY <1>0, <2>4, <3>2 DEF CInv, Notified, Stage
  <2>6. CASE cache[i] # x /\ Callback(i, cache[i], x)
    <3>1. CallsBack(i, cache[i], x)
      BY <2>3, <2>4, <2>5, <2>6 DEF CallsBack
    <3>2. QED BY <1>0, <2>4, <3>1
  <2>7. CASE cache[i] = x /\ UNCHANGED <<pub, history>>
    BY <2>4, <2>7 DEF Quiet
  <2>8. QED BY <2>3, <2>5, <2>6, <2>7
<1>5. CASE KernelChange \/ Registered \/ Run \/ UNCHANGED vars
  BY <1>5 DEF KernelChange, Registered, Run, vars, life, Quiet, Up
<1>6. CASE Stopped \/ Crash \/ Quit \/ Unregister \/ Clean \/ Return
  BY <1>0, <1>6 DEF Stopped, Crash, Quit, Unregister, Clean, Return, End, Up, IInv, UnderWay, life
<1>7. CASE Refuse
  <2>1. at \in 1 .. 4 /\ Order[at] \notin joined /\ Order[at] \in Kinds
    BY <1>0, <1>7, OrderParts DEF Refuse, TypeOK, Stage
  <2>2. Up /\ registered = joined
    BY <1>0, <1>7 DEF Refuse, Stage, Up
  <2>3. /\ pub' = Without(PathOf(Order[at])) /\ UNCHANGED <<cache, registered, unseen, history>>
    BY <1>7 DEF Refuse, Up
  <2>4. Refused(Order[at])
    BY <2>1, <2>2, <2>3 DEF Refused
  <2>5. QED BY <2>1, <2>2, <2>4
<1>8. QED BY <1>1, <1>2, <1>3, <1>4, <1>5, <1>6, <1>7 DEF Next, MainStep

\* Links are as well published as before when nothing of theirs changes.
LEMMA LinksKept ==
    ASSUME LinkShown, LinkOnly, Up, UNCHANGED registered, abandoned \subseteq abandoned',
           \A l \in Link : /\ cache'[l] = cache[l] /\ (Told(l)' => Told(l))
                           /\ cache[l] # NULL => cache[l][1] \in Name
                           /\ pub'[<<"alias", l>>] = pub[<<"alias", l>>],
           \A n \in Name : /\ pub'[<<"identity", n>>] = pub[<<"identity", n>>]
                           /\ pub'[<<"status", n>>] = pub[<<"status", n>>]
    PROVE  LinkShown' /\ LinkOnly'
<1>1. LinkShown'
  <2> SUFFICES ASSUME NEW l \in Link, Told(l)', cache'[l] # NULL
               PROVE  /\ pub'[<<"alias", l>>] = cache'[l][1]
                      /\ pub'[<<"identity", cache'[l][1]>>] = l
                      /\ pub'[<<"status", cache'[l][1]>>] = cache'[l]
    BY DEF LinkShown
  <2>1. /\ pub[<<"alias", l>>] = cache[l][1]
        /\ pub[<<"identity", cache[l][1]>>] = l
        /\ pub[<<"status", cache[l][1]>>] = cache[l]
    BY DEF LinkShown
  <2>2. cache'[l] = cache[l] /\ cache[l][1] \in Name
    OBVIOUS
  <2>3. QED BY <2>1, <2>2
<1>2. ASSUME "link" \in registered, NEW n \in Name \ abandoned', pub'[<<"status", n>>] # NULL
      PROVE  \E l \in Link : cache'[l] # NULL /\ cache'[l][1] = n
  <2>1. PICK l \in Link : cache[l] # NULL /\ cache[l][1] = n
    BY <1>2 DEF LinkOnly
  <2>2. QED BY <2>1
<1>3. LinkOnly'
  BY <1>2 DEF LinkOnly
<1>4. QED BY <1>1, <1>3

\* A publisher begins with nothing of its own, and leaves the others' alone.
LEMMA RegistersParts ==
    ASSUME CInv, LinkShown, LinkOnly, DependentShown, DependentOnly, RouteShown, RouteOnly,
           Up, Up', NEW k \in Kinds, Registers(k)
    PROVE  LinkShown' /\ LinkOnly' /\ DependentShown' /\ DependentOnly' /\ RouteShown' /\ RouteOnly'
<1>1. /\ \A p \in PathOf(k) : pub'[p] = NULL
      /\ k # "link" => /\ \A l \in Link : pub'[<<"alias", l>>] = pub[<<"alias", l>>]
                       /\ \A n \in Name : /\ pub'[<<"identity", n>>] = pub[<<"identity", n>>]
                                          /\ pub'[<<"status", n>>] = pub[<<"status", n>>]
      /\ \A n \in Name \cup {NULL}, i \in Dependent :
             KindOf[i] # k => pub'[<<"entry", n, i>>] = pub[<<"entry", n, i>>]
      /\ k # "route" => \A r \in Route, x \in Content : pub'[<<"fib", r, x>>] = pub[<<"fib", r, x>>]
  BY WithoutPart DEF Registers
<1>2. \A i \in Id : Told(i)' => Told(i) /\ KindOf[i] # k
  BY DEF Registers, Told, IdOf
<1>3. \A i \in Id : KindOf[i] # k => cache'[i] = cache[i]
  BY DEF Registers
<1>4. \A i \in Id : KindOf[i] # k => (i \notin blind' => i \notin blind) /\ (i \notin moved' => i \notin moved)
  BY DEF Registers, IdOf
<1>5. /\ k # "link" => UNCHANGED abandoned
      /\ \A j \in Kinds : j # k /\ j \in registered' => j \in registered /\ k # "link"
  BY DEF Registers
<1>6. /\ \A l \in Link : l \in Id /\ KindOf[l] = "link" /\ cache[l] \in LinkContent \cup {NULL}
      /\ \A r \in Route : r \in Id /\ KindOf[r] = "route" /\ cache[r] \in Content \cup {NULL}
      /\ \A i \in Dependent : i \in Id /\ KindOf[i] \in Kinds /\ On[i] \in Link
  BY Members, Appearance, KindAssumption DEF CInv, IInv, TypeOK
<1>7. LinkShown'
  <2> SUFFICES ASSUME NEW l \in Link, Told(l)', cache'[l] # NULL
               PROVE  /\ pub'[<<"alias", l>>] = cache'[l][1]
                      /\ pub'[<<"identity", cache'[l][1]>>] = l
                      /\ pub'[<<"status", cache'[l][1]>>] = cache'[l]
    BY DEF LinkShown
  <2>1. Told(l) /\ k # "link" /\ cache'[l] = cache[l]
    BY <1>2, <1>3, <1>6
  <2>2. cache[l][1] \in Name
    BY <1>6, <2>1, Appearance
  <2>3. /\ pub[<<"alias", l>>] = cache[l][1]
        /\ pub[<<"identity", cache[l][1]>>] = l
        /\ pub[<<"status", cache[l][1]>>] = cache[l]
    BY <2>1 DEF LinkShown
  <2>4. QED BY <1>1, <2>1, <2>2, <2>3
<1>8. LinkOnly'
  <2>1. CASE k = "link"
    BY <1>1, <2>1, Publishers DEF LinkOnly
  <2>2. CASE k # "link"
    <3>1. ASSUME "link" \in registered', NEW l \in Link, pub'[<<"alias", l>>] # NULL
          PROVE  cache'[l] # NULL
      <4>1. "link" \in registered
        BY <2>2, <3>1 DEF Registers
      <4>2. QED BY <1>1, <1>3, <1>5, <1>6, <2>2, <3>1, <4>1 DEF LinkOnly
    <3>2. ASSUME "link" \in registered', NEW n \in Name \ abandoned', pub'[<<"status", n>>] # NULL
          PROVE  \E l \in Link : cache'[l] # NULL /\ cache'[l][1] = n
      <4>1. pub[<<"status", n>>] # NULL /\ n \in Name \ abandoned
        BY <1>1, <1>5, <2>2, <3>2
      <4>2. "link" \in registered
        BY <2>2, <3>2 DEF Registers
      <4>3. PICK l \in Link : cache[l] # NULL /\ cache[l][1] = n
        BY <4>1, <4>2 DEF LinkOnly
      <4>4. cache'[l] = cache[l]
        BY <1>3, <1>6, <2>2
      <4>5. QED BY <4>3, <4>4
    <3>3. QED BY <3>1, <3>2 DEF LinkOnly
  <2>3. QED BY <2>1, <2>2
<1>9. DependentShown'
  <2> SUFFICES ASSUME NEW i \in Dependent, Told(i)', cache'[i] # NULL, Settled(i)'
               PROVE  cache'[On[i]] # NULL /\ pub'[<<"entry", cache'[On[i]][1], i>>] = cache'[i]
    BY DEF DependentShown
  <2>1. Told(i) /\ KindOf[i] # k /\ cache'[i] = cache[i]
    BY <1>2, <1>3, <1>6
  <2>2. k # "link" /\ cache'[On[i]] = cache[On[i]]
    <3>1. k # "link"
      BY <1>5, <1>6, <2>1 DEF Told, Registers
    <3>2. QED BY <1>3, <1>6, <3>1
  <2>3. Settled(i)
    BY <1>4, <1>6, <2>1, <2>2 DEF Settled
  <2>4. cache[On[i]] # NULL /\ pub[<<"entry", cache[On[i]][1], i>>] = cache[i]
    BY <2>1, <2>3 DEF DependentShown
  <2>5. cache[On[i]][1] \in Name
    BY <1>6, <2>4, Appearance
  <2>6. QED BY <1>1, <2>1, <2>2, <2>4, <2>5
<1>10. DependentOnly'
  <2> SUFFICES ASSUME NEW i \in Dependent \ (blind' \cup Short), NEW n \in (Name \cup {NULL}) \ abandoned',
                      KindOf[i] \in registered', pub'[<<"entry", n, i>>] # NULL
               PROVE  cache'[i] # NULL /\ cache'[On[i]] # NULL /\ cache'[On[i]][1] = n
    BY DEF DependentOnly
  <2>1. KindOf[i] # k
    BY <1>1, Publishers
  <2>2. KindOf[i] \in registered /\ k # "link"
    BY <1>5, <1>6, <2>1
  <2>3. cache'[i] = cache[i] /\ cache'[On[i]] = cache[On[i]] /\ i \notin blind /\ n \notin abandoned
    BY <1>3, <1>4, <1>5, <1>6, <2>1, <2>2
  <2>4. pub[<<"entry", n, i>>] # NULL
    BY <1>1, <2>1
  <2>5. QED BY <2>2, <2>3, <2>4 DEF DependentOnly
<1>11. RouteShown'
  <2> SUFFICES ASSUME NEW r \in Route \ moved', Told(r)', cache'[r] # NULL
               PROVE  pub'[<<"fib", r, cache'[r]>>] = cache'[r]
    BY DEF RouteShown
  <2>1. Told(r) /\ k # "route" /\ cache'[r] = cache[r] /\ r \notin moved /\ cache[r] \in Content
    BY <1>2, <1>3, <1>4, <1>6
  <2>2. pub[<<"fib", r, cache[r]>>] = cache[r]
    BY <2>1 DEF RouteShown
  <2>3. QED BY <1>1, <2>1, <2>2
<1>12. RouteOnly'
  <2> SUFFICES ASSUME NEW r \in Route \ moved', NEW x \in Content, KindOf[r] \in registered',
                      pub'[<<"fib", r, x>>] # NULL
               PROVE  cache'[r] = x
    BY DEF RouteOnly
  <2>1. k # "route"
    BY <1>1, Publishers
  <2>2. KindOf[r] \in registered /\ cache'[r] = cache[r] /\ r \notin moved
    BY <1>3, <1>4, <1>6, <2>1 DEF Registers
  <2>3. pub[<<"fib", r, x>>] # NULL
    BY <1>1, <2>1
  <2>4. QED BY <2>2, <2>3 DEF RouteOnly
<1>13. QED BY <1>7, <1>8, <1>9, <1>10, <1>11, <1>12

\* A publisher that is refused has nothing of its own.
LEMMA RefusedParts ==
    ASSUME CInv, LinkShown, LinkOnly, DependentShown, DependentOnly, RouteShown, RouteOnly,
           Up, Up', NEW k \in Kinds, Refused(k)
    PROVE  LinkShown' /\ LinkOnly' /\ DependentShown' /\ DependentOnly' /\ RouteShown' /\ RouteOnly'
<1>1. /\ k # "link" => /\ \A l \in Link : pub'[<<"alias", l>>] = pub[<<"alias", l>>]
                       /\ \A n \in Name : /\ pub'[<<"identity", n>>] = pub[<<"identity", n>>]
                                          /\ pub'[<<"status", n>>] = pub[<<"status", n>>]
      /\ \A n \in Name \cup {NULL}, i \in Dependent :
             KindOf[i] # k => pub'[<<"entry", n, i>>] = pub[<<"entry", n, i>>]
      /\ k # "route" => \A r \in Route, x \in Content : pub'[<<"fib", r, x>>] = pub[<<"fib", r, x>>]
  BY WithoutPart DEF Refused
<1>2. /\ k \notin registered /\ \A i \in Id : cache'[i] = cache[i] /\ (Told(i)' <=> Told(i))
      /\ UNCHANGED <<registered, blind, moved, abandoned>>
  BY DEF Refused, Told, history
<1>3. /\ \A l \in Link : l \in Id /\ KindOf[l] = "link" /\ (cache[l] # NULL => cache[l][1] \in Name)
      /\ \A r \in Route : r \in Id /\ KindOf[r] = "route" /\ cache[r] \in Content \cup {NULL}
      /\ \A i \in Dependent : i \in Id /\ On[i] \in Link
  BY Members, Appearance DEF CInv, IInv, TypeOK
<1>4. LinkShown' /\ LinkOnly'
  <2>1. CASE k = "link"
    BY <1>2, <1>3, <2>1 DEF LinkShown, LinkOnly, Told
  <2>2. CASE k # "link"
    BY <1>1, <1>2, <1>3, <2>2, LinksKept
  <2>3. QED BY <2>1, <2>2
<1>5. DependentShown'
  <2> SUFFICES ASSUME NEW i \in Dependent, Told(i)', cache'[i] # NULL, Settled(i)'
               PROVE  cache'[On[i]] # NULL /\ pub'[<<"entry", cache'[On[i]][1], i>>] = cache'[i]
    BY DEF DependentShown
  <2>1. Told(i) /\ KindOf[i] # k /\ cache'[i] = cache[i] /\ Settled(i) /\ cache'[On[i]] = cache[On[i]]
    BY <1>2, <1>3 DEF Told, Settled
  <2>2. cache[On[i]] # NULL /\ pub[<<"entry", cache[On[i]][1], i>>] = cache[i]
    BY <2>1 DEF DependentShown
  <2>3. cache[On[i]][1] \in Name
    BY <1>3, <2>2
  <2>4. QED BY <1>1, <2>1, <2>2, <2>3
<1>6. DependentOnly'
  <2> SUFFICES ASSUME NEW i \in Dependent \ (blind' \cup Short), NEW n \in (Name \cup {NULL}) \ abandoned',
                      KindOf[i] \in registered', pub'[<<"entry", n, i>>] # NULL
               PROVE  cache'[i] # NULL /\ cache'[On[i]] # NULL /\ cache'[On[i]][1] = n
    BY DEF DependentOnly
  <2>1. KindOf[i] \in registered /\ KindOf[i] # k /\ i \notin blind /\ n \notin abandoned
    BY <1>2
  <2>2. pub[<<"entry", n, i>>] # NULL
    BY <1>1, <2>1
  <2>3. QED BY <1>2, <1>3, <2>1, <2>2 DEF DependentOnly
<1>7. RouteShown' /\ RouteOnly'
  <2>1. CASE k = "route"
    BY <1>2, <1>3, <2>1 DEF RouteShown, RouteOnly, Told
  <2>2. CASE k # "route"
    BY <1>1, <1>2, <1>3, <2>2 DEF RouteShown, RouteOnly
  <2>3. QED BY <2>1, <2>2
<1>8. QED BY <1>4, <1>5, <1>6, <1>7

\* Without a callback nothing changes but that objects that are not there are seen.
LEMMA QuietParts ==
    ASSUME LinkShown, LinkOnly, DependentShown, DependentOnly, RouteShown, RouteOnly, Up, Quiet
    PROVE  LinkShown' /\ LinkOnly' /\ DependentShown' /\ DependentOnly' /\ RouteShown' /\ RouteOnly'
<1>1. /\ \A i \in Id : cache'[i] = cache[i] /\ (Told(i)' => Told(i) \/ cache[i] = NULL)
      /\ UNCHANGED <<registered, pub, blind, moved, abandoned>>
  BY DEF Quiet, Told, history
<1>2. LinkShown' /\ LinkOnly'
  BY <1>1, Members DEF LinkShown, LinkOnly
<1>3. DependentShown' /\ DependentOnly'
  BY <1>1, Members DEF DependentShown, DependentOnly, Settled
<1>4. RouteShown' /\ RouteOnly'
  BY <1>1, Members DEF RouteShown, RouteOnly
<1>5. QED BY <1>2, <1>3, <1>4

\* What a callback has to do with objects that are not its own.
LEMMA CallsBackFrame ==
    ASSUME CInv, Up, NEW i \in Id, NEW old \in Object(i) \cup {NULL}, NEW new \in Object(i) \cup {NULL},
           CallsBack(i, old, new)
    PROVE  /\ DOMAIN pub = Path /\ old # new /\ Callback(i, old, new)
           /\ UNCHANGED registered /\ cache'[i] = new
           /\ \A j \in Id : j # i => cache'[j] = cache[j] /\ (Told(j)' => Told(j))
           /\ \A l \in Link : cache'[l] \in LinkContent \cup {NULL}
           /\ blind' = IF i \in Dependent /\ Astray(i) THEN blind \cup {i} ELSE blind
           /\ moved \subseteq moved' /\ \A j : j # i => (j \in moved' <=> j \in moved)
           /\ old # NULL /\ new # NULL /\ (i \in Route \/ (i \in Link /\ old[1] # new[1])) => i \in moved'
           /\ abandoned \subseteq abandoned'
           /\ i \in Link /\ old # NULL /\ new # NULL /\ old[1] # new[1] => old[1] \in abandoned'
           /\ old = cache[i] \/ (old = NULL /\ new = cache[i])
<1>1. TypeOK
  BY DEF CInv, IInv
<1>2. /\ old # new /\ Callback(i, old, new) /\ UNCHANGED registered /\ cache'[i] = new
      /\ \A j \in Id : j # i => cache'[j] = cache[j] /\ (Told(j)' => Told(j))
      /\ old = cache[i] \/ (old = NULL /\ new = cache[i])
  BY DEF CallsBack, Told
<1>3. \A l \in Link : cache'[l] \in LinkContent \cup {NULL}
  <2>1. \A j \in Id : cache[j] \in Object(j) \cup {NULL}
    BY <1>1 DEF TypeOK
  <2>2. \A j \in Id : cache'[j] \in Object(j) \cup {NULL}
    BY <1>2, <2>1
  <2>3. QED BY <2>2, Members, Appearance
<1>4. /\ blind' = IF i \in Dependent /\ Astray(i) THEN blind \cup {i} ELSE blind
      /\ moved \subseteq moved' /\ \A j : j # i => (j \in moved' <=> j \in moved)
      /\ old # NULL /\ new # NULL /\ (i \in Route \/ (i \in Link /\ old[1] # new[1])) => i \in moved'
      /\ abandoned \subseteq abandoned'
      /\ i \in Link /\ old # NULL /\ new # NULL /\ old[1] # new[1] => old[1] \in abandoned'
  BY <1>1, <1>2, CallbackRecords
<1>5. DOMAIN pub = Path
  BY <1>1 DEF TypeOK
<1>6. QED BY <1>2, <1>3, <1>4, <1>5

\* A link's: it is published under its name, which no other link has; and its
\* dependents are where they were, unless it has been renamed.
LEMMA LinkParts ==
    ASSUME CInv, LinkShown, LinkOnly, DependentShown, DependentOnly, RouteShown, RouteOnly,
           [Next]_vars, Up, Up', NEW i \in Link,
           NEW old \in Object(i) \cup {NULL}, NEW new \in Object(i) \cup {NULL}, CallsBack(i, old, new)
    PROVE  LinkShown' /\ LinkOnly' /\ DependentShown' /\ DependentOnly' /\ RouteShown' /\ RouteOnly'
<1>1. /\ i \in Id /\ i \notin Route /\ i \notin Dependent
      /\ old \in LinkContent \cup {NULL} /\ new \in LinkContent \cup {NULL}
  BY Members, Appearance
<1>2. /\ DOMAIN pub = Path /\ old # new /\ LinkCallback(i, old, new)
      /\ UNCHANGED <<registered, blind>> /\ cache'[i] = new
      /\ \A j \in Id : j # i => cache'[j] = cache[j] /\ (Told(j)' => Told(j))
      /\ moved \subseteq moved' /\ \A j : j # i => (j \in moved' <=> j \in moved)
      /\ old # NULL /\ new # NULL /\ old[1] # new[1] => i \in moved' /\ old[1] \in abandoned'
      /\ abandoned \subseteq abandoned'
      /\ old = cache[i] \/ (old = NULL /\ new = cache[i])
  <2>1. Callback(i, old, new)
    BY <1>1, CallsBackFrame
  <2>2. LinkCallback(i, old, new)
    BY <1>1, <2>1 DEF Callback, Publishes
  <2>3. QED BY <1>1, <2>2, CallsBackFrame
<1>3. /\ \A p \in Path : p[1] \notin {"alias", "identity", "status"} => pub'[p] = pub[p]
      /\ \A l \in Link : l # i => pub'[<<"alias", l>>] = pub[<<"alias", l>>]
      /\ new = NULL =>
            /\ old[1] \in Name /\ pub'[<<"alias", i>>] = NULL /\ pub'[<<"status", old[1]>>] = NULL
            /\ \A n \in Name : /\ pub'[<<"identity", n>>] = pub[<<"identity", n>>]
                               /\ n # old[1] => pub'[<<"status", n>>] = pub[<<"status", n>>]
      /\ new # NULL =>
            /\ new[1] \in Name /\ pub'[<<"alias", i>>] = new[1]
            /\ pub'[<<"identity", new[1]>>] = i /\ pub'[<<"status", new[1]>>] = new
            /\ \A n \in Name : n # new[1] =>
                  /\ pub'[<<"identity", n>>] = pub[<<"identity", n>>]
                  /\ pub'[<<"status", n>>] = pub[<<"status", n>>]
  BY <1>1, <1>2, LinkEffect
<1>4. /\ \A n \in Name \cup {NULL}, j \in Dependent : pub'[<<"entry", n, j>>] = pub[<<"entry", n, j>>]
      /\ \A r \in Route, x \in Content : pub'[<<"fib", r, x>>] = pub[<<"fib", r, x>>]
  BY <1>3, Paths
<1>5. LinkShown'
  <2> SUFFICES ASSUME NEW l \in Link, Told(l)', cache'[l] # NULL
               PROVE  /\ pub'[<<"alias", l>>] = cache'[l][1]
                      /\ pub'[<<"identity", cache'[l][1]>>] = l
                      /\ pub'[<<"status", cache'[l][1]>>] = cache'[l]
    BY DEF LinkShown
  <2>1. CASE l = i
    BY <1>2, <1>3, <2>1
  <2>2. CASE l # i
    <3>1. cache'[l] = cache[l] /\ Told(l) /\ cache[l] # NULL
      BY <1>2, <2>2, Members
    <3>2. /\ pub[<<"alias", l>>] = cache[l][1]
          /\ pub[<<"identity", cache[l][1]>>] = l
          /\ pub[<<"status", cache[l][1]>>] = cache[l]
      BY <3>1 DEF LinkShown
    <3>3. PICK n : n = cache[l][1]
      OBVIOUS
    <3>4. n \in Name
      <4>1. cache[l] \in LinkContent
        BY <3>1, Members, Appearance DEF CInv, IInv, TypeOK
      <4>2. QED BY <3>3, <4>1, Appearance
    <3>5. (new # NULL => n # new[1]) /\ (new = NULL => n # old[1])
      <4>1. new # NULL => cache'[l][1] # cache'[i][1]
        BY <1>2, <2>2, <3>1, Distinct
      <4>2. new = NULL => old = cache[i] /\ old # NULL
        BY <1>2
      <4>3. new = NULL => cache[l][1] # cache[i][1]
        BY <2>2, <3>1, <4>2, Distinct
      <4>4. QED BY <1>2, <3>1, <3>3, <4>1, <4>2, <4>3
    <3>6. pub'[<<"identity", n>>] = pub[<<"identity", n>>] /\ pub'[<<"status", n>>] = pub[<<"status", n>>]
      BY <1>3, <3>4, <3>5
    <3>7. QED BY <1>3, <2>2, <3>1, <3>2, <3>3, <3>6
  <2>3. QED BY <2>1, <2>2
<1>6. LinkOnly'
  <2>1. "link" \in registered
    BY Members DEF CallsBack
  <2>2. ASSUME NEW l \in Link, pub'[<<"alias", l>>] # NULL PROVE cache'[l] # NULL
    <3>1. CASE l = i
      BY <1>2, <1>3, <2>2, <3>1
    <3>2. CASE l # i
      BY <1>2, <1>3, <2>1, <2>2, <3>2, Members DEF LinkOnly
    <3>3. QED BY <3>1, <3>2
  <2>3. ASSUME NEW n \in Name \ abandoned', pub'[<<"status", n>>] # NULL
        PROVE  \E l \in Link : cache'[l] # NULL /\ cache'[l][1] = n
    <3>1. CASE new # NULL /\ n = new[1]
      BY <1>2, <3>1
    <3>2. CASE ~(new # NULL /\ n = new[1])
      <4>1. /\ pub[<<"status", n>>] # NULL /\ n \notin abandoned
            /\ new = NULL => n # old[1]
        BY <1>2, <1>3, <2>3, <3>2
      <4>2. PICK l \in Link : cache[l] # NULL /\ cache[l][1] = n
        BY <2>1, <4>1 DEF LinkOnly
      <4>3. l # i
        BY <1>2, <3>2, <4>1, <4>2
      <4>4. QED BY <1>2, <4>2, <4>3, Members
    <3>3. QED BY <3>1, <3>2
  <2>4. QED BY <2>2, <2>3 DEF LinkOnly
\* Where the link cache has the link of a dependent, it is as before or moved.
<1>7. ASSUME NEW j \in Dependent, cache[j] # NULL, cache[On[j]] # NULL
      PROVE  \/ cache'[On[j]] # NULL /\ cache'[On[j]][1] = cache[On[j]][1]
             \/ On[j] \in moved' /\ cache[On[j]][1] \in abandoned'
  <2>1. CASE On[j] # i \/ new = cache[i]
    <3>1. cache'[On[j]] = cache[On[j]]
      BY <1>2, <2>1, Members
    <3>2. QED BY <1>7, <3>1
  <2>2. CASE On[j] = i /\ new # cache[i]
    <3>1. old = cache[i] /\ socket # <<>> /\ Head(socket)[1] = i /\ Head(socket)[2] = new
      BY <1>2, <2>2 DEF CallsBack
    <3>2. new # NULL
      BY <1>7, <2>2, <3>1, Orphans
    <3>3. QED BY <1>2, <1>7, <2>2, <3>1, <3>2
  <2>3. QED BY <2>1, <2>2
<1>8. DependentShown'
  <2> SUFFICES ASSUME NEW j \in Dependent, Told(j)', cache'[j] # NULL, Settled(j)'
               PROVE  cache'[On[j]] # NULL /\ pub'[<<"entry", cache'[On[j]][1], j>>] = cache'[j]
    BY DEF DependentShown
  <2>1. Told(j) /\ cache'[j] = cache[j] /\ Settled(j) /\ On[j] \notin moved'
    BY <1>1, <1>2, Members DEF Settled
  <2>2. cache[On[j]] # NULL /\ pub[<<"entry", cache[On[j]][1], j>>] = cache[j]
    BY <2>1 DEF DependentShown
  <2>3. PICK n : n = cache[On[j]][1]
    OBVIOUS
  <2>4. n \in Name
    <3>1. cache[On[j]] \in LinkContent
      BY <2>2, Members, Appearance DEF CInv, IInv, TypeOK
    <3>2. QED BY <2>3, <3>1, Appearance
  <2>5. cache'[On[j]] # NULL /\ cache'[On[j]][1] = n
    BY <1>7, <2>1, <2>2, <2>3
  <2>6. pub'[<<"entry", n, j>>] = cache[j]
    BY <1>4, <2>2, <2>3, <2>4
  <2>7. QED BY <2>1, <2>5, <2>6
<1>9. DependentOnly'
  <2> SUFFICES ASSUME NEW j \in Dependent \ (blind' \cup Short), NEW n \in (Name \cup {NULL}) \ abandoned',
                      KindOf[j] \in registered', pub'[<<"entry", n, j>>] # NULL
               PROVE  cache'[j] # NULL /\ cache'[On[j]] # NULL /\ cache'[On[j]][1] = n
    BY DEF DependentOnly
  <2>1. /\ cache'[j] = cache[j] /\ j \notin blind /\ n \notin abandoned
        /\ KindOf[j] \in registered /\ pub[<<"entry", n, j>>] # NULL
    BY <1>1, <1>2, <1>4, Members
  <2>2. cache[j] # NULL /\ cache[On[j]] # NULL /\ cache[On[j]][1] = n
    BY <2>1 DEF DependentOnly
  <2>3. QED BY <1>7, <2>1, <2>2
<1>10. RouteShown' /\ RouteOnly'
  <2>1. \A r \in Route : /\ cache'[r] = cache[r] /\ (Told(r)' => Told(r)) /\ (r \in moved' <=> r \in moved)
                         /\ cache[r] # NULL => cache[r] \in Content
    BY <1>1, <1>2, Members, Appearance DEF CInv, IInv, TypeOK
  <2>2. QED BY <1>2, <1>4, <2>1 DEF RouteShown, RouteOnly
<1>11. QED BY <1>5, <1>6, <1>8, <1>9, <1>10

\* A route's: only a change is not published.
LEMMA RouteParts ==
    ASSUME CInv, LinkShown, LinkOnly, DependentShown, DependentOnly, RouteShown, RouteOnly,
           Up, Up', NEW i \in Route,
           NEW old \in Object(i) \cup {NULL}, NEW new \in Object(i) \cup {NULL}, CallsBack(i, old, new)
    PROVE  LinkShown' /\ LinkOnly' /\ DependentShown' /\ DependentOnly' /\ RouteShown' /\ RouteOnly'
<1>1. /\ i \in Id /\ i \notin Link /\ i \notin Dependent
      /\ old \in Content \cup {NULL} /\ new \in Content \cup {NULL}
  BY Members, Appearance
<1>2. /\ DOMAIN pub = Path /\ old # new /\ RouteCallback(i, old, new)
      /\ UNCHANGED <<registered, blind>> /\ cache'[i] = new
      /\ \A j \in Id : j # i => cache'[j] = cache[j] /\ (Told(j)' => Told(j))
      /\ moved \subseteq moved' /\ \A j : j # i => (j \in moved' <=> j \in moved)
      /\ old # NULL /\ new # NULL => i \in moved'
      /\ abandoned \subseteq abandoned'
      /\ old = cache[i] \/ (old = NULL /\ new = cache[i])
  <2>1. Callback(i, old, new)
    BY <1>1, CallsBackFrame
  <2>2. RouteCallback(i, old, new)
    BY <1>1, <2>1 DEF Callback, Publishes
  <2>3. QED BY <1>1, <2>2, CallsBackFrame
<1>3. /\ \A p \in Path : p[1] # "fib" => pub'[p] = pub[p]
      /\ \A r \in Route, x \in Content : r # i => pub'[<<"fib", r, x>>] = pub[<<"fib", r, x>>]
      /\ new = NULL => /\ pub'[<<"fib", i, old>>] = NULL
                       /\ \A x \in Content : x # old => pub'[<<"fib", i, x>>] = pub[<<"fib", i, x>>]
      /\ old = NULL => /\ pub'[<<"fib", i, new>>] = new
                       /\ \A x \in Content : x # new => pub'[<<"fib", i, x>>] = pub[<<"fib", i, x>>]
  BY <1>1, <1>2, RouteEffect
<1>4. /\ \A l \in Link : pub'[<<"alias", l>>] = pub[<<"alias", l>>]
      /\ \A n \in Name : /\ pub'[<<"identity", n>>] = pub[<<"identity", n>>]
                         /\ pub'[<<"status", n>>] = pub[<<"status", n>>]
      /\ \A n \in Name \cup {NULL}, j \in Dependent : pub'[<<"entry", n, j>>] = pub[<<"entry", n, j>>]
  BY <1>3, Paths
<1>5. /\ \A l \in Link : /\ cache'[l] = cache[l] /\ (Told(l)' => Told(l))
                         /\ (l \in moved' <=> l \in moved)
                         /\ cache[l] # NULL => cache[l][1] \in Name
      /\ \A j \in Dependent : cache'[j] = cache[j] /\ (Told(j)' => Told(j)) /\ On[j] \in Link
  BY <1>1, <1>2, Members, Appearance DEF CInv, IInv, TypeOK
<1>6. LinkShown' /\ LinkOnly'
  BY <1>2, <1>4, <1>5, LinksKept
<1>7. DependentShown' /\ DependentOnly'
  BY <1>2, <1>4, <1>5 DEF DependentShown, DependentOnly, Settled
<1>8. RouteShown'
  <2> SUFFICES ASSUME NEW r \in Route \ moved', Told(r)', cache'[r] # NULL
               PROVE  pub'[<<"fib", r, cache'[r]>>] = cache'[r]
    BY DEF RouteShown
  <2>1. CASE r = i
    BY <1>2, <1>3, <2>1
  <2>2. CASE r # i
    <3>1. cache'[r] = cache[r] /\ Told(r) /\ r \notin moved /\ cache[r] \in Content
      BY <1>2, <2>2, Members, Appearance DEF CInv, IInv, TypeOK
    <3>2. pub[<<"fib", r, cache[r]>>] = cache[r]
      BY <3>1, Appearance DEF RouteShown
    <3>3. QED BY <1>3, <2>2, <3>1, <3>2
  <2>3. QED BY <2>1, <2>2
<1>9. RouteOnly'
  <2> SUFFICES ASSUME NEW r \in Route \ moved', NEW x \in Content, KindOf[r] \in registered',
                      pub'[<<"fib", r, x>>] # NULL
               PROVE  cache'[r] = x
    BY DEF RouteOnly
  <2>1. pub[<<"fib", r, x>>] # NULL => cache[r] = x
    BY <1>2 DEF RouteOnly
  <2>2. CASE r = i
    BY <1>2, <1>3, <2>1, <2>2, Appearance
  <2>3. CASE r # i
    BY <1>2, <1>3, <2>1, <2>3, Members
  <2>4. QED BY <2>2, <2>3
<1>10. QED BY <1>6, <1>7, <1>8, <1>9

\* A dependent's: unless it is led astray it acts where the link cache says.
LEMMA DependentParts ==
    ASSUME CInv, LinkShown, LinkOnly, DependentShown, DependentOnly, RouteShown, RouteOnly,
           Up, Up', NEW i \in Dependent,
           NEW old \in Object(i) \cup {NULL}, NEW new \in Object(i) \cup {NULL}, CallsBack(i, old, new)
    PROVE  LinkShown' /\ LinkOnly' /\ DependentShown' /\ DependentOnly' /\ RouteShown' /\ RouteOnly'
<1>1. /\ i \in Id /\ i \notin Link /\ i \notin Route /\ new \in Content \cup {NULL} /\ TypeOK
      /\ On[i] \in Link
  BY Members, Appearance DEF CInv, IInv
<1>2. /\ DOMAIN pub = Path /\ DependentCallback(i, old, new)
      /\ UNCHANGED registered /\ cache'[i] = new
      /\ \A j \in Id : j # i => cache'[j] = cache[j] /\ (Told(j)' => Told(j))
      /\ \A l \in Link : cache'[l] \in LinkContent \cup {NULL}
      /\ blind' = IF Astray(i) THEN blind \cup {i} ELSE blind
      /\ moved \subseteq moved' /\ \A j : j # i => (j \in moved' <=> j \in moved)
      /\ abandoned \subseteq abandoned'
  <2>1. Callback(i, old, new)
    BY <1>1, CallsBackFrame
  <2>2. DependentCallback(i, old, new)
    BY <1>1, <2>1 DEF Callback, Publishes
  <2>3. QED BY <1>1, <2>2, CallsBackFrame
<1>3. PICK here : here = LinkName(i)
  OBVIOUS
<1>4. /\ here \in Name \cup {NULL}
      /\ i \notin blind' => i \notin blind /\ here # NULL
                            /\ cache'[On[i]] # NULL /\ cache'[On[i]][1] = here
  BY <1>1, <1>2, <1>3, LinkNames
<1>5. /\ \A p \in Path : p[1] # "entry" \/ p[3] # i => pub'[p] = pub[p]
      /\ \A n \in Name \cup {NULL}, j \in Dependent :
             j # i => pub'[<<"entry", n, j>>] = pub[<<"entry", n, j>>]
      /\ new = NULL => \A n \in Name \cup {NULL} :
            /\ pub'[<<"entry", n, i>>] \in {NULL, pub[<<"entry", n, i>>]}
            /\ n = here /\ n # NULL /\ i \notin Short => pub'[<<"entry", n, i>>] = NULL
      /\ new # NULL => /\ pub'[<<"entry", here, i>>] = new
                       /\ \A n \in Name \cup {NULL} : n # here =>
                             pub'[<<"entry", n, i>>] = pub[<<"entry", n, i>>]
  BY <1>1, <1>2, <1>3, <1>4, DependentEffect
<1>6. /\ \A l \in Link : pub'[<<"alias", l>>] = pub[<<"alias", l>>]
      /\ \A n \in Name : /\ pub'[<<"identity", n>>] = pub[<<"identity", n>>]
                         /\ pub'[<<"status", n>>] = pub[<<"status", n>>]
      /\ \A r \in Route, x \in Content : pub'[<<"fib", r, x>>] = pub[<<"fib", r, x>>]
  BY <1>5, Paths
<1>7. /\ \A l \in Link : /\ cache'[l] = cache[l] /\ (Told(l)' => Told(l))
                         /\ (l \in moved' <=> l \in moved)
                         /\ cache[l] # NULL => cache[l][1] \in Name
      /\ \A r \in Route : /\ cache'[r] = cache[r] /\ (Told(r)' => Told(r))
                          /\ (r \in moved' <=> r \in moved)
                          /\ cache[r] # NULL => cache[r] \in Content
  BY <1>1, <1>2, Members, Appearance DEF TypeOK
<1>8. LinkShown' /\ LinkOnly'
  BY <1>2, <1>6, <1>7, LinksKept
<1>9. RouteShown' /\ RouteOnly'
  BY <1>2, <1>6, <1>7 DEF RouteShown, RouteOnly
<1>10. DependentShown'
  <2> SUFFICES ASSUME NEW j \in Dependent, Told(j)', cache'[j] # NULL, Settled(j)'
               PROVE  cache'[On[j]] # NULL /\ pub'[<<"entry", cache'[On[j]][1], j>>] = cache'[j]
    BY DEF DependentShown
  <2>1. CASE j = i
    <3>1. i \notin blind' /\ new # NULL
      BY <1>2, <2>1 DEF Settled
    <3>2. QED BY <1>2, <1>4, <1>5, <2>1, <3>1
  <2>2. CASE j # i
    <3>1. cache'[j] = cache[j] /\ Told(j) /\ On[j] \in Link
      BY <1>2, <2>2, Members
    <3>2. Settled(j)
      BY <1>2, <2>2 DEF Settled
    <3>3. cache[On[j]] # NULL /\ pub[<<"entry", cache[On[j]][1], j>>] = cache[j]
      BY <3>1, <3>2 DEF DependentShown
    <3>4. cache'[On[j]] = cache[On[j]] /\ cache[On[j]][1] \in Name
      BY <1>7, <3>1, <3>3
    <3>5. QED BY <1>5, <2>2, <3>1, <3>3, <3>4
  <2>3. QED BY <2>1, <2>2
<1>11. DependentOnly'
  <2> SUFFICES ASSUME NEW j \in Dependent \ (blind' \cup Short), NEW n \in (Name \cup {NULL}) \ abandoned',
                      KindOf[j] \in registered', pub'[<<"entry", n, j>>] # NULL
               PROVE  cache'[j] # NULL /\ cache'[On[j]] # NULL /\ cache'[On[j]][1] = n
    BY DEF DependentOnly
  <2>1. On[j] \in Link /\ cache'[On[j]] = cache[On[j]]
    BY <1>7, Members
  <2>2. pub[<<"entry", n, j>>] # NULL => cache[j] # NULL /\ cache[On[j]] # NULL /\ cache[On[j]][1] = n
    BY <1>2 DEF DependentOnly
  <2>3. CASE j = i
    <3>1. CASE new = NULL
      BY <1>4, <1>5, <2>1, <2>2, <2>3, <3>1
    <3>2. CASE new # NULL
      BY <1>2, <1>4, <1>5, <2>1, <2>2, <2>3, <3>2
    <3>3. QED BY <3>1, <3>2
  <2>4. CASE j # i
    BY <1>2, <1>5, <2>1, <2>2, <2>4, Members
  <2>5. QED BY <2>3, <2>4
<1>12. QED BY <1>8, <1>9, <1>10, <1>11

LEMMA PNext == PInv /\ [Next]_vars => PInv'
<1> SUFFICES ASSUME PInv, [Next]_vars PROVE PInv'
  OBVIOUS
<1>1. CInv'
  BY CNext DEF PInv
<1>2. CASE ~Up'
  BY <1>1, <1>2 DEF PInv, LinkShown, LinkOnly, DependentShown, DependentOnly, RouteShown, RouteOnly
<1>3. CASE Up' /\ registered' = {}
  BY <1>1, <1>3
  DEF PInv, LinkShown, LinkOnly, DependentShown, DependentOnly, RouteShown, RouteOnly, Told
<1>4. ASSUME Up', Up, NEW k \in Kinds, Registers(k) PROVE PInv'
  BY <1>1, <1>4, RegistersParts DEF PInv
<1>5. ASSUME Up', Up, NEW k \in Kinds, Refused(k) PROVE PInv'
  BY <1>1, <1>5, RefusedParts DEF PInv
<1>6. ASSUME Up', Up, NEW i \in Id, NEW old \in Object(i) \cup {NULL}, NEW new \in Object(i) \cup {NULL},
             CallsBack(i, old, new)
      PROVE  PInv'
  <2>1. CASE i \in Link
    BY <1>1, <1>6, <2>1, LinkParts DEF PInv
  <2>2. CASE i \in Route
    BY <1>1, <1>6, <2>2, RouteParts DEF PInv
  <2>3. CASE i \in Dependent
    BY <1>1, <1>6, <2>3, DependentParts DEF PInv
  <2>4. QED BY <2>1, <2>2, <2>3, Members
<1>7. CASE Up' /\ Up /\ Quiet
  BY <1>1, <1>7, QuietParts DEF PInv
<1>8. QED BY <1>2, <1>3, <1>4, <1>5, <1>6, <1>7, Publishing DEF PInv

LEMMA PAlways == Spec => []PInv
<1>1. Init => PInv
  <2> SUFFICES ASSUME Init PROVE PInv
    OBVIOUS
  <2>1. CInv /\ ~Up
    BY CInit DEF Init, Up
  <2>2. QED BY <2>1 DEF PInv, LinkShown, LinkOnly, DependentShown, DependentOnly, RouteShown, RouteOnly
<1>2. QED BY <1>1, PNext, PTL DEF Spec

------------------------------------------------------------------------------
(* Once all is quiet.                                                      *)

LEMMA AtRest ==
    ASSUME PInv, Quiescent
    PROVE  /\ Up
           /\ \A i \in Id : KindOf[i] \in registered => Told(i) /\ cache[i] = kernel[i]
           /\ \A i \in Id : KindOf[i] \notin registered => cache[i] = NULL
           /\ \A i \in Dependent : KindOf[i] \in registered
<1>1. Up /\ phase = "running" /\ socket = <<>>
  BY DEF Quiescent, Up
<1>2. registered = joined /\ {"address", "neighbor"} \subseteq registered /\ unseen = {}
  BY <1>1 DEF PInv, CInv, IInv, Stage
<1>3. \A i \in Id : KindOf[i] \in registered => cache[i] = kernel[i]
  BY <1>1, <1>2, EmptyQueue DEF PInv, CInv, Notified
<1>4. \A i \in Id : KindOf[i] \notin registered => cache[i] = NULL
  BY <1>1, <1>2 DEF PInv, CInv, Notified
<1>5. QED BY <1>1, <1>2, <1>3, <1>4, Members DEF Told

\* Nothing is published by a publisher that was refused.
LEMMA Unpublished ==
    ASSUME PInv, Quiescent, NEW k \in Kinds, k \notin registered, NEW p \in PathOf(k)
    PROVE  pub[p] = NULL
<1>1. PICK n \in 1 .. 4 : Order[n] = k
  BY OrderParts
<1>2. Over(n) /\ late = {}
  BY <1>1 DEF Quiescent, Over, PInv, CInv, IInv, Lateness
<1>3. QED BY <1>1, <1>2, OrderParts DEF PInv, CInv, IInv, Swept, Remains

\* Once all is quiet what the kernel has is published as it is, under the name its
\* link has now, whatever order the kinds came in, changed and went.
THEOREM AlwaysShown == Spec => []Shown
<1>1. PInv => Shown
  <2> SUFFICES ASSUME PInv, Quiescent PROVE Shown
    BY DEF Shown
  <2>1. LinkShown /\ DependentShown /\ RouteShown
    BY DEF PInv
  <2>2. ASSUME NEW l \in Link, kernel[l] # NULL, "link" \in registered
        PROVE  /\ pub[<<"alias", l>>] = kernel[l][1]
               /\ pub[<<"identity", kernel[l][1]>>] = l
               /\ pub[<<"status", kernel[l][1]>>] = kernel[l]
    BY <2>1, <2>2, AtRest, Members DEF LinkShown
  <2>3. ASSUME NEW i \in Dependent, kernel[i] # NULL, Settled(i)
        PROVE  pub[<<"entry", kernel[On[i]][1], i>>] = kernel[i]
    <3>1. cache[i] = kernel[i] /\ cache[On[i]] # NULL /\ pub[<<"entry", cache[On[i]][1], i>>] = cache[i]
      BY <2>1, <2>3, AtRest, Members DEF DependentShown
    <3>2. cache[On[i]] = kernel[On[i]]
      BY <3>1, AtRest, Members
    <3>3. QED BY <3>1, <3>2
  <2>4. ASSUME NEW r \in Route \ moved, kernel[r] # NULL, "route" \in registered
        PROVE  pub[<<"fib", r, kernel[r]>>] = kernel[r]
    BY <2>1, <2>4, AtRest, Members DEF RouteShown
  <2>5. QED BY <2>2, <2>3, <2>4 DEF Shown
<1>2. QED BY <1>1, PAlways, PTL

\* Then no alias or status is of a link that has gone, but for names given up.
THEOREM AlwaysLinkReal == Spec => []LinkReal
<1>1. PInv => LinkReal
  <2> SUFFICES ASSUME PInv, Quiescent PROVE LinkReal
    BY DEF LinkReal
  <2>1. CASE "link" \in registered
    <3>1. LinkOnly /\ Up /\ \A l \in Link : cache[l] = kernel[l]
      BY <2>1, AtRest, Members DEF PInv
    <3>2. QED BY <2>1, <3>1 DEF LinkReal, LinkOnly
  <2>2. CASE "link" \notin registered
    BY <2>2, Unpublished, Publishers DEF LinkReal, Kinds
  <2>3. QED BY <2>1, <2>2
<1>2. QED BY <1>1, PAlways, PTL

\* Nothing is left of dependents and routes that have gone, but for those handled
\* while the link cache was behind, short addresses, names given up and rerouted
\* routes.
THEOREM AlwaysNothingLeft == Spec => []NothingLeft
<1>1. PInv => NothingLeft
  <2> SUFFICES ASSUME PInv, Quiescent PROVE NothingLeft
    BY DEF NothingLeft
  <2>1. DependentOnly /\ RouteOnly
    BY DEF PInv
  <2>2. ASSUME NEW i \in Dependent \ (blind \cup Short), NEW n \in (Name \cup {NULL}) \ abandoned,
               pub[<<"entry", n, i>>] # NULL
        PROVE  kernel[i] # NULL /\ kernel[On[i]][1] = n
    <3>1. cache[i] = kernel[i] /\ cache[i] # NULL /\ cache[On[i]] # NULL /\ cache[On[i]][1] = n
      BY <2>1, <2>2, AtRest, Members DEF DependentOnly
    <3>2. cache[On[i]] = kernel[On[i]]
      BY <3>1, AtRest, Members
    <3>3. QED BY <3>1, <3>2
  <2>3. ASSUME NEW r \in Route \ moved, NEW x \in Content, pub[<<"fib", r, x>>] # NULL
        PROVE  kernel[r] = x
    <3>1. CASE "route" \in registered
      BY <2>1, <2>3, <3>1, AtRest, Members DEF RouteOnly
    <3>2. CASE "route" \notin registered
      BY <2>3, <3>2, Unpublished, Publishers DEF Kinds
    <3>3. QED BY <3>1, <3>2
  <2>4. QED BY <2>2, <2>3 DEF NothingLeft, Real
<1>2. QED BY <1>1, PAlways, PTL
=============================================================================
