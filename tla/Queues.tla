------------------------------- MODULE Queues -------------------------------
(***************************************************************************)
(* Facts about queues of updates <<key, value>>, as Apteryx and the kernel *)
(* send them: what is said of a key in a queue, what appending an update   *)
(* and taking the oldest one changes of that, and how well a cache follows *)
(* what it is told of that way.                                            *)
(***************************************************************************)
EXTENDS Integers, Sequences, TLAPS

\* The queue has an update of key k.
Of(q, k) == \E n \in 1 .. Len(q) : q[n][1] = k

\* What the queue says of key k in the end, if anything, is v.
Says(q, k, v) ==
    \A n \in 1 .. Len(q) : q[n][1] = k =>
        q[n][2] = v \/ \E m \in 1 .. Len(q) : m > n /\ q[m][1] = k

LEMMA EmptyQueue ==
    ASSUME NEW k, NEW v PROVE ~Of(<<>>, k) /\ Says(<<>>, k, v)
BY DEF Of, Says

LEMMA AppendIndices ==
    ASSUME NEW S, NEW q \in Seq(S), NEW x \in S
    PROVE  /\ Append(q, x) \in Seq(S)
           /\ Len(q) \in Nat /\ Len(Append(q, x)) = Len(q) + 1
           /\ \A n \in 1 .. Len(q) : Append(q, x)[n] = q[n]
           /\ Append(q, x)[Len(q) + 1] = x
OBVIOUS

LEMMA TailIndices ==
    ASSUME NEW S, NEW q \in Seq(S), q # <<>>
    PROVE  /\ Tail(q) \in Seq(S) /\ Head(q) \in S
           /\ Len(q) \in Nat /\ Len(q) >= 1 /\ Len(Tail(q)) = Len(q) - 1
           /\ q[1] = Head(q)
           /\ \A n \in 1 .. Len(q) - 1 : Tail(q)[n] = q[n + 1]
OBVIOUS

LEMMA AppendOf ==
    ASSUME NEW S, NEW q \in Seq(S), NEW x \in S, NEW k
    PROVE  Of(Append(q, x), k) <=> Of(q, k) \/ k = x[1]
BY AppendIndices DEF Of

LEMMA TailOf ==
    ASSUME NEW S, NEW q \in Seq(S), q # <<>>, NEW k
    PROVE  Of(q, k) <=> Of(Tail(q), k) \/ k = Head(q)[1]
<1>1. ASSUME NEW n \in 1 .. Len(q)
      PROVE  n = 1 \/ (n - 1 \in 1 .. Len(Tail(q)) /\ Tail(q)[n - 1] = q[n])
  BY TailIndices
<1>2. ASSUME NEW n \in 1 .. Len(Tail(q))
      PROVE  n + 1 \in 1 .. Len(q) /\ Tail(q)[n] = q[n + 1]
  BY TailIndices
<1>3. 1 \in 1 .. Len(q) /\ q[1] = Head(q)
  BY TailIndices
<1>4. QED BY <1>1, <1>2, <1>3 DEF Of

LEMMA AppendSays ==
    ASSUME NEW S, NEW q \in Seq(S), NEW x \in S
    PROVE  /\ Says(Append(q, x), x[1], x[2])
           /\ \A k, v : k # x[1] /\ Says(q, k, v) => Says(Append(q, x), k, v)
<1>. DEFINE r == Append(q, x)
            last == Len(q) + 1
<1>1. /\ Len(q) \in Nat /\ Len(r) = last /\ r[last] = x
      /\ \A n \in 1 .. Len(q) : r[n] = q[n]
  BY AppendIndices
<1>. HIDE DEF r
<1>2. last \in 1 .. Len(r) /\ \A n \in 1 .. Len(r) : n # last => n \in 1 .. Len(q) /\ last > n
  BY <1>1
<1>3. Says(r, x[1], x[2])
  BY <1>1, <1>2 DEF Says
<1>4. ASSUME NEW k, NEW v, k # x[1], Says(q, k, v) PROVE Says(r, k, v)
  <2>1. ASSUME NEW n \in 1 .. Len(r), r[n][1] = k
        PROVE  r[n][2] = v \/ \E m \in 1 .. Len(r) : m > n /\ r[m][1] = k
    <3>1. n \in 1 .. Len(q) /\ q[n] = r[n]
      BY <1>1, <1>2, <1>4, <2>1
    <3>2. CASE q[n][2] = v
      BY <3>1, <3>2
    <3>3. CASE \E m \in 1 .. Len(q) : m > n /\ q[m][1] = k
      BY <1>1, <3>3
    <3>4. QED BY <1>4, <2>1, <3>1, <3>2, <3>3 DEF Says
  <2>2. QED BY <2>1 DEF Says
<1>5. QED BY <1>3, <1>4 DEF r

LEMMA TailSays ==
    ASSUME NEW S, NEW q \in Seq(S), q # <<>>, NEW k, NEW v, Says(q, k, v)
    PROVE  /\ Says(Tail(q), k, v)
           /\ Head(q)[1] = k => Head(q)[2] = v \/ Of(Tail(q), k)
<1>. DEFINE r == Tail(q)
<1>1. /\ Len(q) \in Nat /\ Len(q) >= 1 /\ Len(r) = Len(q) - 1 /\ q[1] = Head(q)
      /\ \A n \in 1 .. Len(r) : r[n] = q[n + 1]
  BY TailIndices
<1>. HIDE DEF r
<1>2. \A n \in 1 .. Len(q) : n > 1 => n - 1 \in 1 .. Len(r) /\ r[n - 1] = q[n]
  BY <1>1
<1>3. ASSUME NEW n \in 1 .. Len(r), r[n][1] = k
      PROVE  r[n][2] = v \/ \E m \in 1 .. Len(r) : m > n /\ r[m][1] = k
  <2>1. n + 1 \in 1 .. Len(q) /\ q[n + 1] = r[n]
    BY <1>1
  <2>2. CASE \E m \in 1 .. Len(q) : m > n + 1 /\ q[m][1] = k
    <3>1. PICK m \in 1 .. Len(q) : m > n + 1 /\ q[m][1] = k
      BY <2>2
    <3>2. m - 1 \in 1 .. Len(r) /\ r[m - 1] = q[m] /\ m - 1 > n
      BY <1>1, <1>2, <3>1
    <3>3. QED BY <3>1, <3>2
  <2>3. QED BY <1>3, <2>1, <2>2 DEF Says
<1>4. ASSUME q[1][1] = k PROVE q[1][2] = v \/ Of(r, k)
  BY <1>1, <1>2, <1>4 DEF Says, Of
<1>5. QED BY <1>1, <1>3, <1>4 DEF Says, r

------------------------------------------------------------------------------
(* What is seen of a key, of all that is seen now, once the first n updates *)
(* of the queue have been taken in.                                        *)

After(seen, q, n, k, v) ==
    \/ v = seen[k] /\ \A m \in 1 .. n : q[m][1] # k
    \/ \E m \in 1 .. n : q[m][1] = k /\ q[m][2] = v /\ \A l \in m + 1 .. n : q[l][1] # k

LEMMA AfterNone ==
    ASSUME NEW seen, NEW q, NEW k PROVE After(seen, q, 0, k, seen[k])
BY DEF After

LEMMA AfterOther ==
    ASSUME NEW seen, NEW q, NEW k, q[1][1] # k PROVE After(seen, q, 1, k, seen[k])
BY DEF After

\* A key the queue does not have stays as it is.
LEMMA AfterNever ==
    ASSUME NEW seen, NEW S, NEW q \in Seq(S), NEW n \in 0 .. Len(q), NEW k, ~Of(q, k),
           NEW v, After(seen, q, n, k, v)
    PROVE  v = seen[k]
<1>1. \A m \in 1 .. n : m \in 1 .. Len(q)
  OBVIOUS
<1>2. QED BY <1>1 DEF After, Of

\* In the end what is seen is what the queue says.
LEMMA AfterAll ==
    ASSUME NEW seen, NEW S, NEW q \in Seq(S), NEW k, NEW w, Says(q, k, w),
           seen[k] # w => Of(q, k), NEW v, After(seen, q, Len(q), k, v)
    PROVE  v = w
<1>1. CASE v = seen[k] /\ \A m \in 1 .. Len(q) : q[m][1] # k
  BY <1>1 DEF Of
<1>2. CASE \E m \in 1 .. Len(q) : q[m][1] = k /\ q[m][2] = v /\ \A l \in m + 1 .. Len(q) : q[l][1] # k
  <2>1. PICK m \in 1 .. Len(q) :
            q[m][1] = k /\ q[m][2] = v /\ \A l \in m + 1 .. Len(q) : q[l][1] # k
    BY <1>2
  <2>2. Len(q) \in Nat /\ \A l \in 1 .. Len(q) : l > m => l \in m + 1 .. Len(q)
    OBVIOUS
  <2>3. QED BY <2>1, <2>2 DEF Says
<1>3. QED BY <1>1, <1>2 DEF After

\* What an update at the end does not change.
LEMMA AfterAppend ==
    ASSUME NEW seen, NEW S, NEW q \in Seq(S), NEW x \in S, NEW n \in 0 .. Len(q), NEW k,
           NEW v, After(seen, Append(q, x), n, k, v)
    PROVE  After(seen, q, n, k, v)
<1>. DEFINE r == Append(q, x)
<1>1. \A m \in 1 .. n : m \in 1 .. Len(q) /\ r[m] = q[m]
  BY AppendIndices
<1>2. \A m \in 1 .. n : \A l \in m + 1 .. n : l \in 1 .. n
  OBVIOUS
<1>. HIDE DEF r
<1>3. After(seen, r, n, k, v) => After(seen, q, n, k, v)
  BY <1>1, <1>2 DEF After
<1>4. QED BY <1>3 DEF r

\* Once the oldest update has been taken in there is one less to come.
LEMMA AfterTail ==
    ASSUME NEW seen, NEW next, NEW S, NEW q \in Seq(S), q # <<>>, NEW n \in 0 .. Len(Tail(q)),
           NEW k, next[k] = IF k = Head(q)[1] THEN Head(q)[2] ELSE seen[k],
           NEW v, After(next, Tail(q), n, k, v)
    PROVE  n + 1 \in 0 .. Len(q) /\ After(seen, q, n + 1, k, v)
<1>. DEFINE r == Tail(q)
<1>1. /\ Len(q) \in Nat /\ Len(q) >= 1 /\ Len(r) = Len(q) - 1 /\ q[1] = Head(q)
      /\ \A m \in 1 .. n : r[m] = q[m + 1]
  BY TailIndices
<1>2. \A m \in 1 .. n + 1 : m = 1 \/ (m - 1 \in 1 .. n /\ (m - 1) + 1 = m)
  OBVIOUS
<1>. HIDE DEF r
<1>3. After(next, r, n, k, v)
  BY DEF r
<1>4. n + 1 \in 0 .. Len(q)
  BY <1>1 DEF r
<1>5. CASE v = next[k] /\ \A m \in 1 .. n : r[m][1] # k
  <2>1. \A m \in 2 .. n + 1 : q[m][1] # k
    <3>1. \A m \in 2 .. n + 1 : m - 1 \in 1 .. n /\ (m - 1) + 1 = m
      OBVIOUS
    <3>2. QED BY <1>1, <1>5, <3>1
  <2>2. CASE k = Head(q)[1]
    <3>1. q[1][1] = k /\ q[1][2] = v /\ 1 \in 1 .. n + 1 /\ \A m \in 1 + 1 .. n + 1 : q[m][1] # k
      BY <1>1, <1>5, <2>1, <2>2
    <3>2. QED BY <1>4, <3>1 DEF After
  <2>3. CASE k # Head(q)[1]
    <3>1. v = seen[k] /\ \A m \in 1 .. n + 1 : q[m][1] # k
      BY <1>1, <1>2, <1>5, <2>1, <2>3
    <3>2. QED BY <1>4, <3>1 DEF After
  <2>4. QED BY <2>2, <2>3
<1>6. CASE \E m \in 1 .. n : r[m][1] = k /\ r[m][2] = v /\ \A l \in m + 1 .. n : r[l][1] # k
  <2>1. PICK m \in 1 .. n : r[m][1] = k /\ r[m][2] = v /\ \A l \in m + 1 .. n : r[l][1] # k
    BY <1>6
  <2>2. m + 1 \in 1 .. n + 1 /\ q[m + 1][1] = k /\ q[m + 1][2] = v
    BY <1>1, <2>1
  <2>3. \A l \in (m + 1) + 1 .. n + 1 : q[l][1] # k
    <3>1. \A l \in (m + 1) + 1 .. n + 1 : l - 1 \in m + 1 .. n /\ l - 1 \in 1 .. n /\ (l - 1) + 1 = l
      OBVIOUS
    <3>2. QED BY <1>1, <2>1, <3>1
  <2>4. QED BY <1>4, <2>2, <2>3 DEF After
<1>7. QED BY <1>3, <1>5, <1>6 DEF After

------------------------------------------------------------------------------
(* A cache that takes in the updates of a table of indices, where 0 is the *)
(* index of what is not there, and no other one is handed out twice.       *)

\* All indices there are were handed out.
Numbered(K, now, seen, q, fresh) ==
    /\ \A k \in K : now[k] < fresh /\ seen[k] < fresh
    /\ \A n \in 1 .. Len(q) : q[n][2] < fresh

\* What the cache has right, and is there, will not be updated.
Steady(K, now, seen, q) == \A k \in K : now[k] # 0 /\ seen[k] = now[k] => ~Of(q, k)

\* No update follows one that says what is there now.
Final(now, q) ==
    \A m, n \in 1 .. Len(q) :
        m < n /\ q[m][2] # 0 /\ q[m][2] = now[q[m][1]] => q[n][1] # q[m][1]

Follows(K, now, seen, q, fresh) ==
    Numbered(K, now, seen, q, fresh) /\ Steady(K, now, seen, q) /\ Final(now, q)

\* The updates end with what is so, and what the cache has wrong is updated.
Announced(K, now, seen, q) ==
    \A k \in K : Says(q, k, now[k]) /\ (seen[k] # now[k] => Of(q, k))

LEMMA UpdateParts ==
    ASSUME NEW K, NEW V \in SUBSET Nat, NEW x \in K \X V
    PROVE  x[1] \in K /\ x[2] \in V /\ x[2] \in Nat /\ x = <<x[1], x[2]>>
<1>1. x[1] \in K /\ x[2] \in V /\ x = <<x[1], x[2]>>
  OBVIOUS
<1>2. QED BY <1>1

LEMMA FollowsCopy ==
    ASSUME NEW K, NEW now, NEW seen, NEW q, NEW fresh, Follows(K, now, seen, q, fresh)
    PROVE  Follows(K, now, now, <<>>, fresh) /\ Announced(K, now, now, <<>>)
BY EmptyQueue DEF Follows, Numbered, Steady, Final, Announced

\* Key l gets an index that is new, or none, and an update says so, or none.
LEMMA FollowsChange ==
    ASSUME NEW K, NEW V \in SUBSET Nat, NEW now \in [K -> Nat], NEW seen \in [K -> Nat],
           NEW q \in Seq(K \X V), NEW fresh \in Nat, NEW later \in Nat,
           NEW l \in K, NEW i \in Nat, i \in V, i \in {0, fresh}, i < later, fresh <= later,
           Follows(K, now, seen, q, fresh)
    PROVE  /\ Follows(K, [now EXCEPT ![l] = i], seen, q, later)
           /\ Follows(K, [now EXCEPT ![l] = i], seen, Append(q, <<l, i>>), later)
<1>. DEFINE next == [now EXCEPT ![l] = i]
<1>1. next \in [K -> Nat] /\ next[l] = i /\ \A k \in K : k # l => next[k] = now[k]
  OBVIOUS
<1>. HIDE DEF next
<1> SUFFICES ASSUME NEW r \in {q, Append(q, <<l, i>>)} PROVE Follows(K, next, seen, r, later)
  BY DEF next
<1>2. <<l, i>> \in K \X V 
  OBVIOUS
<1>3. /\ Len(q) \in Nat
      /\ \A n \in 1 .. Len(r) : \/ n \in 1 .. Len(q) /\ r[n] = q[n]
                                \/ n = Len(q) + 1 /\ r[n][1] = l /\ r[n][2] = i
  <2>1. Len(q) \in Nat
    OBVIOUS
  <2>2. CASE r = q
    BY <2>1, <2>2
  <2>3. CASE r = Append(q, <<l, i>>)
    <3>1. PICK S, x : x \in S /\ q \in Seq(S) /\ x = <<l, i>> /\ r = Append(q, x)
      BY <1>2, <2>3, Zenon
    <3>2. /\ Len(Append(q, x)) = Len(q) + 1 /\ Append(q, x)[Len(q) + 1] = x
          /\ \A n \in 1 .. Len(q) : Append(q, x)[n] = q[n]
      BY <3>1, AppendIndices
    <3>3. QED BY <2>1, <3>1, <3>2
  <2>4. QED BY <2>2, <2>3
<1>4. \A k \in K : k # l => (Of(r, k) => Of(q, k))
  BY <1>3 DEF Of
<1>5. ASSUME NEW n \in 1 .. Len(q)
      PROVE  q[n][1] \in K /\ q[n][2] \in Nat /\ q[n][2] < fresh
  <2>1. q[n] \in K \X V
    OBVIOUS
  <2>2. q[n][2] < fresh
    BY DEF Follows, Numbered
  <2>3. QED BY <2>1, <2>2, UpdateParts, Zenon
<1>6. Numbered(K, next, seen, r, later)
  <2>1. \A k \in K : next[k] < later /\ seen[k] < later
    <3>1. \A k \in K : now[k] < fresh /\ seen[k] < fresh /\ now[k] \in Nat /\ seen[k] \in Nat
      BY DEF Follows, Numbered
    <3>2. \A n \in Nat : n < fresh => n < later
      OBVIOUS
    <3>3. QED BY <1>1, <3>1, <3>2
  <2>2. ASSUME NEW n \in 1 .. Len(r) PROVE r[n][2] < later
    <3>1. CASE n \in 1 .. Len(q) /\ r[n] = q[n]
      BY <1>5, <3>1
    <3>2. CASE r[n][2] = i
      BY <3>2
    <3>3. QED BY <1>3, <3>1, <3>2
  <2>3. QED BY <2>1, <2>2 DEF Numbered
<1>7. Steady(K, next, seen, r)
  <2>1. next[l] # 0 => seen[l] # next[l]
    BY <1>1 DEF Follows, Numbered
  <2>2. QED BY <1>1, <1>4, <2>1 DEF Follows, Steady
<1>8. Final(next, r)
  <2> SUFFICES ASSUME NEW m \in 1 .. Len(r), NEW n \in 1 .. Len(r), m < n,
                      r[m][2] # 0, r[m][2] = next[r[m][1]]
               PROVE  r[n][1] # r[m][1]
    BY DEF Final
  <2>1. m \in 1 .. Len(q) /\ r[m] = q[m]
    BY <1>3
  <2>2. q[m][1] \in K /\ q[m][2] \in Nat /\ q[m][2] < fresh
    BY <1>5, <2>1
  <2>3. q[m][1] # l
    BY <1>1, <2>1, <2>2
  <2>4. q[m][2] = now[q[m][1]]
    BY <1>1, <2>1, <2>2, <2>3
  <2>5. CASE n \in 1 .. Len(q) /\ r[n] = q[n]
    BY <2>1, <2>4, <2>5 DEF Follows, Final
  <2>6. CASE r[n][1] = l
    BY <2>1, <2>3, <2>6
  <2>7. QED BY <1>3, <2>5, <2>6
<1>9. QED BY <1>6, <1>7, <1>8 DEF Follows

LEMMA AnnouncedChange ==
    ASSUME NEW K, NEW V \in SUBSET Nat, NEW now \in [K -> Nat], NEW seen \in [K -> Nat],
           NEW q \in Seq(K \X V), NEW l \in K, NEW i \in V, Announced(K, now, seen, q)
    PROVE  Announced(K, [now EXCEPT ![l] = i], seen, Append(q, <<l, i>>))
<1>. DEFINE next == [now EXCEPT ![l] = i]
            r == Append(q, <<l, i>>)
<1>1. next[l] = i /\ \A k \in K : k # l => next[k] = now[k]
  OBVIOUS
<1>2. <<l, i>> \in K \X V /\ <<l, i>>[1] = l /\ <<l, i>>[2] = i
  OBVIOUS
<1>3. Says(r, l, i) /\ \A k, v : k # l /\ Says(q, k, v) => Says(r, k, v)
  BY <1>2, AppendSays, Zenon
<1>4. \A k : Of(r, k) <=> Of(q, k) \/ k = l
  BY <1>2, AppendOf, Zenon
<1>. HIDE DEF next, r
<1>5. Announced(K, next, seen, r)
  BY <1>1, <1>3, <1>4 DEF Announced
<1>6. QED BY <1>5 DEF next, r

\* The next update is of nothing that the cache has right and is there.
LEMMA FollowsNext ==
    ASSUME NEW K, NEW S, NEW now, NEW seen, NEW q \in Seq(S), q # <<>>, NEW fresh,
           Follows(K, now, seen, q, fresh), NEW k \in K, now[k] # 0, seen[k] = now[k]
    PROVE  k # Head(q)[1]
<1>1. ~Of(q, k)
  BY DEF Follows, Steady
<1>2. QED BY <1>1, TailOf

\* The cache takes in the oldest update.
LEMMA FollowsTake ==
    ASSUME NEW K, NEW V \in SUBSET Nat, NEW now \in [K -> Nat], NEW seen \in [K -> Nat],
           NEW q \in Seq(K \X V), q # <<>>, NEW fresh \in Nat,
           Follows(K, now, seen, q, fresh)
    PROVE  Follows(K, now, [seen EXCEPT ![Head(q)[1]] = Head(q)[2]], Tail(q), fresh)
<1>. DEFINE l == Head(q)[1]
            i == Head(q)[2]
            next == [seen EXCEPT ![l] = i]
            r == Tail(q)
<1>1. l \in K /\ i \in Nat
  <2>1. Head(q) \in K \X V
    OBVIOUS
  <2>2. QED BY <2>1, UpdateParts, Zenon
<1>2. next[l] = i /\ \A k \in K : k # l => next[k] = seen[k]
  BY <1>1
<1>3. /\ Len(q) \in Nat /\ Len(q) >= 1 /\ q[1][1] = l /\ q[1][2] = i /\ 1 \in 1 .. Len(q)
      /\ \A n \in 1 .. Len(r) : n + 1 \in 1 .. Len(q) /\ r[n] = q[n + 1] /\ n + 1 > 1
  BY TailIndices
<1>4. \A k : Of(q, k) <=> Of(r, k) \/ k = l
  BY TailOf, Zenon
<1>. HIDE DEF l, i, next, r
<1>5. Numbered(K, now, next, r, fresh)
  <2>1. i < fresh
    BY <1>3 DEF Follows, Numbered
  <2>2. \A k \in K : next[k] < fresh
    BY <1>2, <2>1 DEF Follows, Numbered
  <2>3. \A n \in 1 .. Len(r) : r[n][2] < fresh
    BY <1>3 DEF Follows, Numbered
  <2>4. QED BY <2>2, <2>3 DEF Follows, Numbered
<1>6. Steady(K, now, next, r)
  <2>1. CASE now[l] # 0 /\ i = now[l]
    <3>1. \A n \in 1 .. Len(q) : 1 < n => q[n][1] # l
      BY <1>3, <2>1 DEF Follows, Final
    <3>2. ~Of(r, l)
      BY <1>3, <3>1 DEF Of
    <3>3. QED BY <1>2, <1>4, <3>2 DEF Follows, Steady
  <2>2. CASE ~(now[l] # 0 /\ i = now[l])
    BY <1>2, <1>4, <2>2 DEF Follows, Steady
  <2>3. QED BY <2>1, <2>2
<1>7. Final(now, r)
  <2>1. \A m, n \in 1 .. Len(r) : m < n => m + 1 < n + 1
    OBVIOUS
  <2>2. Final(now, q)
    BY DEF Follows
  <2>3. ASSUME NEW m \in 1 .. Len(r), NEW n \in 1 .. Len(r), m < n,
               r[m][2] # 0, r[m][2] = now[r[m][1]]
        PROVE  r[n][1] # r[m][1]
    <3>1. /\ m + 1 \in 1 .. Len(q) /\ q[m + 1] = r[m]
          /\ n + 1 \in 1 .. Len(q) /\ q[n + 1] = r[n] /\ m + 1 < n + 1
      BY <1>3, <2>1, <2>3
    <3>2. QED BY <2>2, <2>3, <3>1 DEF Final
  <2>4. QED BY <2>3 DEF Final
<1>8. QED BY <1>5, <1>6, <1>7 DEF Follows, l, i, next, r

LEMMA AnnouncedTake ==
    ASSUME NEW K, NEW V \in SUBSET Nat, NEW now \in [K -> Nat], NEW seen \in [K -> Nat],
           NEW q \in Seq(K \X V), q # <<>>, Announced(K, now, seen, q)
    PROVE  /\ Announced(K, now, [seen EXCEPT ![Head(q)[1]] = Head(q)[2]], Tail(q))
           /\ Head(q)[2] = now[Head(q)[1]] \/ Of(Tail(q), Head(q)[1])
<1>. DEFINE l == Head(q)[1]
            i == Head(q)[2]
            next == [seen EXCEPT ![l] = i]
            r == Tail(q)
<1>1. l \in K /\ i \in Nat
  <2>1. Head(q) \in K \X V
    OBVIOUS
  <2>2. QED BY <2>1, UpdateParts, Zenon
<1>2. next[l] = i /\ \A k \in K : k # l => next[k] = seen[k]
  BY <1>1
<1>3. \A k : Of(q, k) <=> Of(r, k) \/ k = l
  BY TailOf, Zenon
<1>4. \A k \in K : Says(r, k, now[k]) /\ (l = k => i = now[k] \/ Of(r, k))
  BY TailSays, Zenon DEF Announced
<1>. HIDE DEF l, i, next, r
<1>5. Announced(K, now, next, r)
  BY <1>1, <1>2, <1>3, <1>4 DEF Announced
<1>6. QED BY <1>1, <1>4, <1>5 DEF l, i, next, r
=============================================================================
