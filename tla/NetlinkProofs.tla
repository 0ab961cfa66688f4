--------------------------- MODULE NetlinkProofs ---------------------------
(***************************************************************************)
(* What holds of Netlink for every set of clients and objects, every       *)
(* socket size and every failure: the types are right, a client that has   *)
(* exited is told at most once more, and whatever the kernel does while    *)
(* callbacks are registered and called, the clients end up with what it    *)
(* has, but for the objects that changed under a registration.             *)
(***************************************************************************)
EXTENDS Netlink, Queues

\* c is in the list, after p, or anywhere if p is NULL.
Beyond(list, p, c) ==
    \E n \in 1 .. Len(list) :
        list[n] = c /\ (p = NULL \/ \E m \in 1 .. Len(list) : m < n /\ list[m] = p)

\* From the start of the modules to the end of the main loop.
Serving == main \in {"start", "dump", "prepend", "foreach", "loop"}
Exiting == main \in {"exit", "cleanup", "done"}

\* Objects keep to what they may look like.
Genuine ==
    /\ \A i \in Id : kernel[i] \in Contents[i] \cup {NULL} /\ cache[i] \in Contents[i] \cup {NULL}
    /\ monitor \in {"walk", "call"} => change \in Message
    /\ monitor = "call" => pos \in Client

\* A callback is in the list once, from its registration to its exit.
Placed ==
    /\ main \in {"dump", "prepend"} => cur \in Client \ left /\ ~Listed(cur)
    /\ main = "foreach" => cur \in Client /\ Listed(cur)
    /\ main = "cleanup" => cur \in Client \ left
    /\ main \in {"start", "dump", "prepend", "foreach"} => \A c \in left : ~Listed(c)
    /\ Exiting => \A c \in Client \ left : ~Listed(c)
    /\ held # NULL => main \in {"foreach", "dead"} /\ cur \in Client
    /\ desc \in {"none", "freed"} => callbacks = <<>>
    /\ main \in {"dump", "prepend"} => desc # "none"
    /\ desc = "freed" => main \in {"exit", "cleanup", "done", "dead"}

\* What an exited client has been told since is the last it was told.
Late == \A c \in Exited : monitor = "call" /\ pos = c => told[c] = None

TInv == TypeOK /\ Genuine /\ Placed

------------------------------------------------------------------------------
(* Lists of callbacks.                                                     *)

LEMMA FirstPlace ==
    ASSUME NEW S, NEW q \in Seq(S), NEW x \in S
    PROVE  /\ <<x>> \o q \in Seq(S) /\ Len(q) \in Nat /\ Len(<<x>> \o q) = Len(q) + 1
           /\ (<<x>> \o q)[1] = x
           /\ \A n \in 1 .. Len(q) : (<<x>> \o q)[n + 1] = q[n]
           /\ \A n \in 1 .. Len(q) + 1 : n # 1 => (<<x>> \o q)[n] = q[n - 1]
OBVIOUS

LEMMA LastPlaces ==
    ASSUME NEW S, NEW a \in Seq(S), NEW b \in Seq(S)
    PROVE  /\ a \o b \in Seq(S) /\ Len(a) \in Nat /\ Len(b) \in Nat
           /\ Len(a \o b) = Len(a) + Len(b)
           /\ \A n \in 1 .. Len(a) : (a \o b)[n] = a[n]
           /\ \A n \in Len(a) + 1 .. Len(a) + Len(b) : (a \o b)[n] = b[n - Len(a)]
OBVIOUS

Joined(a, b) == a \o b

\* r is what is left of q without its element k.
Lacks(r, q, k) ==
    /\ Len(q) \in Nat /\ Len(r) = Len(q) - 1
    /\ \A n \in 1 .. Len(r) : n < k => r[n] = q[n]
    /\ \A n \in 1 .. Len(r) : n >= k => r[n] = q[n + 1]

LEMMA JoinPlaces ==
    ASSUME NEW S, NEW q \in Seq(S), NEW k \in 1 .. Len(q),
           NEW a \in Seq(S), NEW b \in Seq(S), Len(a) = k - 1, Len(b) = Len(q) - k,
           \A n \in 1 .. Len(a) : a[n] = q[n], \A n \in 1 .. Len(b) : b[n] = q[n + k]
    PROVE  Joined(a, b) \in Seq(S) /\ Lacks(Joined(a, b), q, k)
<1>. DEFINE r == Joined(a, b)
<1>1. /\ r \in Seq(S) /\ Len(a) \in Nat /\ Len(b) \in Nat /\ Len(q) \in Nat
      /\ Len(r) = Len(a) + Len(b)
      /\ \A n \in 1 .. Len(a) : r[n] = a[n]
      /\ \A n \in Len(a) + 1 .. Len(a) + Len(b) : r[n] = b[n - Len(a)]
  BY LastPlaces DEF Joined
<1>. HIDE DEF r
<1>2. Len(r) = Len(q) - 1
  BY <1>1
<1>3. ASSUME NEW n \in 1 .. Len(r), n < k PROVE r[n] = q[n]
  BY <1>1, <1>3
<1>4. ASSUME NEW n \in 1 .. Len(r), n >= k PROVE r[n] = q[n + 1]
  <2>1. n - Len(a) \in 1 .. Len(b) /\ (n - Len(a)) + k = n + 1
    BY <1>1, <1>4
  <2>2. n \in Len(a) + 1 .. Len(a) + Len(b)
    BY <1>1, <1>4
  <2>3. r[n] = b[n - Len(a)]
    BY <1>1, <2>2
  <2>4. QED BY <2>1, <2>3
<1>5. Lacks(r, q, k)
  BY <1>1, <1>2, <1>3, <1>4 DEF Lacks
<1>6. QED BY <1>1, <1>5 DEF r

LEMMA RemovePlace ==
    ASSUME NEW S, NEW q \in Seq(S), NEW k \in 1 .. Len(q)
    PROVE  /\ SubSeq(q, 1, k - 1) \in Seq(S) /\ SubSeq(q, k + 1, Len(q)) \in Seq(S)
           /\ Len(SubSeq(q, 1, k - 1)) = k - 1 /\ Len(SubSeq(q, k + 1, Len(q))) = Len(q) - k
           /\ \A n \in 1 .. k - 1 : SubSeq(q, 1, k - 1)[n] = q[n]
           /\ \A n \in 1 .. Len(q) - k : SubSeq(q, k + 1, Len(q))[n] = q[n + k]
OBVIOUS

LEMMA FrontPlace ==
    ASSUME NEW S, NEW q \in Seq(S), NEW k \in 1 .. Len(q)
    PROVE  SubSeq(q, k, Len(q)) # <<>> /\ Head(SubSeq(q, k, Len(q))) = q[k]
OBVIOUS

LEMMA PositionPlace ==
    ASSUME NEW c, Listed(c)
    PROVE  Position(c) \in 1 .. Len(callbacks) /\ callbacks[Position(c)] = c
BY DEF Position, Listed

LEMMA PrependPlaces ==
    ASSUME TInv, Prepend
    PROVE  /\ callbacks' \in Seq(Client)
           /\ \A m, n \in 1 .. Len(callbacks') : callbacks'[m] = callbacks'[n] => m = n
           /\ \A c : Listed(c)' <=> Listed(c) \/ c = cur
<1>1. /\ cur \in Client /\ ~Listed(cur) /\ callbacks \in Seq(Client)
      /\ \A m, n \in 1 .. Len(callbacks) : callbacks[m] = callbacks[n] => m = n
      /\ callbacks' = <<cur>> \o callbacks
  BY DEF TInv, TypeOK, Placed, Prepend
<1>2. /\ callbacks' \in Seq(Client) /\ Len(callbacks) \in Nat
      /\ Len(callbacks') = Len(callbacks) + 1 /\ callbacks'[1] = cur
      /\ \A n \in 1 .. Len(callbacks) : callbacks'[n + 1] = callbacks[n]
      /\ \A n \in 1 .. Len(callbacks) + 1 : n # 1 => callbacks'[n] = callbacks[n - 1]
  <2> DEFINE r == <<cur>> \o callbacks
  <2>. cur \in Client /\ callbacks \in Seq(Client)
    BY <1>1
  <2>1. /\ r \in Seq(Client) /\ Len(callbacks) \in Nat
        /\ Len(r) = Len(callbacks) + 1 /\ r[1] = cur
        /\ \A n \in 1 .. Len(callbacks) : r[n + 1] = callbacks[n]
        /\ \A n \in 1 .. Len(callbacks) + 1 : n # 1 => r[n] = callbacks[n - 1]
    BY FirstPlace
  <2>2. callbacks' = r
    BY <1>1
  <2> HIDE DEF r
  <2>3. QED BY <2>1, <2>2
<1>3. \A n \in 1 .. Len(callbacks') : n # 1 => /\ n - 1 \in 1 .. Len(callbacks)
                                               /\ callbacks'[n] = callbacks[n - 1]
                                               /\ callbacks[n - 1] # cur
  BY <1>1, <1>2 DEF Listed
<1>4. \A c : Listed(c)' <=> Listed(c) \/ c = cur
  BY <1>2, <1>3 DEF Listed
<1>5. ASSUME NEW m \in 1 .. Len(callbacks'), NEW n \in 1 .. Len(callbacks'),
             callbacks'[m] = callbacks'[n]
      PROVE  m = n
  <2>1. CASE m = 1 \/ n = 1
    BY <1>2, <1>3, <1>5, <2>1
  <2>2. CASE m # 1 /\ n # 1
    <3>1. m - 1 = n - 1
      BY <1>1, <1>3, <1>5, <2>2
    <3>2. QED BY <3>1
  <2>3. QED BY <2>1, <2>2
<1>6. QED BY <1>2, <1>4, <1>5

LEMMA WithoutPlaces ==
    ASSUME TInv, NEW c \in Client
    PROVE  /\ Without(c) \in Seq(Client)
           /\ \A m, n \in 1 .. Len(Without(c)) : Without(c)[m] = Without(c)[n] => m = n
           /\ \A n \in 1 .. Len(Without(c)) : Without(c)[n] # c /\ Listed(Without(c)[n])
<1>1. /\ callbacks \in Seq(Client)
      /\ \A m, n \in 1 .. Len(callbacks) : callbacks[m] = callbacks[n] => m = n
  BY DEF TInv, TypeOK
<1>2. CASE ~Listed(c)
  BY <1>1, <1>2 DEF Without, Listed
<1>3. CASE Listed(c)
  <2> DEFINE at == Position(c)
             front == SubSeq(callbacks, 1, at - 1)
             back == SubSeq(callbacks, at + 1, Len(callbacks))
             r == Joined(front, back)
  <2>1. at \in 1 .. Len(callbacks) /\ callbacks[at] = c
    BY <1>3, PositionPlace
  <2>2. Without(c) = r
    BY <1>3 DEF Without, Joined
  <2> HIDE DEF at
  <2>3. /\ front \in Seq(Client) /\ back \in Seq(Client)
        /\ Len(front) = at - 1 /\ Len(back) = Len(callbacks) - at
        /\ \A n \in 1 .. at - 1 : front[n] = callbacks[n]
        /\ \A n \in 1 .. Len(callbacks) - at : back[n] = callbacks[n + at]
    BY <1>1, <2>1, RemovePlace
  <2> HIDE DEF front, back
  <2>4. /\ r \in Seq(Client) /\ Len(callbacks) \in Nat /\ Len(r) = Len(callbacks) - 1
        /\ \A n \in 1 .. Len(r) : n < at => r[n] = callbacks[n]
        /\ \A n \in 1 .. Len(r) : n >= at => r[n] = callbacks[n + 1]
    <3>1. /\ \A n \in 1 .. Len(front) : front[n] = callbacks[n]
          /\ \A n \in 1 .. Len(back) : back[n] = callbacks[n + at]
      BY <2>3
    <3>2. /\ callbacks \in Seq(Client) /\ at \in 1 .. Len(callbacks)
          /\ front \in Seq(Client) /\ back \in Seq(Client)
          /\ Len(front) = at - 1 /\ Len(back) = Len(callbacks) - at
      BY <1>1, <2>1, <2>3
    <3>3. Joined(front, back) \in Seq(Client) /\ Lacks(Joined(front, back), callbacks, at)
      BY <3>1, <3>2, JoinPlaces, Zenon
    <3>4. QED BY <3>3 DEF Lacks
  <2> HIDE DEF r
  <2>5. \A n \in 1 .. Len(r) : /\ n < at => n \in 1 .. Len(callbacks) /\ r[n] = callbacks[n]
                               /\ n >= at => n + 1 \in 1 .. Len(callbacks) /\ r[n] = callbacks[n + 1]
                               /\ n < at \/ n >= at
    <3>1. at \in Nat /\ at >= 1 /\ at <= Len(callbacks) /\ Len(r) \in Nat
      BY <2>1, <2>4
    <3>2. QED BY <2>4, <3>1
  <2>6. \A n \in 1 .. Len(r) : r[n] # c /\ Listed(r[n])
    <3>1. \A n \in 1 .. Len(r) : (n < at => n # at) /\ (n >= at => n + 1 # at)
      BY <2>1
    <3>2. QED BY <1>1, <2>1, <2>5, <3>1 DEF Listed
  <2>7. \A m, n \in 1 .. Len(r) : r[m] = r[n] => m = n
    BY <1>1, <2>1, <2>5
  <2>8. QED BY <2>2, <2>4, <2>6, <2>7
<1>4. QED BY <1>2, <1>3

\* The next callback of the walk is in the list.
LEMMA AheadPlaces ==
    ASSUME TInv, Reads, Ahead # <<>>
    PROVE  /\ Head(Ahead) \in Client /\ Listed(Head(Ahead))
<1>1. callbacks \in Seq(Client)
  BY DEF TInv, TypeOK
<1>2. CASE pos = NULL
  <2>1. callbacks # <<>> /\ Head(Ahead) = callbacks[1] /\ 1 \in 1 .. Len(callbacks)
    BY <1>1, <1>2 DEF Ahead
  <2>2. QED BY <1>1, <2>1 DEF Listed
<1>3. CASE pos # NULL
  <2> DEFINE k == Position(pos)
  <2>1. k \in 1 .. Len(callbacks) /\ Ahead = SubSeq(callbacks, k + 1, Len(callbacks))
    BY <1>3, PositionPlace DEF Reads, Ahead
  <2> HIDE DEF k
  <2>2. k + 1 \in 1 .. Len(callbacks) /\ Head(Ahead) = callbacks[k + 1]
    BY <1>1, <2>1
  <2>3. QED BY <1>1, <2>2 DEF Listed
<1>4. QED BY <1>2, <1>3

------------------------------------------------------------------------------
(* Types, and who is in the list.                                          *)

LEMMA MessageParts ==
    /\ \A m \in Message : m[1] \in Id /\ m[2] \in Contents[m[1]] \cup {NULL}
                         /\ m[2] \in Content \cup {NULL} /\ m # NULL
    /\ \A i \in Id : \A x \in Contents[i] \cup {NULL} : <<i, x>> \in Message
<1>1. \A m \in Message : m[1] \in Id /\ m[2] \in Contents[m[1]] \cup {NULL}
                         /\ m[2] \in Content \cup {NULL} /\ m \in Id \X (Content \cup {NULL})
  BY DEF Message
<1>2. \A m \in Message : m # NULL
  BY <1>1, NullAssumption
<1>3. ASSUME NEW i \in Id, NEW x \in Contents[i] \cup {NULL} PROVE <<i, x>> \in Message
  <2>1. x \in Content \cup {NULL}
    BY DEF Content
  <2>2. QED BY <2>1 DEF Message
<1>4. QED BY <1>1, <1>2, <1>3

LEMMA InitTyped == Init => TInv
<1> SUFFICES ASSUME Init PROVE TInv
  OBVIOUS
<1>1. TypeOK
  <2>1. /\ kernel \in [Id -> Content \cup {NULL}] /\ cache \in [Id -> Content \cup {NULL}]
        /\ told \in [Client -> [Id -> Content \cup {NULL}]]
    BY DEF Init, None
  <2>2. /\ socket \in Seq(Message) /\ Len(socket) <= SocketSize
        /\ callbacks \in Seq(Client) /\ Len(callbacks) = 0
    BY SizeAssumption DEF Init
  <2>3. QED
    <3>1. \A m, n \in 1 .. Len(callbacks) : callbacks[m] = callbacks[n] => m = n
      BY <2>2
    <3>2. QED BY <2>1, <2>2, <3>1 DEF Init, TypeOK
<1>2. Genuine
  BY DEF Init, Genuine, None
<1>3. Placed
  BY DEF Init, Placed, Listed, Serving, Exiting
<1>4. QED BY <1>1, <1>2, <1>3 DEF TInv

LEMMA KernelTyped == ASSUME TInv, KernelChange, UNCHANGED mngr PROVE TInv'
<1>1. PICK m \in Message :
          /\ kernel' = [kernel EXCEPT ![m[1]] = m[2]]
          /\ \/ UNCHANGED <<socket, overrun>>
             \/ Len(socket) < SocketSize /\ socket' = Append(socket, m) /\ UNCHANGED overrun
             \/ overrun' = TRUE /\ UNCHANGED socket
  BY DEF KernelChange
<1>2. m[1] \in Id /\ m[2] \in Contents[m[1]] \cup {NULL} /\ m[2] \in Content \cup {NULL}
  BY MessageParts
<1>3. UNCHANGED <<cache, desc, callbacks, mainvars, running, monvars, told, raced>>
  BY DEF KernelChange
<1>4. socket' \in Seq(Message) /\ Len(socket') <= SocketSize /\ overrun' \in BOOLEAN
  <2>1. socket \in Seq(Message) /\ Len(socket) <= SocketSize /\ overrun \in BOOLEAN
    BY DEF TInv, TypeOK
  <2>2. CASE Len(socket) < SocketSize /\ socket' = Append(socket, m) /\ UNCHANGED overrun
    <3>1. Append(socket, m) \in Seq(Message) /\ Len(Append(socket, m)) = Len(socket) + 1
          /\ Len(socket) \in Nat
      BY <2>1, AppendIndices, Zenon
    <3>2. QED BY <2>1, <2>2, <3>1, SizeAssumption
  <2>3. QED BY <1>1, <2>1, <2>2
<1>5. TypeOK'
  BY <1>1, <1>2, <1>3, <1>4 DEF TInv, TypeOK, mainvars, monvars
<1>6. Genuine'
  BY <1>1, <1>2, <1>3 DEF TInv, TypeOK, Genuine, mainvars, monvars
<1>7. Placed'
  BY <1>3 DEF TInv, Placed, Exiting, Listed, mainvars, monvars
<1>8. QED BY <1>5, <1>6, <1>7 DEF TInv

LEMMA RegisterTyped == ASSUME TInv, Register \/ Dump, UNCHANGED mngr PROVE TInv'
<1>1. TypeOK'
  <2>1. CASE Register
    BY <2>1 DEF TInv, TypeOK, Register, sys, monvars
  <2>2. CASE Dump
    BY <2>2 DEF TInv, TypeOK, Dump, sys, monvars
  <2>3. QED BY <2>1, <2>2
<1>2. Genuine'
  <2>1. CASE Register
    BY <2>1 DEF TInv, Genuine, Register, sys, monvars
  <2>2. CASE Dump
    BY <2>2 DEF TInv, Genuine, Dump, sys, monvars
  <2>3. QED BY <2>1, <2>2
<1>3. Placed'
  <2>1. CASE Register
    <3>1. PICK c \in left :
              /\ left' = left \ {c}
              /\ main' \in {"dump", "prepend"} => cur' = c
              /\ main' \in {"dump", "prepend", "start"}
              /\ desc' = desc \/ (desc = "none" /\ desc' \in {"joined", "hollow"})
              /\ main' \in {"dump", "prepend"} => desc' # "none"
      BY <2>1 DEF Register
    <3>2. UNCHANGED <<callbacks, held>> /\ main = "start" /\ c \in Client
      BY <2>1, <3>1 DEF Register, TInv, TypeOK
    <3>3. \A d : Listed(d)' <=> Listed(d)
      BY <3>2 DEF Listed
    <3>4. QED BY <3>1, <3>2, <3>3 DEF TInv, Placed, Exiting
  <2>2. CASE Dump
    <3>1. \A d : Listed(d)' <=> Listed(d)
      BY <2>2 DEF Listed, Dump
    <3>2. QED BY <2>2, <3>1 DEF TInv, TypeOK, Placed, Dump, Exiting
  <2>3. QED BY <2>1, <2>2
<1>4. QED BY <1>1, <1>2, <1>3 DEF TInv

LEMMA PrependTyped == ASSUME TInv, Prepend, UNCHANGED mngr PROVE TInv'
<1>1. /\ callbacks' \in Seq(Client)
      /\ \A m, n \in 1 .. Len(callbacks') : callbacks'[m] = callbacks'[n] => m = n
      /\ \A c : Listed(c)' <=> Listed(c) \/ c = cur
  BY PrependPlaces
<1>2. TypeOK'
  BY <1>1 DEF TInv, TypeOK, Prepend, sys, monvars
<1>3. Genuine'
  BY DEF TInv, Genuine, Prepend, sys, monvars
<1>4. Placed'
  BY <1>1 DEF TInv, Placed, Prepend, Exiting
<1>5. QED BY <1>2, <1>3, <1>4 DEF TInv

LEMMA TellTyped == ASSUME TInv, Fetch \/ Tell \/ Cleanup, UNCHANGED mngr PROVE TInv'
<1>1. UNCHANGED <<sys, cache, desc, callbacks, left, cur, running, monvars, raced>>
      /\ \A c : Listed(c)' <=> Listed(c)
  BY DEF Fetch, Tell, Cleanup, Listed
<1>2. \A m \in Message : m[1] \in Id /\ m[2] \in Content \cup {NULL}
  BY MessageParts
<1>3. TypeOK'
  <2>1. CASE Fetch
    <3>1. PICK i \in unseen : held' = <<i, cache[i]>> /\ unseen' = unseen \ {i}
      BY <2>1 DEF Fetch
    <3>2. held' \in Message
      <4>1. i \in Id /\ cache[i] \in Contents[i] \cup {NULL}
        BY <3>1 DEF TInv, TypeOK, Genuine
      <4>2. QED BY <3>1, <4>1, MessageParts
    <3>3. QED BY <1>1, <2>1, <3>1, <3>2 DEF TInv, TypeOK, Fetch, sys, monvars
  <2>2. CASE Tell
    <3>1. cur \in Client /\ held \in Message /\ held[1] \in Id /\ held[2] \in Content \cup {NULL}
      BY <1>2, <2>2 DEF TInv, TypeOK, Placed, Tell
    <3>2. told' \in [Client -> [Id -> Content \cup {NULL}]]
      BY <2>2, <3>1 DEF TInv, TypeOK, Tell
    <3>3. QED BY <1>1, <2>2, <3>2 DEF TInv, TypeOK, Tell, sys, monvars
  <2>3. CASE Cleanup
    <3>1. told' \in [Client -> [Id -> Content \cup {NULL}]]
      BY <2>3 DEF TInv, TypeOK, Cleanup, None
    <3>2. QED BY <1>1, <2>3, <3>1 DEF TInv, TypeOK, Cleanup, sys, monvars
  <2>4. QED BY <2>1, <2>2, <2>3
<1>4. Genuine'
  BY <1>1 DEF TInv, Genuine, sys, monvars
<1>5. Placed'
  <2>1. CASE Fetch
    BY <1>1, <2>1 DEF TInv, Placed, Exiting, Fetch
  <2>2. CASE Tell
    BY <1>1, <2>2 DEF TInv, Placed, Exiting, Tell
  <2>3. CASE Cleanup
    BY <1>1, <2>3 DEF TInv, Placed, Exiting, Cleanup
  <2>4. QED BY <2>1, <2>2, <2>3
<1>6. QED BY <1>3, <1>4, <1>5 DEF TInv

\* The steps of the main thread that only move it on.
LEMMA MoveTyped == ASSUME TInv, Told \/ Run \/ Terminate \/ Leave \/ Join, UNCHANGED mngr PROVE TInv'
<1>1. /\ UNCHANGED <<sys, cache, desc, callbacks, cur, unseen, held, monvars, told, raced>>
      /\ running' \in BOOLEAN
      /\ \A c : Listed(c)' <=> Listed(c)
  BY DEF Told, Run, Terminate, Leave, Join, Listed, mainvars, TInv, TypeOK
<1>2. \/ Told /\ main = "foreach" /\ main' = "start" /\ held = NULL /\ left' = left
      \/ Run /\ main = "start" /\ main' = "loop" /\ left' = left
      \/ Terminate /\ main' = main /\ left' = left
      \/ Leave /\ main \in {"loop", "start"} /\ main' = "exit" /\ left' = Client
      \/ Join /\ main = "exit" /\ main' = "done" /\ left' = left
  BY DEF Told, Run, Terminate, Leave, Join, mainvars
<1>3. TypeOK'
  BY <1>1, <1>2 DEF TInv, TypeOK, sys, monvars
<1>4. Genuine'
  BY <1>1 DEF TInv, Genuine, sys, monvars
<1>5. Placed'
  BY <1>1, <1>2 DEF TInv, Placed, Exiting
<1>6. QED BY <1>3, <1>4, <1>5 DEF TInv

LEMMA UnregisterTyped == ASSUME TInv, Unregister, UNCHANGED mngr PROVE TInv'
<1>1. PICK c \in left :
          /\ left' = left \ {c} /\ main' = "cleanup" /\ cur' = c
          /\ \/ desc \in {"none", "freed"} /\ UNCHANGED <<callbacks, desc>>
             \/ /\ callbacks' = Without(c)
                /\ \/ Without(c) # <<>> /\ desc' = desc /\ desc \notin {"none", "freed"}
                   \/ Without(c) = <<>> /\ desc' \in {"freed", "none"}
  BY DEF Unregister
<1>2. /\ UNCHANGED <<sys, cache, unseen, held, running, monvars, told, raced>>
      /\ main = "exit" /\ c \in Client
  BY <1>1 DEF Unregister, TInv, TypeOK
<1>3. /\ callbacks' \in Seq(Client)
      /\ \A m, n \in 1 .. Len(callbacks') : callbacks'[m] = callbacks'[n] => m = n
      /\ \A n \in 1 .. Len(callbacks') : callbacks'[n] # c /\ Listed(callbacks'[n])
  <2>1. CASE callbacks' = Without(c)
    BY <1>2, <2>1, WithoutPlaces
  <2>2. CASE desc \in {"none", "freed"} /\ callbacks' = callbacks
    <3>1. callbacks' = <<>>
      BY <2>2 DEF TInv, Placed
    <3>2. QED BY <3>1
  <2>3. QED BY <1>1, <2>1, <2>2
<1>4. \A d : Listed(d)' => Listed(d) /\ d # c
  BY <1>3 DEF Listed
<1>5. TypeOK'
  BY <1>1, <1>2, <1>3 DEF TInv, TypeOK, sys, monvars
<1>6. Genuine'
  BY <1>2 DEF TInv, Genuine, sys, monvars
<1>7. Placed'
  BY <1>1, <1>2, <1>4 DEF TInv, Placed, Exiting
<1>8. QED BY <1>5, <1>6, <1>7 DEF TInv

LEMMA ReceiveTyped == ASSUME TInv, Receive, UNCHANGED mngr PROVE TInv'
<1>1. /\ socket \in Seq(Message) /\ socket # <<>> /\ socket' = Tail(socket)
      /\ UNCHANGED <<kernel, overrun, desc, callbacks, mainvars, running, told>>
      /\ \A c : Listed(c)' <=> Listed(c)
  BY DEF Receive, TInv, TypeOK, Listed
<1>2. PICK m : m = Head(socket)
  OBVIOUS
<1>3. /\ socket' \in Seq(Message) /\ Len(socket') <= SocketSize /\ m \in Message
  <2>1. /\ Tail(socket) \in Seq(Message) /\ Head(socket) \in Message
        /\ Len(socket) \in Nat /\ Len(Tail(socket)) = Len(socket) - 1
    BY <1>1, TailIndices, Zenon
  <2>2. QED BY <1>1, <1>2, <2>1, SizeAssumption DEF TInv, TypeOK
<1>4. m[1] \in Id /\ m[2] \in Contents[m[1]] \cup {NULL} /\ m[2] \in Content \cup {NULL}
      /\ <<m[1], m[2]>> \in Message
  BY <1>3, MessageParts
<1>5. \/ UNCHANGED <<cache, monvars, raced>>
      \/ /\ cache' = [cache EXCEPT ![m[1]] = m[2]]
         /\ change' = <<m[1], m[2]>> /\ pos' = NULL /\ monitor' = "walk"
         /\ raced' = (raced \ (Client \X {m[1]})) \cup
                        (IF held # NULL /\ held[1] = m[1] THEN {<<cur, m[1]>>} ELSE {})
  BY <1>2 DEF Receive
<1>6. held # NULL => cur \in Client
  BY DEF TInv, Placed
<1>7. raced' \subseteq Client \X Id
  BY <1>4, <1>5, <1>6 DEF TInv, TypeOK
<1>8. TypeOK'
  <2>1. /\ cache' \in [Id -> Content \cup {NULL}] /\ change' \in Message \cup {NULL}
        /\ monitor' \in {"poll", "walk", "call", "stopped"} /\ pos' \in Client \cup {NULL}
    BY <1>4, <1>5 DEF TInv, TypeOK, monvars
  <2>2. QED BY <1>1, <1>3, <1>7, <2>1 DEF TInv, TypeOK, mainvars
<1>9. Genuine'
  BY <1>1, <1>4, <1>5 DEF TInv, TypeOK, Genuine, mainvars, monvars
<1>10. Placed'
  BY <1>1 DEF TInv, Placed, Exiting, mainvars
<1>11. QED BY <1>8, <1>9, <1>10 DEF TInv

LEMMA WalkTyped == ASSUME TInv, Walk \/ Call \/ Stray \/ PollNothing \/ Stop, UNCHANGED mngr PROVE TInv'
<1>1. /\ UNCHANGED <<sys, cache, desc, callbacks, left, cur, unseen, held, change, raced>>
      /\ \A c : Listed(c)' <=> Listed(c)
  BY DEF Walk, Call, Stray, PollNothing, Stop, Listed, mainvars, monvars
<1>2. CASE Walk
  <2>1. /\ Ahead # <<>> => Head(Ahead) \in Client
        /\ \/ monitor' = "poll" /\ UNCHANGED pos
           \/ monitor = "walk" /\ monitor' = "call" /\ pos' = Head(Ahead) /\ Ahead # <<>>
        /\ UNCHANGED <<main, running, told>>
    BY <1>2, AheadPlaces DEF Walk, mainvars
  <2>2. TypeOK' /\ Genuine'
    BY <1>1, <2>1 DEF TInv, TypeOK, Genuine, sys
  <2>3. Placed'
    BY <1>1, <2>1 DEF TInv, Placed, Exiting
  <2>4. QED BY <2>2, <2>3 DEF TInv
<1>3. CASE Call
  <2>1. /\ change \in Message /\ pos \in Client /\ change[1] \in Id
        /\ change[2] \in Content \cup {NULL}
        /\ monitor' = "walk" /\ UNCHANGED <<main, running, pos>> /\ monitor = "call"
    BY <1>3, MessageParts DEF TInv, Genuine, Call, mainvars
  <2>2. told' \in [Client -> [Id -> Content \cup {NULL}]]
    BY <1>3, <2>1 DEF TInv, TypeOK, Call
  <2>3. TypeOK' /\ Genuine'
    BY <1>1, <2>1, <2>2 DEF TInv, TypeOK, Genuine, sys
  <2>4. Placed'
    BY <1>1, <2>1 DEF TInv, Placed, Exiting
  <2>5. QED BY <2>3, <2>4 DEF TInv
<1>4. CASE Stray \/ PollNothing \/ Stop
  <2>1. /\ main' \in {main, "dead"} /\ monitor' \in {monitor, "poll", "stopped"}
        /\ running' \in BOOLEAN /\ UNCHANGED <<pos, told>>
    BY <1>4 DEF Stray, PollNothing, Stop, mainvars, monvars, TInv, TypeOK
  <2>2. TypeOK' /\ Genuine'
    BY <1>1, <2>1 DEF TInv, TypeOK, Genuine, sys
  <2>3. Placed'
    BY <1>1, <2>1 DEF TInv, Placed, Exiting
  <2>4. QED BY <2>2, <2>3 DEF TInv
<1>5. QED BY <1>2, <1>3, <1>4

LEMMA TypedNext == TInv /\ [Next]_vars => TInv'
<1> SUFFICES ASSUME TInv, [Next]_vars PROVE TInv'
  OBVIOUS
<1>1. CASE UNCHANGED vars
  BY <1>1 DEF TInv, TypeOK, Genuine, Placed, Exiting, Listed, vars, sys, mainvars, monvars
<1>2. QED
  BY <1>1, KernelTyped, RegisterTyped, PrependTyped, TellTyped, MoveTyped, UnregisterTyped,
     ReceiveTyped, WalkTyped
  DEF Next, Live, MainStep, MonitorStep

\* The types are right: whoever registers, exits and is called, no callback is in the
\* list twice, and what is told is an object that may look like that.
THEOREM TypeCorrect == Spec => []TypeOK
<1>1. Init => TInv
  BY InitTyped
<1>2. TInv /\ [Next]_vars => TInv'
  BY TypedNext
<1>3. TInv => TypeOK
  BY DEF TInv
<1>4. QED BY <1>1, <1>2, <1>3, PTL DEF Spec

------------------------------------------------------------------------------
(* What an exited client is told.                                          *)

LEMMA LateNext == TInv /\ Late /\ [Next]_vars => Late'
<1> SUFFICES ASSUME TInv, Late, [Next]_vars, NEW c \in Exited', monitor' = "call", pos' = c
             PROVE  told'[c] = None
  BY DEF Late, None
<1>1. c \in Client \ left' /\ main' \in {"exit", "cleanup", "done"} /\ ~(main' = "cleanup" /\ c = cur')
  BY DEF Exited
<1>2. CASE Walk
  <2>1. Listed(c) /\ c \in Client \ left /\ main \in {"exit", "cleanup", "done"}
    BY <1>1, <1>2, AheadPlaces DEF Walk, mainvars
  <2>2. QED BY <2>1 DEF TInv, Placed, Exiting
<1>3. CASE Cleanup
  <2>1. CASE c = cur
    BY <1>1, <1>3, <2>1 DEF Cleanup, TInv, TypeOK
  <2>2. CASE c # cur
    BY <1>1, <1>3, <2>2 DEF Cleanup, Late, Exited, TInv, TypeOK, monvars
  <2>3. QED BY <2>1, <2>2
<1>4. CASE Leave
  BY <1>1, <1>4 DEF Leave
<1>5. CASE Unregister
  BY <1>1, <1>5 DEF Unregister, Late, Exited, monvars
<1>6. CASE KernelChange \/ Terminate \/ Join \/ UNCHANGED vars
  BY <1>1, <1>6 DEF KernelChange, Terminate, Join, vars, mainvars, monvars, Late, Exited
<1>7. CASE Register \/ Dump \/ Prepend \/ Fetch \/ Tell \/ Told \/ Run
  BY <1>1, <1>7 DEF Register, Dump, Prepend, Fetch, Tell, Told, Run
<1>8. CASE Receive
  BY <1>1, <1>8 DEF Receive, mainvars, monvars, Late, Exited
<1>9. CASE Call \/ Stray \/ PollNothing \/ Stop
  BY <1>9 DEF Call, Stray, PollNothing, Stop, monvars
<1>10. QED
  BY <1>2, <1>3, <1>4, <1>5, <1>6, <1>7, <1>8, <1>9 DEF Next, Live, MainStep, MonitorStep

\* A callback that the monitor thread was about to make when its client exited is the
\* last one: what an exited client was told late is never followed by another change.
THEOREM LastWord == Spec => OneLate
<1>1. Init => TInv /\ Late
  BY InitTyped DEF Init, Late, Exited
<1>2. TInv /\ Late /\ [Next]_vars => TInv' /\ Late'
  BY TypedNext, LateNext
<1>3. ASSUME TInv, Late, [Next]_vars
      PROVE  [\A c \in Exited : told[c] # None => told'[c] = told[c]]_vars
  <2> SUFFICES ASSUME NEW c \in Exited, told[c] # None PROVE told'[c] = told[c]
    OBVIOUS
  <2>1. main \in {"exit", "cleanup", "done"} /\ c \in Client /\ (main = "cleanup" => c # cur)
    BY DEF Exited
  <2>2. CASE Cleanup
    BY <1>3, <2>1, <2>2 DEF Cleanup, TInv, TypeOK
  <2>3. CASE Call
    <3>1. pos # c
      BY <1>3, <2>3 DEF Call, Late
    <3>2. told' = [told EXCEPT ![pos][change[1]] = change[2]] /\ c \in DOMAIN told
      BY <1>3, <2>1, <2>3 DEF Call, TInv, TypeOK
    <3>3. QED BY <3>1, <3>2
  <2>4. CASE Tell
    BY <2>1, <2>4 DEF Tell
  <2>5. CASE UNCHANGED told
    BY <2>5
  <2>6. UNCHANGED told \/ Cleanup \/ Call \/ Tell
    BY <1>3 DEF Next, Live, MainStep, MonitorStep, KernelChange, Register, Dump, Prepend, Fetch, Told,
                Run, Leave, Unregister, Join, Terminate, Receive, Walk, Stray, PollNothing, Stop, vars
  <2>7. QED BY <2>2, <2>3, <2>4, <2>5, <2>6
<1>4. QED BY <1>1, <1>2, <1>3, PTL DEF Spec, OneLate

------------------------------------------------------------------------------

\* The descriptor while the daemon is in service: the cache is filled before a
\* callback is registered, and stays.
Ready ==
    Serving =>
        /\ main = "dump" <=> desc = "joined"
        /\ desc = "none" => socket = <<>>
        /\ desc = "joined" => callbacks = <<>>
        /\ monitor \in {"walk", "call"} => desc = "live" /\ cache[change[1]] = change[2]
        /\ pos # NULL => Listed(pos)
        /\ main # "foreach" => held = NULL
        /\ held # NULL => held[2] # NULL /\ held[1] \notin unseen

\* The notifications end with what is so, and what the cache has wrong is notified.
Notified ==
    Serving /\ ~overrun =>
        /\ desc \in {"joined", "live"} => \A i \in Id : Says(socket, i, kernel[i])
        /\ desc = "live" => \A i \in Id : cache[i] # kernel[i] => Of(socket, i)

\* The change being delivered is of i, and c is still to be told of it.
Due(c, i) ==
    /\ monitor \in {"walk", "call"} /\ change[1] = i
    /\ Beyond(callbacks, pos, c) \/ (monitor = "call" /\ pos = c)

\* Registration is about to tell c of object i.
Fetched(c, i) == main = "foreach" /\ c = cur /\ held # NULL /\ held[1] = i

Unfetched(c, i) == main = "foreach" /\ c = cur /\ i \in unseen

\* Registered clients have been told what the cache has, or will be.
Truthful(c, i) ==
    \/ told[c][i] = cache[i] \/ <<c, i>> \in raced \/ Due(c, i)
    \/ Fetched(c, i) /\ held[2] = cache[i]
    \/ Unfetched(c, i) /\ told[c][i] = NULL

\* Even of the raced objects they have been told something, or will be.
Informed(c, i) ==
    cache[i] # NULL => told[c][i] # NULL \/ Due(c, i) \/ Fetched(c, i) \/ Unfetched(c, i)

Faithful ==
    Serving =>
        /\ \A c \in Client : ~Listed(c) => told[c] = None
        /\ held # NULL => held[2] = cache[held[1]] \/ <<cur, held[1]>> \in raced
        /\ desc = "live" => \A c \in Client, i \in Id :
                                Listed(c) => Truthful(c, i) /\ Informed(c, i)

MInv == TInv /\ Ready /\ Notified /\ Faithful

LEMMA ServingBefore == ASSUME [Next]_vars, Serving' PROVE Serving
BY DEF Next, Live, MainStep, MonitorStep, KernelChange, Register, Dump, Prepend, Fetch, Tell, Told, Run,
       Leave, Unregister, Cleanup, Join, Terminate, Receive, Walk, Call, Stray, PollNothing, Stop,
       Serving, vars, mainvars

LEMMA ReadyInit == Init => Ready
<1> SUFFICES ASSUME Init PROVE Ready
  OBVIOUS
<1>1. QED BY DEF Init, Ready, Listed

LEMMA ReadyNext == ASSUME TInv, Ready, [Next]_vars PROVE Ready'
<1> SUFFICES ASSUME Serving', Serving PROVE Ready'
  BY ServingBefore DEF Ready
<1> USE DEF Serving
<1>1. CASE KernelChange
  <2>1. /\ UNCHANGED <<cache, desc, callbacks, main, held, unseen, change, pos, monitor>>
        /\ desc = "none" => UNCHANGED socket
    BY <1>1 DEF KernelChange, mainvars, monvars
  <2>2. QED BY <2>1 DEF Ready, Listed
<1>2. CASE Register
  <2>1. /\ UNCHANGED <<cache, callbacks, held, unseen, change, pos, monitor, socket>>
        /\ main = "start"
        /\ \/ desc # "none" /\ desc' = desc /\ main' = "prepend"
           \/ desc = "none" /\ main' = "dump" /\ desc' = "joined"
           \/ desc = "none" /\ main' = main /\ desc' = "hollow"
           \/ UNCHANGED <<main, desc>>
    BY <1>2 DEF Register, sys, monvars
  <2>2. desc = "none" => callbacks = <<>>
    BY DEF TInv, Placed
  <2>3. QED BY <2>1, <2>2 DEF Ready, Listed
<1>3. CASE Dump
  <2>1. /\ UNCHANGED <<callbacks, held, unseen, change, pos, monitor, socket>>
        /\ desc = "joined" /\ desc' \in {"live", "unmanaged"} /\ main' \in {"prepend", "start"}
    BY <1>3 DEF Dump, sys, monvars, Ready
  <2>2. QED BY <2>1 DEF Ready, Listed
<1>4. CASE Prepend
  <2>1. /\ UNCHANGED <<cache, desc, held, change, pos, monitor, socket>>
        /\ main = "prepend" /\ main' # "dump"
        /\ \A c : Listed(c) => Listed(c)'
    BY <1>4, PrependPlaces DEF Prepend, sys, monvars
  <2>2. QED BY <2>1 DEF Ready
<1>5. CASE Fetch
  <2>1. /\ UNCHANGED <<cache, desc, callbacks, main, change, pos, monitor, socket>>
        /\ main = "foreach" /\ held = NULL
    BY <1>5 DEF Fetch, sys, monvars
  <2>2. held'[2] # NULL /\ held'[1] \notin unseen'
    BY <1>5 DEF Fetch
  <2>3. QED BY <2>1, <2>2 DEF Ready, Listed
<1>6. CASE Tell \/ Told \/ Run \/ Terminate
  <2>1. /\ UNCHANGED <<cache, desc, callbacks, unseen, change, pos, monitor, socket>>
        /\ main \in {"foreach", "start", "loop"} /\ main' \in {"foreach", "start", "loop"}
        /\ held' = NULL \/ UNCHANGED <<held, main>>
    <3>1. CASE Tell \/ Told
      BY <3>1 DEF Tell, Told, sys, monvars
    <3>2. CASE Run
      <4>1. main = "start" /\ held = NULL
        BY <3>2 DEF Run, Ready
      <4>2. QED BY <3>2, <4>1 DEF Run, sys, monvars
    <3>3. CASE Terminate
      BY <3>3 DEF Terminate, sys, monvars, mainvars
    <3>4. QED BY <1>6, <3>1, <3>2, <3>3
  <2>2. QED BY <2>1 DEF Ready, Listed
<1>7. CASE Receive
  <2>1. UNCHANGED <<desc, callbacks, main, held, unseen>> /\ socket # <<>>
    BY <1>7 DEF Receive, mainvars
  <2>2. desc # "none"
    BY <2>1 DEF Ready
  <2>3. \/ UNCHANGED <<cache, change, pos, monitor>>
        \/ desc = "live" /\ cache'[change'[1]] = change'[2] /\ pos' = NULL
    <3>1. PICK m : m = Head(socket)
      OBVIOUS
    <3>2. m[1] \in Id
      BY <2>1, <3>1, TailIndices, MessageParts DEF TInv, TypeOK
    <3>3. desc # "freed"
      BY DEF TInv, Placed
    <3>4. \/ UNCHANGED <<cache, monvars>>
          \/ /\ desc = "live" /\ cache' = [cache EXCEPT ![m[1]] = m[2]]
             /\ change' = <<m[1], m[2]>> /\ pos' = NULL
      BY <1>7, <3>1, <3>3 DEF Receive
    <3>5. QED BY <3>2, <3>4 DEF TInv, TypeOK, monvars
  <2>4. QED BY <2>1, <2>2, <2>3 DEF Ready, Listed
<1>8. CASE Walk
  <2>1. /\ UNCHANGED <<cache, desc, callbacks, main, held, unseen, change, socket>>
        /\ monitor = "walk"
        /\ UNCHANGED pos \/ Listed(pos')
    BY <1>8, AheadPlaces DEF Walk, mainvars, sys
  <2>2. QED BY <2>1 DEF Ready, Listed
<1>9. CASE Call \/ Stray \/ Stop
  <2>1. /\ UNCHANGED <<cache, desc, callbacks, main, held, unseen, change, pos, socket>>
        /\ monitor' \in {"walk", "call"} => monitor \in {"walk", "call"}
    BY <1>9 DEF Call, Stray, Stop, mainvars, sys
  <2>2. QED BY <2>1 DEF Ready, Listed
<1>10. CASE UNCHANGED vars
  BY <1>10 DEF Ready, Listed, vars, sys, mainvars, monvars
<1>11. CASE Leave \/ Unregister \/ Cleanup \/ Join
  BY <1>11 DEF Leave, Unregister, Cleanup, Join
<1>12. CASE PollNothing
  BY <1>12 DEF PollNothing
<1>13. QED
  BY <1>1, <1>2, <1>3, <1>4, <1>5, <1>6, <1>7, <1>8, <1>9, <1>10, <1>11, <1>12
  DEF Next, Live, MainStep, MonitorStep

------------------------------------------------------------------------------
(* What is on its way from the kernel.                                     *)

LEMMA NotifiedInit == Init => Notified
BY DEF Init, Notified

LEMMA NotifiedNext == ASSUME TInv, Ready, Notified, [Next]_vars PROVE Notified'
<1> SUFFICES ASSUME Serving', Serving, ~overrun' PROVE Notified'
  BY ServingBefore DEF Notified
<1> USE DEF Serving
<1>1. CASE KernelChange
  <2>1. PICK m \in Message :
            /\ kernel' = [kernel EXCEPT ![m[1]] = m[2]]
            /\ IF desc \notin {"joined", "live", "freed"} THEN UNCHANGED <<socket, overrun>>
               ELSE socket' = Append(socket, m) /\ UNCHANGED overrun
    BY <1>1 DEF KernelChange
  <2>2. UNCHANGED <<desc, cache>>
    BY <1>1 DEF KernelChange
  <2>3. CASE desc \in {"joined", "live"}
    <3>1. socket \in Seq(Message) /\ m[1] \in Id /\ socket' = Append(socket, m) /\ ~overrun
      BY <2>1, <2>3, MessageParts DEF TInv, TypeOK
    <3>2. /\ Says(Append(socket, m), m[1], m[2])
          /\ \A k, v : k # m[1] /\ Says(socket, k, v) => Says(Append(socket, m), k, v)
      BY <3>1, AppendSays, Zenon
    <3>3. \A k : Of(Append(socket, m), k) <=> Of(socket, k) \/ k = m[1]
      BY <3>1, AppendOf, Zenon
    <3>4. \A i \in Id : kernel'[i] = IF i = m[1] THEN m[2] ELSE kernel[i]
      BY <2>1, <3>1 DEF TInv, TypeOK
    <3>5. QED BY <2>2, <3>1, <3>2, <3>3, <3>4 DEF Notified
  <2>4. CASE desc \notin {"joined", "live"}
    BY <2>2, <2>4 DEF Notified
  <2>5. QED BY <2>3, <2>4
<1>2. CASE Register
  <2>1. /\ UNCHANGED <<kernel, socket, overrun, cache>>
        /\ desc' = desc \/ (desc' # "live" /\ socket = <<>>)
    BY <1>2 DEF Register, sys, Ready
  <2>2. \A k, v : Says(<<>>, k, v)
    BY EmptyQueue
  <2>3. CASE desc' = desc
    BY <2>1, <2>3 DEF Notified
  <2>4. CASE socket = <<>> /\ desc' # "live"
    BY <2>1, <2>2, <2>4 DEF Notified
  <2>5. QED BY <2>1, <2>3, <2>4
<1>3. CASE Dump
  <2>1. /\ UNCHANGED <<kernel, socket, overrun>> /\ desc = "joined"
        /\ \/ desc' = "live" /\ cache' = kernel
           \/ desc' = "unmanaged"
    BY <1>3 DEF Dump, sys, Ready
  <2>2. QED BY <2>1 DEF Notified
<1>4. CASE Receive
  <2>1. UNCHANGED <<kernel, overrun, desc, main>>
    BY <1>4 DEF Receive, mainvars
  <2>2. PICK m : m = Head(socket)
    OBVIOUS
  <2>3. /\ socket \in Seq(Message) /\ socket # <<>> /\ socket' = Tail(socket)
        /\ m \in Message /\ m[1] \in Id
    <3>1. socket \in Seq(Message) /\ socket # <<>> /\ socket' = Tail(socket)
      BY <1>4 DEF Receive, TInv, TypeOK
    <3>2. Head(socket) \in Message
      BY <3>1, TailIndices, Zenon
    <3>3. QED BY <2>2, <3>1, <3>2, MessageParts
  <2>4. \A i : Of(socket, i) <=> Of(socket', i) \/ i = m[1]
    BY <2>2, <2>3, TailOf
  <2>5. \A i, v : Says(socket, i, v) => Says(socket', i, v) /\ (m[1] = i => m[2] = v \/ Of(socket', i))
    BY <2>2, <2>3, TailSays
  <2>6. desc = "live" => \A i \in Id : cache'[i] = IF i = m[1] THEN m[2] ELSE cache[i]
    <3>1. desc = "live" => \/ cache' = [cache EXCEPT ![m[1]] = m[2]]
                           \/ cache[m[1]] = m[2] /\ UNCHANGED cache
      BY <1>4, <2>2 DEF Receive
    <3>2. QED BY <3>1 DEF TInv, TypeOK
  <2>7. QED BY <2>1, <2>4, <2>5, <2>6 DEF Notified
<1>5. CASE UNCHANGED <<kernel, socket, overrun, desc, cache>>
  BY <1>5 DEF Notified
<1>7. \/ KernelChange \/ Register \/ Dump \/ Receive
      \/ UNCHANGED <<kernel, socket, overrun, desc, cache>>
  <2>1. CASE Prepend \/ Fetch \/ Tell \/ Told \/ Run
    BY <2>1 DEF Prepend, Fetch, Tell, Told, Run, sys
  <2>2. CASE Terminate \/ Walk \/ Call \/ Stray \/ Stop \/ UNCHANGED vars
    BY <2>2 DEF Terminate, Walk, Call, Stray, Stop, vars, sys
  <2>3. CASE Leave \/ Unregister \/ Cleanup \/ Join
    BY <2>3 DEF Leave, Unregister, Cleanup, Join
  <2>4. CASE PollNothing
    BY <2>4 DEF PollNothing, sys
  <2>5. QED BY <2>1, <2>2, <2>3, <2>4 DEF Next, Live, MainStep, MonitorStep
<1>8. QED BY <1>1, <1>2, <1>3, <1>4, <1>5, <1>7


------------------------------------------------------------------------------
(* What the clients are told.                                              *)

LEMMA ListedBeyond == ASSUME NEW c PROVE Listed(c) <=> Beyond(callbacks, NULL, c)
BY DEF Listed, Beyond

LEMMA PrependBeyond ==
    ASSUME TInv, Prepend, NEW p, NEW c, Beyond(callbacks, p, c)
    PROVE  Beyond(callbacks', p, c)
<1>1. /\ Len(callbacks) \in Nat /\ Len(callbacks') = Len(callbacks) + 1
      /\ \A n \in 1 .. Len(callbacks) : callbacks'[n + 1] = callbacks[n]
  <2>1. cur \in Client /\ callbacks \in Seq(Client)
    BY DEF TInv, TypeOK, Placed, Prepend
  <2> DEFINE longer == <<cur>> \o callbacks
  <2>2. /\ Len(callbacks) \in Nat /\ Len(longer) = Len(callbacks) + 1
        /\ \A n \in 1 .. Len(callbacks) : longer[n + 1] = callbacks[n]
    BY <2>1, FirstPlace
  <2>3. callbacks' = longer
    BY DEF Prepend
  <2> HIDE DEF longer
  <2>4. QED BY <2>2, <2>3
<1>2. PICK n \in 1 .. Len(callbacks) :
          callbacks[n] = c /\ (p = NULL \/ \E m \in 1 .. Len(callbacks) : m < n /\ callbacks[m] = p)
  BY DEF Beyond
<1>3. n + 1 \in 1 .. Len(callbacks') /\ callbacks'[n + 1] = c
  BY <1>1, <1>2
<1>4. CASE p = NULL
  BY <1>3, <1>4 DEF Beyond
<1>5. CASE p # NULL
  <2>1. PICK m \in 1 .. Len(callbacks) : m < n /\ callbacks[m] = p
    BY <1>2, <1>5
  <2>2. m + 1 \in 1 .. Len(callbacks') /\ callbacks'[m + 1] = p /\ m + 1 < n + 1
    BY <1>1, <2>1
  <2>3. QED BY <1>3, <2>2 DEF Beyond
<1>6. QED BY <1>4, <1>5

\* The walk leaves nobody out.
LEMMA WalkBeyond ==
    ASSUME TInv, Reads, NEW c, Beyond(callbacks, pos, c)
    PROVE  Ahead # <<>> /\ (c = Head(Ahead) \/ Beyond(callbacks, Head(Ahead), c))
<1>1. /\ callbacks \in Seq(Client) /\ Len(callbacks) \in Nat
      /\ \A m, n \in 1 .. Len(callbacks) : callbacks[m] = callbacks[n] => m = n
  BY DEF TInv, TypeOK
<1>2. PICK n \in 1 .. Len(callbacks) :
          /\ callbacks[n] = c
          /\ pos = NULL \/ \E m \in 1 .. Len(callbacks) : m < n /\ callbacks[m] = pos
  BY DEF Beyond
<1>3. CASE pos = NULL
  <2>1. Ahead # <<>> /\ Head(Ahead) = callbacks[1] /\ 1 \in 1 .. Len(callbacks)
    BY <1>1, <1>2, <1>3 DEF Ahead
  <2>2. n = 1 \/ 1 < n
    BY <1>1
  <2>3. QED BY <1>2, <2>1, <2>2 DEF Beyond
<1>4. CASE pos # NULL
  <2> DEFINE at == Position(pos)
  <2>1. at \in 1 .. Len(callbacks) /\ callbacks[at] = pos
    BY <1>4, PositionPlace DEF Reads
  <2>2. Ahead = SubSeq(callbacks, at + 1, Len(callbacks))
    BY <1>4 DEF Ahead
  <2> HIDE DEF at
  <2>3. at < n
    BY <1>1, <1>2, <1>4, <2>1
  <2>4. Ahead # <<>> /\ Head(Ahead) = callbacks[at + 1] /\ at + 1 \in 1 .. Len(callbacks)
    <3>1. at + 1 \in 1 .. Len(callbacks)
      BY <1>1, <2>1, <2>3
    <3>2. QED BY <1>1, <2>2, <3>1, FrontPlace
  <2>5. n = at + 1 \/ at + 1 < n
    BY <1>1, <2>1, <2>3
  <2>6. QED BY <1>2, <2>4, <2>5 DEF Beyond
<1>5. QED BY <1>3, <1>4

\* Nothing of this is touched.
LEMMA FaithfulKept ==
    ASSUME Faithful, Serving,
           UNCHANGED <<cache, desc, callbacks, cur, unseen, held, monvars, told, raced>>,
           main' = main \/ (main # "foreach" /\ main' # "foreach")
    PROVE  Faithful'
BY DEF Faithful, Truthful, Informed, Due, Fetched, Unfetched, Beyond, Listed, None, monvars

LEMMA RegisterFaithful ==
    ASSUME TInv, Ready, Faithful, Serving, Serving', Register \/ Dump PROVE Faithful'
<1>1. /\ UNCHANGED <<callbacks, monvars, told, raced, held, unseen>>
      /\ main # "foreach" /\ main' # "foreach" /\ held = NULL
      /\ \A c : Listed(c)' <=> Listed(c)
  BY DEF Register, Dump, Ready, Listed
<1>2. CASE Register
  <2>1. UNCHANGED cache /\ (desc' = "live" => desc = "live")
    BY <1>2 DEF Register
  <2>2. QED
    BY <1>1, <2>1
    DEF Faithful, Truthful, Informed, Due, Fetched, Unfetched, Beyond, None, monvars
<1>3. CASE Dump
  <2>1. \A c : ~Listed(c)
    BY <1>3 DEF Dump, Ready, Listed
  <2>2. QED BY <1>1, <2>1 DEF Faithful, None
<1>4. QED BY <1>2, <1>3

LEMMA PrependFaithful ==
    ASSUME TInv, Ready, Faithful, Serving, Serving', Prepend PROVE Faithful'
<1>1. /\ UNCHANGED <<cache, desc, cur, monvars, told, raced, held>>
      /\ main = "prepend" /\ main' = "foreach" /\ held = NULL /\ unseen' = Id
      /\ cur \in Client /\ ~Listed(cur)
      /\ \A c : Listed(c)' <=> Listed(c) \/ c = cur
  BY PrependPlaces DEF Prepend, Ready, TInv, Placed, Serving
<1>2. ASSUME NEW c \in Client, NEW i \in Id, Listed(c)', desc = "live"
      PROVE  Truthful(c, i)' /\ Informed(c, i)'
  <2>1. CASE c = cur
    BY <1>1, <2>1 DEF Faithful, Truthful, Informed, Unfetched, None
  <2>2. CASE c # cur
    <3>1. Truthful(c, i) /\ Informed(c, i) /\ ~Fetched(c, i) /\ ~Unfetched(c, i)
      BY <1>1, <1>2, <2>2 DEF Faithful, Fetched, Unfetched
    <3>2. Due(c, i) => Due(c, i)'
      BY <1>1, PrependBeyond DEF Due, monvars
    <3>3. QED BY <1>1, <3>1, <3>2 DEF Truthful, Informed
  <2>3. QED BY <2>1, <2>2
<1>3. QED BY <1>1, <1>2 DEF Faithful, None

LEMMA TellFaithful ==
    ASSUME TInv, Ready, Faithful, Serving, Serving', Fetch \/ Tell \/ Told PROVE Faithful'
<1>1. /\ UNCHANGED <<cache, desc, callbacks, cur, monvars, raced>>
      /\ main = "foreach" /\ cur \in Client /\ Listed(cur)
      /\ \A c : Listed(c)' <=> Listed(c)
      /\ \A c, i : Due(c, i)' <=> Due(c, i)
  BY DEF Fetch, Tell, Told, TInv, Placed, Listed, Due, Beyond, monvars
<1>2. CASE Fetch
  <2>1. PICK i \in Id :
            /\ i \in unseen /\ cache[i] # NULL
            /\ held' = <<i, cache[i]>> /\ unseen' = unseen \ {i}
    BY <1>2 DEF Fetch, TInv, TypeOK
  <2>2. /\ held' # NULL /\ held'[1] = i /\ held'[2] = cache[i]
        /\ held = NULL /\ UNCHANGED <<told, main>>
    <3>1. cache[i] \in Contents[i] \cup {NULL}
      BY DEF TInv, Genuine
    <3>2. <<i, cache[i]>> \in Message
      BY <3>1, MessageParts
    <3>3. QED BY <1>2, <2>1, <3>2, MessageParts DEF Fetch
  <2>3. ASSUME NEW c \in Client, NEW j \in Id, Listed(c), desc = "live"
        PROVE  Truthful(c, j)' /\ Informed(c, j)'
    <3>1. Truthful(c, j) /\ Informed(c, j)
      BY <2>3 DEF Faithful
    <3>2. QED BY <1>1, <2>1, <2>2, <3>1 DEF Truthful, Informed, Fetched, Unfetched
  <2>4. QED BY <1>1, <2>2, <2>3 DEF Faithful, None
<1>3. CASE Tell
  <2>1. /\ held # NULL /\ held \in Message /\ held[1] \in Id /\ held[2] # NULL
        /\ held[1] \notin unseen
        /\ held[2] = cache[held[1]] \/ <<cur, held[1]>> \in raced
        /\ held' = NULL /\ UNCHANGED <<main, unseen>>
    BY <1>3, MessageParts DEF Tell, Ready, Faithful, TInv, TypeOK
  <2>2. /\ told'[cur][held[1]] = held[2]
        /\ \A c \in Client, i \in Id : c # cur \/ i # held[1] => told'[c][i] = told[c][i]
        /\ \A c \in Client : c # cur => told'[c] = told[c]
    BY <1>1, <1>3, <2>1 DEF Tell, TInv, TypeOK
  <2>3. ASSUME NEW c \in Client, NEW j \in Id, Listed(c), desc = "live"
        PROVE  Truthful(c, j)' /\ Informed(c, j)'
    <3>1. Truthful(c, j) /\ Informed(c, j)
      BY <2>3 DEF Faithful
    <3>2. CASE c = cur /\ j = held[1]
      BY <1>1, <2>1, <2>2, <3>2 DEF Truthful, Informed
    <3>3. CASE c # cur \/ j # held[1]
      BY <1>1, <2>1, <2>2, <3>1, <3>3 DEF Truthful, Informed, Fetched, Unfetched
    <3>4. QED BY <3>2, <3>3
  <2>4. QED BY <1>1, <2>1, <2>2, <2>3 DEF Faithful, None
<1>4. CASE Told
  <2>1. /\ held = NULL /\ main' = "start" /\ UNCHANGED <<told, held, unseen>>
        /\ \A i \in unseen : cache[i] = NULL
    BY <1>4 DEF Told
  <2>2. ASSUME NEW c \in Client, NEW j \in Id, Listed(c), desc = "live"
        PROVE  Truthful(c, j)' /\ Informed(c, j)'
    <3>1. Truthful(c, j) /\ Informed(c, j)
      BY <2>2 DEF Faithful
    <3>2. QED BY <1>1, <2>1, <3>1 DEF Truthful, Informed, Fetched, Unfetched
  <2>3. QED BY <1>1, <2>1, <2>2 DEF Faithful, None
<1>5. QED BY <1>2, <1>3, <1>4

LEMMA ReceiveFaithful ==
    ASSUME TInv, Ready, Faithful, Serving, Serving', Receive PROVE Faithful'
<1>1. /\ UNCHANGED <<desc, callbacks, main, cur, unseen, held, told>>
      /\ \A c : Listed(c)' <=> Listed(c)
      /\ monitor = "poll"
  BY DEF Receive, mainvars, Listed
<1>2. PICK m : m = Head(socket)
  OBVIOUS
<1>3. m[1] \in Id
  <2>1. Head(socket) \in Message
    BY TailIndices DEF Receive, TInv, TypeOK
  <2>2. QED BY <1>2, <2>1, MessageParts
<1>4. CASE UNCHANGED <<cache, monvars, raced>>
  BY <1>1, <1>4, FaithfulKept
<1>5. CASE ~UNCHANGED <<cache, monvars, raced>>
  <2>1. /\ cache' = [cache EXCEPT ![m[1]] = m[2]]
        /\ change' = <<m[1], m[2]>> /\ pos' = NULL /\ monitor' = "walk"
        /\ raced' = (raced \ (Client \X {m[1]})) \cup
                       (IF held # NULL /\ held[1] = m[1] THEN {<<cur, m[1]>>} ELSE {})
    BY <1>2, <1>5 DEF Receive
  <2>2. \A j \in Id : j # m[1] => cache'[j] = cache[j]
    BY <2>1 DEF TInv, TypeOK
  <2>3. \A c \in Client, j \in Id : j # m[1] /\ <<c, j>> \in raced => <<c, j>> \in raced'
    BY <2>1
  <2>4. ASSUME NEW c \in Client, NEW j \in Id, Listed(c), desc = "live"
        PROVE  Truthful(c, j)' /\ Informed(c, j)'
    <3>1. CASE j = m[1]
      <4>1. Beyond(callbacks', pos', c)
        BY <1>1, <2>1, <2>4, ListedBeyond
      <4>2. Due(c, j)'
        BY <2>1, <3>1, <4>1 DEF Due
      <4>3. QED BY <4>2 DEF Truthful, Informed
    <3>2. CASE j # m[1]
      <4>1. Truthful(c, j) /\ Informed(c, j) /\ ~Due(c, j)
        BY <1>1, <2>4 DEF Faithful, Due
      <4>2. QED
        BY <1>1, <2>2, <2>3, <3>2, <4>1 DEF Truthful, Informed, Fetched, Unfetched
    <3>3. QED BY <3>1, <3>2
  <2>5. held # NULL => held[2] = cache'[held[1]] \/ <<cur, held[1]>> \in raced'
    <3>1. held # NULL => cur \in Client /\ held[1] \in Id
      BY MessageParts DEF TInv, TypeOK, Placed
    <3>2. CASE held # NULL /\ held[1] = m[1]
      BY <2>1, <3>2
    <3>3. CASE held # NULL /\ held[1] # m[1]
      BY <2>2, <2>3, <3>1, <3>3 DEF Faithful
    <3>4. QED BY <3>2, <3>3
  <2>6. QED BY <1>1, <2>4, <2>5 DEF Faithful, None
<1>6. QED BY <1>4, <1>5

LEMMA CallFaithful ==
    ASSUME TInv, Ready, Faithful, Serving, Serving', Walk \/ Call \/ Stray \/ Stop PROVE Faithful'
<1>1. /\ UNCHANGED <<cache, desc, callbacks, cur, unseen, held, change, raced>>
      /\ \A c : Listed(c)' <=> Listed(c)
  BY DEF Walk, Call, Stray, Stop, mainvars, Listed
<1>2. CASE Walk
  <2>1. /\ Reads /\ monitor = "walk" /\ UNCHANGED <<told, main>>
        /\ Ahead # <<>> => monitor' = "call" /\ pos' = Head(Ahead)
    BY <1>2 DEF Walk, mainvars
  <2>2. \A c, i : Due(c, i) => Due(c, i)'
    BY <1>1, <2>1, WalkBeyond DEF Due
  <2>3. QED
    BY <1>1, <2>1, <2>2 DEF Faithful, Truthful, Informed, Fetched, Unfetched, None
<1>3. CASE Call
  <2>1. /\ change \in Message /\ change[1] \in Id /\ cache[change[1]] = change[2] /\ pos \in Client
        /\ Listed(pos) /\ monitor = "call" /\ monitor' = "walk" /\ UNCHANGED <<pos, main>>
    BY <1>3, MessageParts, NullAssumption DEF Call, mainvars, Ready, TInv, Genuine
  <2>2. /\ told'[pos][change[1]] = change[2]
        /\ \A c \in Client, i \in Id : c # pos \/ i # change[1] => told'[c][i] = told[c][i]
        /\ \A c \in Client : c # pos => told'[c] = told[c]
    BY <1>3, <2>1 DEF Call, TInv, TypeOK
  <2>3. ASSUME NEW c \in Client, NEW j \in Id, Listed(c), desc = "live"
        PROVE  Truthful(c, j)' /\ Informed(c, j)'
    <3>1. Truthful(c, j) /\ Informed(c, j)
      BY <2>3 DEF Faithful
    <3>2. CASE c = pos /\ j = change[1]
      BY <1>1, <2>1, <2>2, <3>2 DEF Truthful, Informed
    <3>3. CASE c # pos \/ j # change[1]
      <4>1. Due(c, j) => Due(c, j)'
        BY <1>1, <2>1, <3>3 DEF Due
      <4>2. QED
        BY <1>1, <2>1, <2>2, <3>1, <3>3, <4>1 DEF Truthful, Informed, Fetched, Unfetched
    <3>4. QED BY <3>2, <3>3
  <2>4. QED BY <1>1, <2>1, <2>2, <2>3 DEF Faithful, None
<1>4. CASE Stray
  BY <1>4 DEF Stray, Reads, Ready
<1>5. CASE Stop
  <2>1. /\ UNCHANGED <<told, main>> /\ \A c, i : ~Due(c, i)
    BY <1>5 DEF Stop, mainvars, Due
  <2>2. QED
    BY <1>1, <2>1 DEF Faithful, Truthful, Informed, Fetched, Unfetched, None
<1>6. QED BY <1>2, <1>3, <1>4, <1>5

LEMMA FaithfulNext == ASSUME TInv, Ready, Faithful, [Next]_vars PROVE Faithful'
<1> SUFFICES ASSUME Serving', Serving PROVE Faithful'
  BY ServingBefore DEF Faithful
<1>1. CASE KernelChange \/ Run \/ Terminate \/ UNCHANGED vars
  <2>1. /\ UNCHANGED <<cache, desc, callbacks, cur, unseen, held, monvars, told, raced>>
        /\ main' = main \/ (main # "foreach" /\ main' # "foreach")
    BY <1>1 DEF KernelChange, Run, Terminate, vars, mainvars
  <2>2. QED BY <2>1, FaithfulKept
<1>2. CASE Leave \/ Unregister \/ Cleanup \/ Join
  BY <1>2 DEF Leave, Unregister, Cleanup, Join, Serving
<1>3. CASE PollNothing
  BY <1>3 DEF PollNothing, Serving
<1>4. QED
  BY <1>1, <1>2, <1>3, RegisterFaithful, PrependFaithful, TellFaithful, ReceiveFaithful, CallFaithful
  DEF Next, Live, MainStep, MonitorStep

LEMMA FaithfulAlways == Spec => []MInv
<1>1. Init => MInv
  <2>1. Init => Faithful
    BY DEF Init, Faithful, Listed
  <2>2. QED BY <2>1, InitTyped, ReadyInit, NotifiedInit DEF MInv
<1>2. MInv /\ [Next]_vars => MInv'
  BY TypedNext, ReadyNext, NotifiedNext, FaithfulNext DEF MInv
<1>3. QED BY <1>1, <1>2, PTL DEF Spec

LEMMA QuiescentFaithful ==
    ASSUME MInv, Quiescent
    PROVE  /\ \A i \in Id : cache[i] = kernel[i]
           /\ \A c \in Settled, i \in Id : /\ told[c][i] = cache[i] \/ <<c, i>> \in raced
                                           /\ cache[i] # NULL => told[c][i] # NULL
<1>1. Serving /\ desc = "live" /\ monitor = "poll" /\ socket = <<>> /\ ~overrun
  BY DEF Quiescent, Serving
<1>2. \A i \in Id : cache[i] = kernel[i]
  BY <1>1 DEF MInv, Notified, Of
<1>3. ASSUME NEW c \in Settled, NEW i \in Id
      PROVE  /\ told[c][i] = cache[i] \/ <<c, i>> \in raced
             /\ cache[i] # NULL => told[c][i] # NULL
  <2>1. c \in Client /\ Listed(c) /\ ~(main = "foreach" /\ c = cur)
    BY DEF Settled
  <2>2. Truthful(c, i) /\ Informed(c, i)
    BY <1>1, <2>1 DEF MInv, Faithful
  <2>3. QED BY <1>1, <2>1, <2>2 DEF Truthful, Informed, Due, Fetched, Unfetched
<1>4. QED BY <1>2, <1>3

\* Whatever the kernel does while callbacks are registered and called, without a lock
\* between the two threads: once nothing is on its way, the cache is what the kernel has,
\* and so is what every client has been told, but for the objects that changed between
\* the two steps in which the registration told it of them.
THEOREM AlwaysMirror == Spec => []Mirror
<1>1. MInv => Mirror
  <2> SUFFICES ASSUME MInv, Quiescent
               PROVE  /\ cache = kernel
                      /\ \A c \in Settled, i \in Id : <<c, i>> \notin raced => told[c][i] = kernel[i]
    BY DEF Mirror
  <2>1. cache \in [Id -> Content \cup {NULL}] /\ kernel \in [Id -> Content \cup {NULL}]
    BY DEF MInv, TInv, TypeOK
  <2>2. cache = kernel
    BY <2>1, QuiescentFaithful
  <2>3. QED BY <2>2, QuiescentFaithful
<1>2. QED BY <1>1, FaithfulAlways, PTL

\* Not even of those a client is left ignorant: of every object there is it has been
\* told something.
THEOREM AlwaysInformed == Spec => []NothingMissed
<1>1. MInv => NothingMissed
  BY QuiescentFaithful DEF NothingMissed
<1>2. QED BY <1>1, FaithfulAlways, PTL

=============================================================================
