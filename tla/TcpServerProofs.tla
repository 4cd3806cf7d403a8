-------------------------- MODULE TcpServerProofs ---------------------------
(***************************************************************************)
(* Proofs about TcpServer, for every number of threads, descriptors and    *)
(* peers.                                                                  *)
(***************************************************************************)
EXTENDS TcpServer, FiniteSetTheorems, WellFoundedInduction, TLAPS

\* Connections are numbered in the order of the peers accepted, and there are none
\* before the server is started.
Counted ==
    /\ nextConnId_ - 1 + backlog <= peers
    /\ ~started_ => loops_ = <<>> /\ peers = 0
    /\ \A c \in Conns : conn[c].state_ = "none" <=> c >= nextConnId_

\* The functor f is in the queue of l.
Queued(queues, l, f) == \E i \in DOMAIN queues[l] : queues[l][i] = f

\* A connection has one functor in a loop's queue.
Once(queues) ==
    \A l \in Loops : \A i, j \in DOMAIN queues[l] : queues[l][i][2] = queues[l][j][2] => i = j

Functor == {"connectEstablished", "removeConnection", "connectDestroyed"} \X Conns

\* What a functor f queued in l says of its connection.
Match(map, cs, l, f) ==
    LET c == f[2]
    IN  /\ f[1] = "connectEstablished" => cs[c].state_ = "kConnecting" /\ cs[c].loop = l
        /\ f[1] = "removeConnection" =>
              l = 0 /\ cs[c].loop # 0 /\ cs[c].state_ = "kDisconnected" /\ c \in map
        /\ f[1] = "connectDestroyed" =>
              cs[c].state_ = "kDisconnected" /\ cs[c].loop = l /\ c \notin map

\* What the state of the connection c says of its place in the map and its last functor.
Placed(map, cs, queues, c) ==
    /\ cs[c].state_ \in {"kConnecting", "kConnected"} => c \in map
    /\ c \in map => cs[c].state_ \notin {"none", "freed"}
    /\ cs[c].state_ = "kDisconnected" /\ c \notin map =>
          Queued(queues, cs[c].loop, <<"connectDestroyed", c>>)

\* Functors, connections and the map agree.
ConnInv ==
    /\ Once(functors)
    /\ \A l \in Loops : \A f \in Functor :
          Queued(functors, l, f) => Match(connections_, conn, l, f)
    /\ \A c \in Conns : Placed(connections_, conn, functors, c)

\* The spare descriptor, while HandleRead has not closed it.
Spare == IF accepting \in {"accept", "open"} THEN {} ELSE {idleFd_} \ {none}

Lives(k) == k.state_ \notin {"none", "freed"}

\* Every descriptor in use, in op, has one owner: the listening socket, the spare one in
\* sp, the other part's ot, or a live connection of cs.
FdsOwned(op, cs, sp, ot) ==
    /\ op \subseteq Fds
    /\ \A x \in Fds : x \in op <=>
          \/ x = acceptSocket_ \/ x \in sp \/ x = ot
          \/ \E c \in Conns : Lives(cs[c]) /\ cs[c].fd = x
    /\ \A c, d \in Conns : Lives(cs[c]) /\ Lives(cs[d]) /\ cs[c].fd = cs[d].fd => c = d
    /\ \A c \in Conns : Lives(cs[c]) => cs[c].fd \in Fds \ (sp \cup {acceptSocket_, ot})
    /\ acceptSocket_ \notin sp \cup {ot}
    /\ ot \notin sp

\* The descriptor that HandleRead closed is free until it takes it back, or is stolen.
SpareFree ==
    /\ accepting \in {"accept", "open"} => stolen \/ ~(Fds \subseteq open)
    /\ accepting = "close" => stolen \/ idleFd_ # none \/ ~(Fds \subseteq open)
    /\ SpareKept

\* The tables ch of the loops have the connections of cs that are established and not
\* destroyed.
TablesMatch(ch, cs) ==
    /\ \A c \in Conns : cs[c].state_ \in {"kConnected", "kDisconnected"} =>
          ch[cs[c].loop][cs[c].fd] = c
    /\ \A l \in Loops : \A fd \in Fds : ch[l][fd] # 0 =>
          LET c == ch[l][fd]
          IN  cs[c].state_ \in {"kConnected", "kDisconnected"} /\ cs[c].loop = l /\ cs[c].fd = fd

ServerInv ==
    /\ TypeOK /\ Counted /\ ConnInv
    /\ FdsOwned(open, conn, Spare, other) /\ SpareFree /\ TablesMatch(channels_, conn)

\* The connections given to a loop.
Given(cs, l) == {c \in Conns : cs[c].state_ # "none" /\ cs[c].loop = l}

\* The pool's loops have had the same number of connections, but for one more in those
\* before next_.
EvenlyGiven ==
    /\ \A i \in DOMAIN loops_ : loops_[i] = i
    /\ \E q \in Nat : \A i \in DOMAIN loops_ :
          Cardinality(Given(conn, i)) = q + IF i <= next_ THEN 1 ELSE 0
-----------------------------------------------------------------------------
State == {"none", "kConnecting", "kConnected", "kDisconnected", "freed"}
Connection == [state_ : State, fd : Fds \cup {none}, loop : Loops]

\* The types that the steps of a connection need.
LEMMA Shapes ==
  ASSUME TypeOK
  PROVE  /\ functors \in [Loops -> Seq(Functor)]
         /\ conn \in [Conns -> Connection]
         /\ \A c \in Conns : conn[c].state_ \in State /\ conn[c].loop \in Loops
         /\ 0 \in Loops
         /\ connections_ \subseteq Conns
<1>1. functors \in [Loops -> Seq(Functor)]
  BY DEF TypeOK, Functor
<1>2. conn \in [Conns -> Connection]
  BY DEF TypeOK, Connection, State
<1>3. 0 \in Loops
  BY TcpServerAssumption DEF Loops
<1>4. connections_ \subseteq Conns
  BY DEF TypeOK
<1> QED
  BY <1>1, <1>2, <1>3, <1>4 DEF Connection

\* Functors are pairs of one of three operations and a connection.
LEMMA Functors ==
  /\ \A f \in Functor :
        /\ f[1] \in {"connectEstablished", "removeConnection", "connectDestroyed"}
        /\ f[2] \in Conns /\ f = <<f[1], f[2]>>
  /\ \A c \in Conns :
        /\ <<"connectEstablished", c>> \in Functor /\ <<"removeConnection", c>> \in Functor
        /\ <<"connectDestroyed", c>> \in Functor
BY DEF Functor

Pushed(q, l, f) == [q EXCEPT ![l] = Append(q[l], f)]
Popped(q, l) == [q EXCEPT ![l] = Tail(q[l])]

\* QueueInLoop: the functor goes to the end of the queue of l.
LEMMA Push ==
  ASSUME NEW q \in [Loops -> Seq(Functor)], NEW l \in Loops, NEW f \in Functor
  PROVE  /\ Pushed(q, l, f) \in [Loops -> Seq(Functor)]
         /\ \A k \in Loops : \A g \in Functor :
               Queued(Pushed(q, l, f), k, g) <=> Queued(q, k, g) \/ (k = l /\ g = f)
         /\ Once(q) /\ (\A g \in Functor : Queued(q, l, g) => g[2] # f[2])
               => Once(Pushed(q, l, f))
<1> DEFINE r == Pushed(q, l, f)
<1>1. /\ Append(q[l], f) \in Seq(Functor)
      /\ DOMAIN Append(q[l], f) = DOMAIN q[l] \cup {Len(q[l]) + 1}
      /\ \A i \in DOMAIN q[l] : Append(q[l], f)[i] = q[l][i]
      /\ Append(q[l], f)[Len(q[l]) + 1] = f
  OBVIOUS
<1>2. r[l] = Append(q[l], f) /\ \A k \in Loops \ {l} : r[k] = q[k]
  BY DEF Pushed
<1>3. r \in [Loops -> Seq(Functor)]
  BY <1>1 DEF Pushed
<1> HIDE DEF r
<1>4. \A k \in Loops : \A g \in Functor :
         Queued(r, k, g) <=> Queued(q, k, g) \/ (k = l /\ g = f)
  BY <1>1, <1>2, Zenon DEF Queued
<1>5. ASSUME Once(q), \A g \in Functor : Queued(q, l, g) => g[2] # f[2]
      PROVE  Once(r)
  <2>1. \A i \in DOMAIN q[l] : q[l][i][2] # f[2]
    BY <1>5 DEF Queued
  <2>2. \A i, j \in DOMAIN r[l] : r[l][i][2] = r[l][j][2] => i = j
    BY <1>1, <1>2, <1>5, <2>1 DEF Once
  <2> QED
    BY <1>2, <1>5, <2>2, Zenon DEF Once
<1> QED
  BY <1>3, <1>4, <1>5 DEF r

\* DoPendingFunctors: the first functor of the queue of l is taken off.
LEMMA Pop ==
  ASSUME NEW q \in [Loops -> Seq(Functor)], NEW l \in Loops, q[l] # <<>>, Once(q)
  PROVE  /\ Popped(q, l) \in [Loops -> Seq(Functor)]
         /\ Head(q[l]) \in Functor /\ Queued(q, l, Head(q[l]))
         /\ \A k \in Loops : \A g \in Functor :
               Queued(Popped(q, l), k, g) <=> Queued(q, k, g) /\ (k = l => g # Head(q[l]))
         /\ \A g \in Functor : Queued(Popped(q, l), l, g) => g[2] # Head(q[l])[2]
         /\ Once(Popped(q, l))
<1> DEFINE r == Popped(q, l)
<1>1. q[l] \in Seq(Functor)
  OBVIOUS
<1>2. r[l] = Tail(q[l]) /\ Tail(q[l]) \in Seq(Functor) /\ \A k \in Loops \ {l} : r[k] = q[k]
  BY <1>1 DEF Popped
<1>3. r \in [Loops -> Seq(Functor)]
  BY <1>2 DEF Popped
<1> HIDE DEF r
<1>4. \A i \in DOMAIN r[l] : i \in Nat /\ i + 1 \in DOMAIN q[l] /\ i + 1 # 1 /\ r[l][i] = q[l][i + 1]
  BY <1>1, <1>2
<1>5. \A i \in DOMAIN q[l] : i # 1 => i - 1 \in DOMAIN r[l] /\ r[l][i - 1] = q[l][i]
  BY <1>1, <1>2
<1>6. 1 \in DOMAIN q[l] /\ Head(q[l]) = q[l][1] /\ Head(q[l]) \in Functor
  BY <1>1
<1>7. \A i \in DOMAIN r[l] : r[l][i][2] # Head(q[l])[2]
  BY <1>4, <1>6 DEF Once
<1>8. \A k \in Loops : \A g \in Functor :
         Queued(r, k, g) <=> Queued(q, k, g) /\ (k = l => g # Head(q[l]))
  <2>1. \A g \in Functor : Queued(r, l, g) => Queued(q, l, g) /\ g # Head(q[l])
    BY <1>4, <1>7 DEF Queued
  <2>2. \A g \in Functor : Queued(q, l, g) /\ g # Head(q[l]) => Queued(r, l, g)
    BY <1>5, <1>6 DEF Queued
  <2>3. \A k \in Loops \ {l} : \A g \in Functor : Queued(r, k, g) <=> Queued(q, k, g)
    BY <1>2 DEF Queued
  <2> QED
    BY <2>1, <2>2, <2>3
<1>9. Once(r)
  <2>1. \A i, j \in DOMAIN r[l] : r[l][i][2] = r[l][j][2] => i = j
    BY <1>4 DEF Once
  <2> QED
    BY <1>2, <2>1, Zenon DEF Once
<1>10. Queued(q, l, Head(q[l])) /\ \A g \in Functor : Queued(r, l, g) => g[2] # Head(q[l])[2]
  BY <1>6, <1>7 DEF Queued
<1> QED
  BY <1>3, <1>6, <1>8, <1>9, <1>10 DEF r

\* A change of the state of one connection.
LEMMA SetState ==
  ASSUME TypeOK, NEW c \in Conns, NEW s \in State, conn' = [conn EXCEPT ![c].state_ = s]
  PROVE  /\ conn' \in [Conns -> Connection]
         /\ conn'[c].state_ = s /\ conn'[c].loop = conn[c].loop /\ conn'[c].fd = conn[c].fd
         /\ \A d \in Conns \ {c} : conn'[d] = conn[d]
<1>1. conn \in [Conns -> Connection]
  BY Shapes
<1> QED
  BY <1>1 DEF Connection

(***************************************************************************)
(* Functors, connections and the map.                                      *)
(***************************************************************************)
\* A step of the connection c keeps ConnInv if it leaves the other connections and their
\* functors alone and what is said of c holds after it.
LEMMA ConnStep ==
  ASSUME TypeOK, ConnInv, NEW c \in Conns,
         \A d \in Conns \ {c} : conn'[d] = conn[d] /\ (d \in connections_' <=> d \in connections_),
         \A l \in Loops : \A f \in Functor :
             f[2] # c => (Queued(functors', l, f) <=> Queued(functors, l, f)),
         Once(functors'),
         \A l \in Loops : \A f \in Functor :
             f[2] = c /\ Queued(functors', l, f) => Match(connections_', conn', l, f),
         Placed(connections_', conn', functors', c)
  PROVE  ConnInv'
<1>1. \A l \in Loops : \A f \in Functor :
         Queued(functors', l, f) => Match(connections_', conn', l, f)
  BY Functors DEF ConnInv, Match
<1>2. \A d \in Conns \ {c} : Placed(connections_', conn', functors', d)
  <2>1. \A d \in Conns \ {c} : conn[d].loop \in Loops /\ <<"connectDestroyed", d>> \in Functor
    BY Shapes, Functors, Zenon
  <2>2. \A d \in Conns \ {c} : <<"connectDestroyed", d>>[2] # c
    OBVIOUS
  <2> QED
    BY <2>1, <2>2, Zenon DEF ConnInv, Placed
<1> QED
  BY <1>1, <1>2 DEF ConnInv

\* HandleClose queues the first functor of the end of a connection.
LEMMA HandleCloseConn ==
  ASSUME TypeOK, ConnInv, NEW c \in Conns, HandleClose(c)
  PROVE  ConnInv' /\ functors' \in [Loops -> Seq(Functor)]
<1>0. /\ conn[c].state_ = "kConnected" /\ conn' = [conn EXCEPT ![c].state_ = "kDisconnected"]
      /\ RemoveConnection(c) /\ c \in connections_
  BY Zenon DEF HandleClose, ConnInv, Placed
<1>1. /\ conn'[c].state_ = "kDisconnected" /\ conn'[c].loop = conn[c].loop
      /\ \A d \in Conns \ {c} : conn'[d] = conn[d]
  BY <1>0, SetState, Zenon DEF State
<1>2. \A l \in Loops : \A f \in Functor : Queued(functors, l, f) => f[2] # c
  BY <1>0, Functors DEF ConnInv, Match
<1>3. PICK f \in Functor :
         /\ functors' = Pushed(functors, 0, f)
         /\ \/ /\ f = <<"connectDestroyed", c>> /\ conn[c].loop = 0
               /\ connections_' = connections_ \ {c}
            \/ /\ f = <<"removeConnection", c>> /\ conn[c].loop # 0
               /\ connections_' = connections_
  BY <1>0, Functors, Zenon DEF RemoveConnection, RemoveConnectionInLoop, Pushed
<1>4. f[2] = c
  BY <1>3
<1>5. /\ functors' \in [Loops -> Seq(Functor)]
      /\ \A k \in Loops : \A g \in Functor :
            Queued(functors', k, g) <=> Queued(functors, k, g) \/ (k = 0 /\ g = f)
      /\ Once(functors')
  BY <1>2, <1>3, <1>4, Shapes, Push, ZenonT(40) DEF ConnInv
<1>6. \A l \in Loops : \A g \in Functor :
         g[2] = c /\ Queued(functors', l, g) => Match(connections_', conn', l, g)
  BY <1>0, <1>1, <1>2, <1>3, <1>5 DEF Match
<1>7. Placed(connections_', conn', functors', c)
  BY <1>0, <1>1, <1>3, <1>5, Shapes, Functors, Zenon DEF Placed
<1> QED
  BY <1>1, <1>3, <1>4, <1>5, <1>6, <1>7, ConnStep

\* What RunFunctor takes from the queue of l, and how the functors of its connection stand.
LEMMA NextFunctor ==
  ASSUME TypeOK, ConnInv, NEW l \in Loops, RunFunctor(l),
         NEW rest, rest = Popped(functors, l)
  PROVE  LET f == Head(functors[l])
         IN  /\ f \in Functor /\ f[2] \in Conns /\ Match(connections_, conn, l, f)
             /\ rest \in [Loops -> Seq(Functor)] /\ Once(rest)
             /\ \A k \in Loops : \A g \in Functor :
                   g[2] # f[2] => (Queued(rest, k, g) <=> Queued(functors, k, g))
             /\ \A k \in Loops : \A g \in Functor : Queued(rest, k, g) => g[2] # f[2]
<1> DEFINE f == Head(functors[l])
<1>1. functors[l] # <<>>
  BY DEF RunFunctor
<1>2. /\ rest \in [Loops -> Seq(Functor)] /\ Once(rest)
      /\ f \in Functor /\ Queued(functors, l, f)
      /\ \A k \in Loops : \A g \in Functor :
            Queued(rest, k, g) <=> Queued(functors, k, g) /\ (k = l => g # f)
      /\ \A g \in Functor : Queued(rest, l, g) => g[2] # f[2]
  BY <1>1, Shapes, Pop DEF ConnInv
<1> HIDE DEF f
<1>3. f[2] \in Conns /\ Match(connections_, conn, l, f)
  BY <1>2, Functors DEF ConnInv
<1>4. ASSUME NEW k \in Loops, NEW g \in Functor, Queued(rest, k, g), g[2] = f[2]
      PROVE  FALSE
  <2>1. k # l
    BY <1>2, <1>4
  <2>2. Queued(functors, k, g) /\ Match(connections_, conn, k, g)
    BY <1>2, <1>4 DEF ConnInv
  <2> QED
    BY <1>2, <1>3, <1>4, <2>1, <2>2, Functors DEF Match
<1> QED
  BY <1>2, <1>3, <1>4 DEF f

\* ConnectEstablished, from the queue.
LEMMA EstablishedConn ==
  ASSUME TypeOK, ConnInv, NEW l \in Loops, RunFunctor(l),
         Head(functors[l])[1] = "connectEstablished"
  PROVE  ConnInv' /\ functors' \in [Loops -> Seq(Functor)]
<1> DEFINE c == Head(functors[l])[2]
           rest == Popped(functors, l)
<1>1. /\ conn' = [conn EXCEPT ![c] = [conn[c] EXCEPT !.state_ = "kConnected"]]
      /\ functors' = rest /\ connections_' = connections_
  BY Zenon DEF RunFunctor, ConnectEstablished, Popped
<1>2. /\ Match(connections_, conn, l, Head(functors[l])) /\ c \in Conns
      /\ rest \in [Loops -> Seq(Functor)] /\ Once(rest)
      /\ \A k \in Loops : \A g \in Functor :
            g[2] # c => (Queued(rest, k, g) <=> Queued(functors, k, g))
      /\ \A k \in Loops : \A g \in Functor : Queued(rest, k, g) => g[2] # c
  BY NextFunctor
<1> HIDE DEF rest
<1>3. conn[c].state_ = "kConnecting"
  BY <1>2, Zenon DEF Match
<1> HIDE DEF c
<1>4. conn'[c].state_ = "kConnected" /\ \A d \in Conns \ {c} : conn'[d] = conn[d]
  BY <1>1, <1>2, Shapes DEF Connection
<1>5. Placed(connections_', conn', functors', c)
  BY <1>1, <1>2, <1>3, <1>4 DEF ConnInv, Placed
<1> QED
  BY <1>1, <1>2, <1>4, <1>5, ConnStep, Zenon

\* RemoveConnectionInLoop, from the queue.
LEMMA RemovedConn ==
  ASSUME TypeOK, ConnInv, NEW l \in Loops, RunFunctor(l),
         Head(functors[l])[1] = "removeConnection"
  PROVE  ConnInv' /\ functors' \in [Loops -> Seq(Functor)]
<1> DEFINE c == Head(functors[l])[2]
           rest == Popped(functors, l)
           last == <<"connectDestroyed", c>>
<1>1. /\ functors' = Pushed(rest, conn[c].loop, last)
      /\ connections_' = connections_ \ {c} /\ conn' = conn
  BY Zenon DEF RunFunctor, RemoveConnectionInLoop, Popped, Pushed
<1>2. /\ Match(connections_, conn, l, Head(functors[l])) /\ c \in Conns
      /\ rest \in [Loops -> Seq(Functor)] /\ Once(rest)
      /\ \A k \in Loops : \A g \in Functor :
            g[2] # c => (Queued(rest, k, g) <=> Queued(functors, k, g))
      /\ \A k \in Loops : \A g \in Functor : Queued(rest, k, g) => g[2] # c
  BY NextFunctor
<1> HIDE DEF rest
<1>3. conn[c].state_ = "kDisconnected"
  BY <1>2, Zenon DEF Match
<1> HIDE DEF c
<1>4. last \in Functor /\ last[1] = "connectDestroyed" /\ last[2] = c /\ conn[c].loop \in Loops
  BY <1>2, Functors, Shapes, Zenon
<1> HIDE DEF last
<1>5. PICK home \in Loops : home = conn[c].loop
  BY <1>4
<1>6. /\ functors' \in [Loops -> Seq(Functor)] /\ Once(functors')
      /\ \A k \in Loops : \A g \in Functor :
            Queued(functors', k, g) <=> Queued(rest, k, g) \/ (k = home /\ g = last)
  <2>1. functors' = Pushed(rest, home, last)
    BY <1>1, <1>5
  <2>2. \A g \in Functor : Queued(rest, home, g) => g[2] # last[2]
    BY <1>2, <1>4
  <2>3. rest \in [Loops -> Seq(Functor)] /\ Once(rest) /\ last \in Functor
    BY <1>2, <1>4
  <2> QED
    BY <2>1, <2>2, <2>3, Push, ZenonT(40)
<1>7. \A k \in Loops : \A g \in Functor :
         g[2] = c /\ Queued(functors', k, g) => Match(connections_', conn', k, g)
  BY <1>1, <1>2, <1>3, <1>4, <1>5, <1>6, Zenon DEF Match
<1>8. Placed(connections_', conn', functors', c)
  BY <1>1, <1>3, <1>4, <1>5, <1>6 DEF Placed, last
<1>9. \A k \in Loops : \A g \in Functor :
         g[2] # c => (Queued(functors', k, g) <=> Queued(functors, k, g))
  BY <1>2, <1>4, <1>6
<1> QED
  BY <1>1, <1>2, <1>6, <1>7, <1>8, <1>9, ConnStep, Zenon

\* ConnectDestroyed, from the queue.
LEMMA DestroyedConn ==
  ASSUME TypeOK, ConnInv, NEW l \in Loops, RunFunctor(l),
         Head(functors[l])[1] = "connectDestroyed"
  PROVE  ConnInv' /\ functors' \in [Loops -> Seq(Functor)]
<1> DEFINE c == Head(functors[l])[2]
           rest == Popped(functors, l)
<1>1. /\ conn' = [conn EXCEPT ![c].state_ = "freed"]
      /\ functors' = rest /\ connections_' = connections_
  BY Zenon DEF RunFunctor, ConnectDestroyed, Popped
<1>2. /\ Match(connections_, conn, l, Head(functors[l])) /\ c \in Conns
      /\ rest \in [Loops -> Seq(Functor)] /\ Once(rest)
      /\ \A k \in Loops : \A g \in Functor :
            g[2] # c => (Queued(rest, k, g) <=> Queued(functors, k, g))
      /\ \A k \in Loops : \A g \in Functor : Queued(rest, k, g) => g[2] # c
  BY NextFunctor
<1> HIDE DEF rest
<1>3. c \notin connections_
  BY <1>2, Zenon DEF Match
<1> HIDE DEF c
<1>4. conn'[c].state_ = "freed" /\ \A d \in Conns \ {c} : conn'[d] = conn[d]
  BY <1>1, <1>2, SetState, Zenon DEF State
<1>5. Placed(connections_', conn', functors', c)
  BY <1>1, <1>3, <1>4 DEF Placed
<1> QED
  BY <1>1, <1>2, <1>4, <1>5, ConnStep, Zenon

\* NewConnection: the number is new, and so is everything said of it.
LEMMA NewConnectionConn ==
  ASSUME TypeOK, ConnInv, Counted, NEW fd \in Fds, NewConnection(fd), nextConnId_ \in Conns,
         GetNextLoop[1] \in Loops
  PROVE  /\ ConnInv' /\ functors' \in [Loops -> Seq(Functor)]
         /\ conn'[nextConnId_].fd = fd /\ conn'[nextConnId_].loop = GetNextLoop[1]
         /\ conn'[nextConnId_].state_ = IF GetNextLoop[1] = 0 THEN "kConnected" ELSE "kConnecting"
         /\ conn' \in [Conns -> Connection]
         /\ \A d \in Conns \ {nextConnId_} : conn'[d] = conn[d]
<1> DEFINE c == nextConnId_
           l == GetNextLoop[1]
           k == [state_ |-> "kConnecting", fd |-> fd, loop |-> l]
           first == <<"connectEstablished", c>>
<1>1. connections_' = connections_ \cup {c} /\ conn[c].state_ = "none"
  BY DEF NewConnection, Counted, Conns
<1>2. \A q \in Loops : \A f \in Functor : Queued(functors, q, f) => f[2] # c
  BY <1>1, Functors DEF ConnInv, Match
<1>3. \/ l = 0 /\ conn' = [conn EXCEPT ![c] = [k EXCEPT !.state_ = "kConnected"]]
         /\ functors' = functors
      \/ l # 0 /\ conn' = [conn EXCEPT ![c] = k]
         /\ functors' = Pushed(functors, l, first)
  BY DEF NewConnection, ConnectEstablished, Pushed
<1>4. first \in Functor /\ first[1] = "connectEstablished" /\ first[2] = c
  BY Functors, Zenon
<1> DEFINE n == IF l = 0 THEN [k EXCEPT !.state_ = "kConnected"] ELSE k
<1>5. /\ n \in Connection /\ n.fd = fd /\ n.loop = l
      /\ n.state_ = IF l = 0 THEN "kConnected" ELSE "kConnecting"
  BY DEF Connection, State
<1>6. /\ conn' = [conn EXCEPT ![c] = n]
      /\ \/ l = 0 /\ functors' = functors
         \/ l # 0 /\ functors' = Pushed(functors, l, first)
  BY <1>3
<1> HIDE DEF k, first, n
<1>7. /\ functors' \in [Loops -> Seq(Functor)] /\ Once(functors')
      /\ \A q \in Loops : \A f \in Functor :
            Queued(functors', q, f) <=> Queued(functors, q, f) \/ (q = l /\ l # 0 /\ f = first)
  <2>1. CASE functors' = functors /\ l = 0
    BY <2>1, Shapes DEF ConnInv
  <2>2. CASE functors' = Pushed(functors, l, first) /\ l # 0
    <3> HIDE DEF l, c
    <3>1. l \in Loops
      BY DEF l
    <3> QED
      BY <1>2, <1>4, <2>2, <3>1, Shapes, Push, ZenonT(40) DEF ConnInv
  <2> QED
    BY <1>6, <2>1, <2>2
<1>8. c \in Conns
  OBVIOUS
<1> HIDE DEF l, c
<1>9. conn'[c] = n /\ conn' \in [Conns -> Connection] /\ \A d \in Conns \ {c} : conn'[d] = conn[d]
  BY <1>5, <1>6, <1>8, Shapes
<1>10. \A q \in Loops : \A f \in Functor :
          f[2] = c /\ Queued(functors', q, f) => Match(connections_', conn', q, f)
  BY <1>2, <1>4, <1>5, <1>7, <1>9 DEF Match
<1>11. Placed(connections_', conn', functors', c)
  BY <1>1, <1>5, <1>9 DEF Placed
<1>12. /\ \A d \in Conns \ {c} : d \in connections_' <=> d \in connections_
       /\ \A q \in Loops : \A f \in Functor :
             f[2] # c => (Queued(functors', q, f) <=> Queued(functors, q, f))
  BY <1>1, <1>4, <1>7
<1>13. ConnInv'
  BY <1>7, <1>8, <1>9, <1>10, <1>11, <1>12, ConnStep
<1> QED
  BY <1>5, <1>7, <1>9, <1>13 DEF c, l

(***************************************************************************)
(* Descriptors.                                                            *)
(***************************************************************************)
\* The kernel's lowest free descriptor is free, and there is one unless all are in use.
LEMMA LowestFree ==
  ASSUME NEW used
  PROVE  /\ NewFd(used) = none <=> Fds \subseteq used
         /\ NewFd(used) # none => NewFd(used) \in Fds \ used
<1>1. MaxFd \in Nat /\ none \notin Fds
  BY TcpServerAssumption DEF Fds, none
<1>2. ASSUME ~(Fds \subseteq used)
      PROVE  Min(Fds \ used) \in Fds \ used
  <2> DEFINE S == Fds \ used
  <2>1. S \subseteq Nat /\ S # {}
    BY <1>1, <1>2 DEF Fds
  <2> HIDE DEF S
  <2>2. PICK x \in S : \A y \in S : ~(<<y, x>> \in OpToRel(<, Nat))
    BY <2>1, NatLessThanWellFounded, WFMin, Zenon
  <2>3. \A y \in S : y \in Nat /\ x \in Nat => ~(y < x)
    BY <2>2, Zenon DEF OpToRel
  <2>4. x \in S
    BY <2>2, Zenon
  <2>5. \A y \in S : x <= y
    BY <2>1, <2>3, <2>4
  <2>6. Min(S) \in S
    BY <2>4, <2>5 DEF Min
  <2> QED
    BY <2>6 DEF S
<1> QED
  BY <1>1, <1>2 DEF NewFd

\* The acceptor's descriptor is one, and none is not.
LEMMA FdTypes == acceptSocket_ \in Fds /\ none \notin Fds
BY TcpServerAssumption DEF Fds, none, acceptSocket_

\* Steps of connections that neither begin nor end one.
LEMMA OwnersKept ==
  ASSUME NEW op, NEW cs, NEW sp, NEW ot, FdsOwned(op, cs, sp, ot), NEW ds,
         \A c \in Conns : /\ Lives(ds[c]) <=> Lives(cs[c])
                          /\ ds[c].fd = cs[c].fd
  PROVE  FdsOwned(op, ds, sp, ot)
BY DEF FdsOwned

\* close(idleFd_).
LEMMA SpareClosed ==
  ASSUME NEW op, NEW cs, NEW sp, NEW ot, FdsOwned(op, cs, sp, ot)
  PROVE  FdsOwned(op \ sp, cs, {}, ot)
BY DEF FdsOwned

\* A descriptor for idleFd_.
LEMMA SpareOpened ==
  ASSUME NEW op, NEW cs, NEW ot, FdsOwned(op, cs, {}, ot), NEW x \in Fds \ op
  PROVE  FdsOwned(op \cup {x}, cs, {x}, ot)
BY FdTypes DEF FdsOwned

\* accept4's descriptor goes to a new connection.
LEMMA ConnectionOpened ==
  ASSUME NEW op, NEW cs, NEW sp, NEW ot, FdsOwned(op, cs, sp, ot), sp \subseteq Fds,
         NEW x \in Fds \ op, NEW ds, NEW c \in Conns,
         ~Lives(cs[c]), Lives(ds[c]), ds[c].fd = x, \A d \in Conns \ {c} : ds[d] = cs[d]
  PROVE  FdsOwned(op \cup {x}, ds, sp, ot)
<1>1. op \cup {x} \subseteq Fds
  BY DEF FdsOwned
<1>2. \A y \in Fds : y \in op \cup {x} <=>
         \/ y = acceptSocket_ \/ y \in sp \/ y = ot
         \/ \E d \in Conns : Lives(ds[d]) /\ ds[d].fd = y
  BY DEF FdsOwned
<1>3. x # acceptSocket_ /\ x # ot /\ x \notin sp
      /\ \A d \in Conns : Lives(cs[d]) => cs[d].fd # x
  BY FdTypes DEF FdsOwned
<1>4. \A d, e \in Conns : Lives(ds[d]) /\ Lives(ds[e]) /\ ds[d].fd = ds[e].fd => d = e
  BY <1>3 DEF FdsOwned
<1>5. \A d \in Conns : Lives(ds[d]) => ds[d].fd \in Fds \ (sp \cup {acceptSocket_, ot})
  BY <1>3 DEF FdsOwned
<1> QED
  BY <1>1, <1>2, <1>4, <1>5 DEF FdsOwned

\* The Socket of a connection that is destroyed closes its descriptor.
LEMMA ConnectionClosed ==
  ASSUME NEW op, NEW cs, NEW sp, NEW ot, FdsOwned(op, cs, sp, ot), NEW ds, NEW c \in Conns,
         Lives(cs[c]), ~Lives(ds[c]), \A d \in Conns \ {c} : ds[d] = cs[d]
  PROVE  FdsOwned(op \ {cs[c].fd}, ds, sp, ot)
<1>1. \A y \in Fds : y \in op \ {cs[c].fd} <=>
         \/ y = acceptSocket_ \/ y \in sp \/ y = ot
         \/ \E d \in Conns : Lives(ds[d]) /\ ds[d].fd = y
  BY DEF FdsOwned
<1> QED
  BY <1>1 DEF FdsOwned

\* The other part opens a descriptor.
LEMMA OtherOpened ==
  ASSUME NEW op, NEW cs, NEW sp, FdsOwned(op, cs, sp, none), sp \subseteq Fds,
         NEW x \in Fds \ op
  PROVE  FdsOwned(op \cup {x}, cs, sp, x)
BY FdTypes DEF FdsOwned

\* The other part closes its descriptor.
LEMMA OtherClosed ==
  ASSUME NEW op, NEW cs, NEW sp, NEW ot, FdsOwned(op, cs, sp, ot), sp \subseteq Fds
  PROVE  FdsOwned(op \ {ot}, cs, sp, none)
BY FdTypes DEF FdsOwned

\* The spare descriptor in its two cases.
LEMMA SpareCases ==
  ASSUME TypeOK
  PROVE  /\ Spare \subseteq Fds
         /\ accepting \in {"accept", "open"} => Spare = {}
         /\ accepting \notin {"accept", "open"} =>
               (idleFd_ = none => Spare = {}) /\ (idleFd_ # none => Spare = {idleFd_})
BY DEF TypeOK, Spare

\* The acceptor's steps when descriptors have run out: close, accept, close, open.
LEMMA AcceptorFds ==
  ASSUME TypeOK, FdsOwned(open, conn, Spare, other), SpareFree, TypeOK',
         HandleReadEmfile \/ AcceptSpare \/ CloseSpare \/ OpenSpare
  PROVE  FdsOwned(open', conn', Spare', other') /\ SpareFree'
<1>0. /\ Spare' \subseteq Fds
      /\ accepting' \in {"accept", "open"} => Spare' = {}
      /\ accepting' \notin {"accept", "open"} =>
            (idleFd_' = none => Spare' = {}) /\ (idleFd_' # none => Spare' = {idleFd_'})
  BY Zenon DEF TypeOK, Spare
<1>1. open \subseteq Fds /\ none \notin Fds
  BY FdTypes DEF TypeOK
<1>2. conn' = conn /\ other' = other /\ (stolen' <=> stolen)
  BY DEF HandleReadEmfile, AcceptSpare, CloseSpare, OpenSpare, connVars
<1>3. CASE HandleReadEmfile
  <2>1. /\ accepting = "readable" /\ accepting' = "accept" /\ Fds \subseteq open
        /\ open' = open \ {idleFd_} /\ idleFd_' = idleFd_
    BY <1>3, LowestFree DEF HandleReadEmfile
  <2>2. open' = open \ Spare
    BY <1>1, <2>1, SpareCases
  <2>3. FdsOwned(open', conn', Spare', other')
    BY <1>0, <1>2, <2>1, <2>2, SpareClosed
  <2>4. stolen \/ ~(Fds \subseteq open')
    <3>1. idleFd_ = none => stolen
      BY <2>1 DEF SpareFree, SpareKept
    <3>2. idleFd_ # none => idleFd_ \in Fds
      BY DEF TypeOK
    <3> QED
      BY <2>1, <3>1, <3>2
  <2> QED
    BY <1>2, <2>1, <2>3, <2>4 DEF SpareFree, SpareKept
<1>4. CASE AcceptSpare
  <2>1. accepting = "accept" /\ accepting' = "close" /\ Spare = {}
    BY <1>4, SpareCases DEF AcceptSpare
  <2>2. CASE backlog > 0 /\ NewFd(open) # none
    <3>1. /\ idleFd_' = NewFd(open) /\ open' = open \cup {NewFd(open)}
          /\ NewFd(open) \in Fds \ open /\ Spare' = {NewFd(open)}
      BY <1>0, <1>4, <2>1, <2>2, LowestFree DEF AcceptSpare
    <3>2. FdsOwned(open', conn', Spare', other')
      BY <1>2, <2>1, <3>1, SpareOpened
    <3> QED
      BY <2>1, <2>2, <3>1, <3>2 DEF SpareFree, SpareKept
  <2>3. CASE ~(backlog > 0 /\ NewFd(open) # none)
    <3>1. idleFd_' = none /\ open' = open
      BY <1>4, <2>3 DEF AcceptSpare
    <3>2. FdsOwned(open', conn', Spare', other')
      BY <1>0, <1>2, <2>1, <3>1
    <3> QED
      BY <1>2, <2>1, <3>1, <3>2 DEF SpareFree, SpareKept
  <2> QED
    BY <2>2, <2>3
<1>5. CASE CloseSpare
  <2>1. /\ accepting = "close" /\ accepting' = "open" /\ open' = open \ {idleFd_}
        /\ idleFd_' = idleFd_
    BY <1>5 DEF CloseSpare
  <2>2. open' = open \ Spare
    BY <1>1, <2>1, SpareCases
  <2>3. FdsOwned(open', conn', Spare', other')
    BY <1>0, <1>2, <2>1, <2>2, SpareClosed
  <2>4. stolen \/ ~(Fds \subseteq open')
    <3>1. idleFd_ # none => idleFd_ \in Fds
      BY DEF TypeOK
    <3> QED
      BY <2>1, <3>1 DEF SpareFree
  <2> QED
    BY <1>2, <2>1, <2>3, <2>4 DEF SpareFree, SpareKept
<1>6. CASE OpenSpare
  <2>1. /\ accepting = "open" /\ accepting' = "idle" /\ idleFd_' = NewFd(open)
        /\ open' = (open \cup {NewFd(open)}) \ {none} /\ Spare = {}
    BY <1>6, SpareCases DEF OpenSpare
  <2>2. CASE NewFd(open) = none
    <3>1. open' = open /\ stolen
      BY <1>1, <2>1, <2>2, LowestFree DEF SpareFree
    <3>2. FdsOwned(open', conn', Spare', other')
      BY <1>0, <1>2, <2>1, <2>2, <3>1
    <3> QED
      BY <1>2, <2>1, <3>1, <3>2 DEF SpareFree, SpareKept
  <2>3. CASE NewFd(open) # none
    <3>1. NewFd(open) \in Fds \ open
      BY <2>3, LowestFree
    <3>2. open' = open \cup {NewFd(open)} /\ Spare' = {NewFd(open)}
      BY <1>0, <1>1, <2>1, <2>3, <3>1
    <3>3. FdsOwned(open', conn', Spare', other')
      BY <1>2, <2>1, <3>1, <3>2, SpareOpened
    <3> QED
      BY <2>1, <2>3, <3>3 DEF SpareFree, SpareKept
  <2> QED
    BY <2>2, <2>3
<1> QED
  BY <1>3, <1>4, <1>5, <1>6

\* The other part's steps: a descriptor it opens while the spare one is closed is stolen.
LEMMA OtherFds ==
  ASSUME TypeOK, FdsOwned(open, conn, Spare, other), SpareFree, Other
  PROVE  FdsOwned(open', conn', Spare', other') /\ SpareFree'
<1>1. accepting' = accepting /\ idleFd_' = idleFd_ /\ conn' = conn
  BY DEF Other, connVars
<1>2. Spare' = Spare
  BY <1>1 DEF Spare
<1>3. CASE other = none /\ NewFd(open) # none /\ other' = NewFd(open)
           /\ open' = open \cup {NewFd(open)}
           /\ stolen' = (stolen \/ accepting \in {"accept", "close", "open"})
  <2>1. NewFd(open) \in Fds \ open
    BY <1>3, LowestFree
  <2>2. FdsOwned(open', conn', Spare', other')
    BY <1>1, <1>2, <1>3, <2>1, SpareCases, OtherOpened
  <2>3. (stolen => stolen') /\ (accepting \in {"accept", "close", "open"} => stolen')
    BY <1>3, Zenon
  <2> QED
    BY <1>1, <2>2, <2>3 DEF SpareFree, SpareKept
<1>4. CASE other # none /\ other' = none /\ open' = open \ {other} /\ UNCHANGED stolen
  <2>1. FdsOwned(open', conn', Spare', other')
    BY <1>1, <1>2, <1>4, SpareCases, OtherClosed
  <2> QED
    BY <1>1, <1>4, <2>1 DEF SpareFree, SpareKept
<1> QED
  BY <1>3, <1>4 DEF Other

(***************************************************************************)
(* The tables of channels.                                                 *)
(***************************************************************************)
Tables == [Loops -> [Fds -> 0 .. MaxPeers]]
InTable(k) == k.state_ \in {"kConnected", "kDisconnected"}
TableSet(ch, l, fd, c) == [ch EXCEPT ![l][fd] = c]

\* What an entry c of the table of l at fd says of the connection.
EntryIs(cs, l, fd, c) == InTable(cs[c]) /\ cs[c].loop = l /\ cs[c].fd = fd

\* channels_[fd] = channel, and erase.
LEMMA SetEntry ==
  ASSUME NEW ch \in Tables, NEW l \in Loops, NEW fd \in Fds, NEW c \in 0 .. MaxPeers
  PROVE  /\ TableSet(ch, l, fd, c) \in Tables
         /\ TableSet(ch, l, fd, c)[l][fd] = c
         /\ \A k \in Loops : \A x \in Fds :
               k # l \/ x # fd => TableSet(ch, l, fd, c)[k][x] = ch[k][x]
BY DEF Tables, TableSet

\* An entry is of a connection that has its loop and its descriptor.
LEMMA EntryOf ==
  ASSUME NEW ch, NEW cs, TablesMatch(ch, cs)
  PROVE  \A k \in Loops : \A x \in Fds : ch[k][x] # 0 => EntryIs(cs, k, x, ch[k][x])
BY Zenon DEF TablesMatch, InTable, EntryIs

\* Steps that neither establish nor destroy a connection.
LEMMA TablesKept ==
  ASSUME NEW ch \in Tables, NEW cs, NEW ds, TablesMatch(ch, cs),
         \A c \in Conns : /\ InTable(ds[c]) <=> InTable(cs[c])
                          /\ InTable(cs[c]) => ds[c].loop = cs[c].loop /\ ds[c].fd = cs[c].fd
  PROVE  TablesMatch(ch, ds)
<1>1. \A l \in Loops : \A fd \in Fds : ch[l][fd] # 0 => ch[l][fd] \in Conns
  BY DEF Tables, Conns
<1>2. \A c \in Conns : InTable(ds[c]) => ch[ds[c].loop][ds[c].fd] = c
  BY Zenon DEF TablesMatch, InTable
<1>3. ASSUME NEW k \in Loops, NEW x \in Fds, ch[k][x] # 0
      PROVE  EntryIs(ds, k, x, ch[k][x])
  <2>1. EntryIs(cs, k, x, ch[k][x]) /\ ch[k][x] \in Conns
    BY <1>1, <1>3, EntryOf, Zenon
  <2>2. ASSUME NEW e \in Conns, EntryIs(cs, k, x, e)
        PROVE  EntryIs(ds, k, x, e)
    BY <2>2, Zenon DEF EntryIs
  <2> QED
    BY <2>1, <2>2, Zenon
<1> QED
  BY <1>2, <1>3, Zenon DEF TablesMatch, InTable, EntryIs

\* A connection is established, on a descriptor that no other one has.
LEMMA EntryAdded ==
  ASSUME NEW ch \in Tables, NEW cs, NEW ds, TablesMatch(ch, cs), NEW c \in Conns,
         NEW l \in Loops, NEW fd \in Fds,
         ~InTable(cs[c]), InTable(ds[c]), ds[c].loop = l, ds[c].fd = fd,
         \A d \in Conns \ {c} : ds[d] = cs[d],
         \A d \in Conns \ {c} : InTable(cs[d]) => cs[d].loop \in Loops /\ cs[d].fd \in Fds \ {fd}
  PROVE  TablesMatch(TableSet(ch, l, fd, c), ds)
<1> DEFINE new == TableSet(ch, l, fd, c)
<1>1. c \in 0 .. MaxPeers /\ c # 0
  BY DEF Conns
<1>2. /\ new[l][fd] = c
      /\ \A k \in Loops : \A x \in Fds : k # l \/ x # fd => new[k][x] = ch[k][x]
  BY <1>1, SetEntry
<1>3. \A k \in Loops : \A x \in Fds : ch[k][x] # 0 => ch[k][x] \in Conns
  BY DEF Tables, Conns
<1> HIDE DEF new
<1>4. ASSUME NEW d \in Conns, InTable(ds[d])
      PROVE  new[ds[d].loop][ds[d].fd] = d
  <2>1. CASE d = c
    BY <1>2, <2>1, Zenon
  <2>2. CASE d # c
    <3>1. ds[d] = cs[d] /\ cs[d].loop \in Loops /\ cs[d].fd \in Fds \ {fd}
      BY <1>4, <2>2, Zenon
    <3>2. ch[cs[d].loop][cs[d].fd] = d
      BY <1>4, <3>1, Zenon DEF TablesMatch, InTable
    <3>3. cs[d].fd # fd /\ cs[d].fd \in Fds
      BY <3>1, Zenon
    <3>4. new[cs[d].loop][cs[d].fd] = ch[cs[d].loop][cs[d].fd]
      BY <1>2, <3>1, <3>3, Zenon
    <3> QED
      BY <3>1, <3>2, <3>4, Zenon
  <2> QED
    BY <2>1, <2>2, Zenon
<1>5. ASSUME NEW k \in Loops, NEW x \in Fds, new[k][x] # 0
      PROVE  EntryIs(ds, k, x, new[k][x])
  <2>1. CASE k = l /\ x = fd
    BY <1>2, <2>1, Zenon DEF EntryIs
  <2>2. CASE k # l \/ x # fd
    <3>1. new[k][x] = ch[k][x] /\ ch[k][x] \in Conns
      BY <1>2, <1>3, <1>5, <2>2, Zenon
    <3>2. EntryIs(cs, k, x, ch[k][x])
      BY <1>5, <3>1, EntryOf, Zenon
    <3>3. ASSUME NEW e \in Conns, EntryIs(cs, k, x, e)
          PROVE  EntryIs(ds, k, x, e)
      BY <3>3, Zenon DEF EntryIs
    <3> QED
      BY <3>1, <3>2, <3>3, Zenon
  <2> QED
    BY <2>1, <2>2, Zenon
<1>6. TablesMatch(new, ds)
  BY <1>4, <1>5, Zenon DEF TablesMatch, InTable, EntryIs
<1> QED
  BY <1>6 DEF new

\* A connection is destroyed, and its entry erased.
LEMMA EntryErased ==
  ASSUME NEW ch \in Tables, NEW cs, NEW ds, TablesMatch(ch, cs), NEW c \in Conns,
         NEW l \in Loops, NEW fd \in Fds,
         InTable(cs[c]), ~InTable(ds[c]), cs[c].loop = l, cs[c].fd = fd,
         \A d \in Conns \ {c} : ds[d] = cs[d],
         \A d \in Conns \ {c} : InTable(cs[d]) => cs[d].loop \in Loops /\ cs[d].fd \in Fds \ {fd}
  PROVE  TablesMatch(TableSet(ch, l, fd, 0), ds)
<1> DEFINE new == TableSet(ch, l, fd, 0)
<1>1. 0 \in 0 .. MaxPeers
  BY TcpServerAssumption
<1>2. /\ new[l][fd] = 0
      /\ \A k \in Loops : \A x \in Fds : k # l \/ x # fd => new[k][x] = ch[k][x]
  BY <1>1, SetEntry
<1>3. \A k \in Loops : \A x \in Fds : ch[k][x] # 0 => ch[k][x] \in Conns
  BY DEF Tables, Conns
<1> HIDE DEF new
<1>4. ASSUME NEW d \in Conns, InTable(ds[d])
      PROVE  new[ds[d].loop][ds[d].fd] = d
  <2>1. CASE d # c
    <3>1. ds[d] = cs[d] /\ cs[d].loop \in Loops /\ cs[d].fd \in Fds \ {fd}
      BY <1>4, <2>1, Zenon
    <3>2. ch[cs[d].loop][cs[d].fd] = d
      BY <1>4, <3>1, Zenon DEF TablesMatch, InTable
    <3>3. cs[d].fd # fd /\ cs[d].fd \in Fds
      BY <3>1, Zenon
    <3>4. new[cs[d].loop][cs[d].fd] = ch[cs[d].loop][cs[d].fd]
      BY <1>2, <3>1, <3>3, Zenon
    <3> QED
      BY <3>1, <3>2, <3>4, Zenon
  <2> QED
    BY <1>4, <2>1, Zenon
<1>5. ASSUME NEW k \in Loops, NEW x \in Fds, new[k][x] # 0
      PROVE  EntryIs(ds, k, x, new[k][x])
  <2>1. k # l \/ x # fd
    BY <1>2, <1>5, Zenon
  <2>2. new[k][x] = ch[k][x] /\ ch[k][x] \in Conns
    BY <1>2, <1>3, <1>5, <2>1, Zenon
  <2>3. EntryIs(cs, k, x, ch[k][x])
    BY <1>5, <2>2, EntryOf, Zenon
  <2>4. ASSUME NEW e \in Conns, EntryIs(cs, k, x, e)
        PROVE  EntryIs(ds, k, x, e)
    <3>1. e # c
      BY <2>1, <2>4, Zenon DEF EntryIs
    <3> QED
      BY <2>4, <3>1, Zenon DEF EntryIs
  <2> QED
    BY <2>2, <2>3, <2>4, Zenon
<1>6. TablesMatch(new, ds)
  BY <1>4, <1>5, Zenon DEF TablesMatch, InTable, EntryIs
<1> QED
  BY <1>6 DEF new

(***************************************************************************)
(* The invariant, action by action.                                        *)
(***************************************************************************)
\* The types after a step of connections.
LEMMA ConnTypes ==
  ASSUME TypeOK, functors' \in [Loops -> Seq(Functor)], conn' \in [Conns -> Connection],
         channels_' \in Tables, connections_' \subseteq Conns, open' \subseteq Fds,
         UNCHANGED <<poolVars, other, acceptorVars>>
  PROVE  TypeOK'
BY DEF TypeOK, Functor, Connection, State, Tables, poolVars, acceptorVars

\* What the lemmas on descriptors and tables need of live connections.
LEMMA LiveConns ==
  ASSUME ServerInv
  PROVE  /\ \A c \in Conns : InTable(conn[c]) => Lives(conn[c])
         /\ \A c \in Conns : Lives(conn[c]) => conn[c].fd \in Fds /\ conn[c].loop \in Loops
         /\ \A c, d \in Conns :
               Lives(conn[c]) /\ Lives(conn[d]) /\ conn[c].fd = conn[d].fd => c = d
         /\ channels_ \in Tables
<1>1. \A c \in Conns : conn[c].loop \in Loops
  BY Shapes DEF ServerInv
<1> QED
  BY <1>1, Zenon DEF ServerInv, InTable, Lives, FdsOwned, TypeOK, Tables

\* A connection is closed.
LEMMA HandleCloseKeeps ==
  ASSUME ServerInv, NEW c \in Conns, HandleClose(c)
  PROVE  ServerInv'
<1>1. /\ UNCHANGED <<poolVars, channels_, open, other, acceptorVars>>
      /\ conn' = [conn EXCEPT ![c].state_ = "kDisconnected"] /\ conn[c].state_ = "kConnected"
      /\ connections_' \subseteq connections_
  BY DEF HandleClose, RemoveConnection, RemoveConnectionInLoop
<1>2. /\ conn' \in [Conns -> Connection]
      /\ conn'[c].state_ = "kDisconnected" /\ conn'[c].loop = conn[c].loop
      /\ conn'[c].fd = conn[c].fd
      /\ \A d \in Conns \ {c} : conn'[d] = conn[d]
  BY <1>1, SetState, Zenon DEF ServerInv, State
<1>3. ConnInv' /\ functors' \in [Loops -> Seq(Functor)]
  BY HandleCloseConn DEF ServerInv
<1>4. TypeOK'
  <2>1. connections_' \subseteq Conns /\ open' \subseteq Fds /\ channels_' \in Tables
    BY <1>1 DEF ServerInv, TypeOK, Tables
  <2> QED
    BY <1>1, <1>2, <1>3, <2>1, ConnTypes DEF ServerInv
<1>5. Counted'
  BY <1>1, <1>2 DEF ServerInv, Counted, poolVars, acceptorVars
<1>6. FdsOwned(open', conn', Spare', other') /\ SpareFree'
  <2>1. UNCHANGED <<open, other, accepting, idleFd_, stolen>>
    BY <1>1 DEF acceptorVars
  <2>2. Spare' = Spare
    BY <2>1 DEF Spare
  <2>3. \A d \in Conns : (Lives(conn'[d]) <=> Lives(conn[d])) /\ conn'[d].fd = conn[d].fd
    BY <1>1, <1>2 DEF Lives
  <2>4. FdsOwned(open, conn', Spare, other)
    BY <2>3, OwnersKept DEF ServerInv
  <2> QED
    BY <2>1, <2>2, <2>4 DEF ServerInv, SpareFree, SpareKept
<1>7. TablesMatch(channels_', conn')
  <2>1. \A d \in Conns : /\ InTable(conn'[d]) <=> InTable(conn[d])
                         /\ conn'[d].loop = conn[d].loop /\ conn'[d].fd = conn[d].fd
    BY <1>1, <1>2 DEF InTable
  <2>2. TablesMatch(channels_, conn')
    BY <2>1, LiveConns, TablesKept DEF ServerInv
  <2> QED
    BY <1>1, <2>2
<1> QED
  BY <1>3, <1>4, <1>5, <1>6, <1>7 DEF ServerInv

\* ConnectEstablished runs in the connection's loop.
LEMMA EstablishedKeeps ==
  ASSUME ServerInv, NEW l \in Loops, RunFunctor(l),
         Head(functors[l])[1] = "connectEstablished"
  PROVE  ServerInv'
<1> DEFINE c == Head(functors[l])[2]
<1>0. TypeOK /\ ConnInv
  BY DEF ServerInv
<1>1. /\ UNCHANGED <<poolVars, connections_, open, other, acceptorVars>>
      /\ conn' = [conn EXCEPT ![c] = [conn[c] EXCEPT !.state_ = "kConnected"]]
      /\ channels_' = TableSet(channels_, conn[c].loop, conn[c].fd, c)
  BY Zenon DEF RunFunctor, ConnectEstablished, TableSet
<1>2. c \in Conns /\ conn[c].state_ = "kConnecting"
  <2>1. c \in Conns /\ Match(connections_, conn, l, Head(functors[l]))
    BY <1>0, NextFunctor, Zenon
  <2> QED
    BY <2>1, Zenon DEF Match
<1>3. ConnInv' /\ functors' \in [Loops -> Seq(Functor)]
  BY <1>0, EstablishedConn
<1> HIDE DEF c
<1>4. /\ conn' \in [Conns -> Connection]
      /\ conn'[c].state_ = "kConnected" /\ conn'[c].loop = conn[c].loop
      /\ conn'[c].fd = conn[c].fd
      /\ \A d \in Conns \ {c} : conn'[d] = conn[d]
  BY <1>0, <1>1, <1>2, Shapes, Zenon DEF Connection, State
<1>5. /\ Lives(conn[c]) /\ conn[c].fd \in Fds /\ conn[c].loop \in Loops
      /\ ~InTable(conn[c]) /\ InTable(conn'[c]) /\ c \in 0 .. MaxPeers
  BY <1>2, <1>4, LiveConns DEF Lives, InTable, Conns
<1>6. TypeOK'
  <2>1. channels_' \in Tables
    BY <1>1, <1>5, LiveConns, SetEntry
  <2>2. connections_' \subseteq Conns /\ open' \subseteq Fds
    BY <1>0, <1>1, Zenon DEF TypeOK
  <2> QED
    BY <1>0, <1>1, <1>3, <1>4, <2>1, <2>2, ConnTypes
<1>7. Counted'
  BY <1>1, <1>2, <1>4 DEF ServerInv, Counted, poolVars, acceptorVars
<1>8. FdsOwned(open', conn', Spare', other') /\ SpareFree'
  <2>1. UNCHANGED <<open, other, accepting, idleFd_, stolen>>
    BY <1>1 DEF acceptorVars
  <2>2. Spare' = Spare
    BY <2>1 DEF Spare
  <2>3. \A d \in Conns : (Lives(conn'[d]) <=> Lives(conn[d])) /\ conn'[d].fd = conn[d].fd
    BY <1>2, <1>4 DEF Lives
  <2>4. FdsOwned(open, conn', Spare, other)
    BY <2>3, OwnersKept DEF ServerInv
  <2> QED
    BY <2>1, <2>2, <2>4 DEF ServerInv, SpareFree, SpareKept
<1>9. TablesMatch(channels_', conn')
  <2>1. \A d \in Conns \ {c} : InTable(conn[d]) =>
            conn[d].loop \in Loops /\ conn[d].fd \in Fds \ {conn[c].fd}
    BY <1>2, <1>5, LiveConns
  <2>2. TablesMatch(TableSet(channels_, conn[c].loop, conn[c].fd, c), conn')
    BY <1>2, <1>4, <1>5, <2>1, LiveConns, EntryAdded, Zenon DEF ServerInv
  <2> QED
    BY <1>1, <2>2
<1> QED
  BY <1>3, <1>6, <1>7, <1>8, <1>9 DEF ServerInv

\* RemoveConnectionInLoop runs in the server's loop.
LEMMA RemovedKeeps ==
  ASSUME ServerInv, NEW l \in Loops, RunFunctor(l),
         Head(functors[l])[1] = "removeConnection"
  PROVE  ServerInv'
<1>1. /\ UNCHANGED <<poolVars, conn, channels_, open, other, acceptorVars>>
      /\ connections_' \subseteq connections_
  BY Zenon DEF RunFunctor, RemoveConnectionInLoop
<1>2. ConnInv' /\ functors' \in [Loops -> Seq(Functor)]
  BY RemovedConn DEF ServerInv
<1>3. TypeOK'
  <2>1. /\ connections_' \subseteq Conns /\ open' \subseteq Fds /\ channels_' \in Tables
        /\ conn' \in [Conns -> Connection]
    BY <1>1, Shapes, Zenon DEF ServerInv, TypeOK, Tables
  <2> QED
    BY <1>1, <1>2, <2>1, ConnTypes DEF ServerInv
<1>4. UNCHANGED <<open, other, accepting, idleFd_, stolen>>
  BY <1>1 DEF acceptorVars
<1>5. Spare' = Spare
  BY <1>4 DEF Spare
<1>6. Counted' /\ SpareFree'
  <2>1. UNCHANGED <<nextConnId_, backlog, peers, started_, loops_, conn>>
    BY <1>1 DEF poolVars, acceptorVars
  <2>2. Counted'
    BY <2>1, Zenon DEF ServerInv, Counted
  <2>3. SpareFree'
    BY <1>4, Zenon DEF ServerInv, SpareFree, SpareKept
  <2> QED
    BY <2>2, <2>3
<1> QED
  BY <1>1, <1>2, <1>3, <1>4, <1>5, <1>6 DEF ServerInv

\* ConnectDestroyed runs in the connection's loop, and the connection is freed.
LEMMA DestroyedKeeps ==
  ASSUME ServerInv, NEW l \in Loops, RunFunctor(l),
         Head(functors[l])[1] = "connectDestroyed"
  PROVE  ServerInv'
<1> DEFINE c == Head(functors[l])[2]
<1>0. TypeOK /\ ConnInv
  BY DEF ServerInv
<1>1. /\ UNCHANGED <<poolVars, connections_, other, acceptorVars>>
      /\ conn' = [conn EXCEPT ![c].state_ = "freed"]
      /\ channels_' = TableSet(channels_, conn[c].loop, conn[c].fd, 0)
      /\ open' = open \ {conn[c].fd}
  BY Zenon DEF RunFunctor, ConnectDestroyed, TableSet
<1>2. c \in Conns /\ conn[c].state_ = "kDisconnected"
  <2>1. c \in Conns /\ Match(connections_, conn, l, Head(functors[l]))
    BY <1>0, NextFunctor, Zenon
  <2> QED
    BY <2>1, Zenon DEF Match
<1>3. ConnInv' /\ functors' \in [Loops -> Seq(Functor)]
  BY <1>0, DestroyedConn
<1> HIDE DEF c
<1>4. /\ conn' \in [Conns -> Connection]
      /\ conn'[c].state_ = "freed"
      /\ \A d \in Conns \ {c} : conn'[d] = conn[d]
  BY <1>0, <1>1, <1>2, SetState, Zenon DEF State
<1>5. /\ Lives(conn[c]) /\ conn[c].fd \in Fds /\ conn[c].loop \in Loops
      /\ ~Lives(conn'[c]) /\ InTable(conn[c]) /\ ~InTable(conn'[c]) /\ 0 \in 0 .. MaxPeers
  BY <1>2, <1>4, LiveConns, TcpServerAssumption DEF Lives, InTable
<1>6. TypeOK'
  <2>1. channels_' \in Tables
    BY <1>1, <1>5, LiveConns, SetEntry
  <2>2. connections_' \subseteq Conns /\ open' \subseteq Fds
    BY <1>0, <1>1, Zenon DEF TypeOK
  <2> QED
    BY <1>0, <1>1, <1>3, <1>4, <2>1, <2>2, ConnTypes
<1>7. Counted'
  BY <1>1, <1>2, <1>4 DEF ServerInv, Counted, poolVars, acceptorVars
<1>8. FdsOwned(open', conn', Spare', other') /\ SpareFree'
  <2>1. UNCHANGED <<other, accepting, idleFd_, stolen>> /\ open' \subseteq open
    BY <1>1 DEF acceptorVars
  <2>2. Spare' = Spare
    BY <2>1 DEF Spare
  <2>3. FdsOwned(open \ {conn[c].fd}, conn', Spare, other)
    BY <1>2, <1>4, <1>5, ConnectionClosed, Zenon DEF ServerInv
  <2> QED
    BY <1>1, <2>1, <2>2, <2>3 DEF ServerInv, SpareFree, SpareKept
<1>9. TablesMatch(channels_', conn')
  <2>1. \A d \in Conns \ {c} : InTable(conn[d]) =>
            conn[d].loop \in Loops /\ conn[d].fd \in Fds \ {conn[c].fd}
    BY <1>2, <1>5, LiveConns, Zenon
  <2>2. TablesMatch(TableSet(channels_, conn[c].loop, conn[c].fd, 0), conn')
    <3>1. TablesMatch(channels_, conn) /\ channels_ \in Tables
      BY LiveConns, Zenon DEF ServerInv
    <3>2. PICK k \in Loops, fd \in Fds : conn[c].loop = k /\ conn[c].fd = fd
      BY <1>5, Zenon
    <3>3. c \in Conns /\ InTable(conn[c]) /\ ~InTable(conn'[c])
      BY <1>2, <1>5, Zenon
    <3>4. \A d \in Conns \ {c} : conn'[d] = conn[d]
      BY <1>4, Zenon
    <3>5. \A d \in Conns \ {c} : InTable(conn[d]) =>
              conn[d].loop \in Loops /\ conn[d].fd \in Fds \ {fd}
      BY <2>1, <3>2, Zenon
    <3>6. TablesMatch(TableSet(channels_, k, fd, 0), conn')
      BY <3>1, <3>2, <3>3, <3>4, <3>5, EntryErased
    <3> QED
      BY <3>2, <3>6, Zenon
  <2> QED
    BY <1>1, <2>2
<1> QED
  BY <1>3, <1>6, <1>7, <1>8, <1>9 DEF ServerInv

\* GetNextLoop: a loop, and where the next search begins.
LEMMA NextLoop ==
  ASSUME TypeOK
  PROVE  /\ GetNextLoop[1] \in Loops
         /\ loops_ = <<>> => GetNextLoop[1] = 0 /\ GetNextLoop[2] = next_
         /\ loops_ # <<>> =>
               /\ next_ \in Nat /\ next_ + 1 \in DOMAIN loops_
               /\ GetNextLoop[1] = loops_[next_ + 1]
               /\ GetNextLoop[2] = IF next_ + 1 >= Len(loops_) THEN 0 ELSE next_ + 1
         /\ GetNextLoop[2] \in 0 .. IF loops_ = <<>> THEN 0 ELSE Len(loops_) - 1
<1>1. loops_ \in Seq(Loops)
  BY DEF TypeOK
<1>2. CASE loops_ = <<>>
  <2>1. next_ \in 0 .. 0
    BY <1>2 DEF TypeOK
  <2> QED
    BY <1>2, <2>1, Shapes DEF GetNextLoop
<1>3. CASE loops_ # <<>>
  <2>1. Len(loops_) \in Nat /\ Len(loops_) >= 1 /\ next_ \in 0 .. Len(loops_) - 1
    <3>1. Len(loops_) \in Nat /\ Len(loops_) # 0
      BY <1>1, <1>3
    <3>2. next_ \in 0 .. Len(loops_) - 1
      BY <1>3 DEF TypeOK
    <3> QED
      BY <3>1, <3>2
  <2>2. next_ \in Nat /\ next_ + 1 \in DOMAIN loops_
    BY <1>1, <2>1
  <2>3. loops_[next_ + 1] \in Loops
    BY <1>1, <2>2
  <2>4. (IF next_ + 1 >= Len(loops_) THEN 0 ELSE next_ + 1) \in 0 .. Len(loops_) - 1
    BY <2>1
  <2> QED
    BY <1>3, <2>2, <2>3, <2>4 DEF GetNextLoop
<1> QED
  BY <1>2, <1>3

\* A connection that is accepted gets a new number.
LEMMA AcceptedNumber ==
  ASSUME TypeOK, Counted, HandleRead
  PROVE  nextConnId_ \in Conns /\ conn[nextConnId_].state_ = "none" /\ backlog > 0
<1>1. /\ backlog \in Nat /\ backlog > 0 /\ peers \in Nat /\ peers <= MaxPeers /\ MaxPeers \in Nat
      /\ nextConnId_ \in Nat /\ nextConnId_ >= 1 /\ nextConnId_ - 1 + backlog <= peers
  BY TcpServerAssumption DEF HandleRead, TypeOK, Counted
<1>2. nextConnId_ \in Conns
  BY <1>1 DEF Conns
<1>3. conn[nextConnId_].state_ = "none" <=> nextConnId_ >= nextConnId_
  BY <1>2, Zenon DEF Counted
<1>4. nextConnId_ >= nextConnId_
  BY <1>1
<1> QED
  BY <1>1, <1>2, <1>3, <1>4, Zenon

\* accept4 returns a connection.
LEMMA HandleReadKeeps ==
  ASSUME ServerInv, HandleRead
  PROVE  ServerInv'
<1> DEFINE c == nextConnId_
           l == GetNextLoop[1]
           fd == NewFd(open)
<1>0. TypeOK /\ Counted /\ ConnInv
  BY DEF ServerInv
<1>1. /\ accepting = "readable" /\ accepting' = "idle" /\ backlog' = backlog - 1
      /\ open' = open \cup {fd} /\ NewConnection(fd)
      /\ UNCHANGED <<started_, numThreads_, loops_, other, idleFd_, peers, stolen>>
      /\ fd \in Fds \ open
  BY LowestFree DEF HandleRead
<1>2. c \in Conns /\ conn[c].state_ = "none" /\ backlog > 0
  BY <1>0, AcceptedNumber
<1>3. l \in Loops /\ GetNextLoop[2] \in 0 .. IF loops_ = <<>> THEN 0 ELSE Len(loops_) - 1
  BY <1>0, NextLoop
<1>4. /\ ConnInv' /\ functors' \in [Loops -> Seq(Functor)]
      /\ conn'[c].fd = fd /\ conn'[c].loop = l
      /\ conn'[c].state_ = IF l = 0 THEN "kConnected" ELSE "kConnecting"
      /\ conn' \in [Conns -> Connection]
      /\ \A d \in Conns \ {c} : conn'[d] = conn[d]
  BY <1>0, <1>1, <1>2, <1>3, NewConnectionConn, Zenon
<1>5. /\ next_' = GetNextLoop[2] /\ nextConnId_' = c + 1 /\ connections_' = connections_ \cup {c}
      /\ \/ l = 0 /\ channels_' = TableSet(channels_, l, fd, c)
         \/ l # 0 /\ channels_' = channels_
  <2>1. NewConnection(fd)
    BY <1>1
  <2> HIDE DEF fd
  <2> QED
    BY <2>1 DEF NewConnection, ConnectEstablished, TableSet
<1> HIDE DEF c, l, fd
<1>6. /\ ~Lives(conn[c]) /\ Lives(conn'[c]) /\ ~InTable(conn[c])
      /\ (l = 0 => InTable(conn'[c])) /\ (l # 0 => ~InTable(conn'[c]))
      /\ c \in 0 .. MaxPeers /\ c \in Nat
  BY <1>2, <1>4 DEF Lives, InTable, Conns
<1>7. channels_' \in Tables
  <2>1. channels_ \in Tables
    BY LiveConns, Zenon
  <2>2. TableSet(channels_, l, fd, c) \in Tables
    BY <1>1, <1>3, <1>6, <2>1, SetEntry, Zenon
  <2> QED
    BY <1>5, <2>1, <2>2, Zenon
<1>8. TypeOK'
  <2>1. backlog' \in 0 .. MaxPeers
    <3>1. backlog \in 0 .. MaxPeers
      BY <1>0 DEF TypeOK
    <3> QED
      BY <1>1, <1>2, <3>1, TcpServerAssumption
  <2>2. nextConnId_' \in 1 .. MaxPeers + 1
    BY <1>2, <1>5, TcpServerAssumption DEF Conns
  <2>3. next_' \in 0 .. IF loops_' = <<>> THEN 0 ELSE Len(loops_') - 1
    BY <1>1, <1>3, <1>5
  <2>4. started_' \in BOOLEAN /\ stolen' \in BOOLEAN
    BY <1>0, <1>1 DEF TypeOK
  <2>5. connections_' \subseteq Conns /\ open' \subseteq Fds
    BY <1>0, <1>1, <1>2, <1>5 DEF TypeOK
  <2> QED
    BY <1>0, <1>1, <1>4, <1>7, <2>1, <2>2, <2>3, <2>4, <2>5, Zenon
       DEF TypeOK, Functor, Connection, State, Tables
<1>9. Counted'
  <2>1. nextConnId_' - 1 + backlog' <= peers'
    <3>1. backlog \in 0 .. MaxPeers /\ peers \in 0 .. MaxPeers
      BY <1>0, Zenon DEF TypeOK
    <3>2. c - 1 + backlog <= peers /\ c \in Nat
      BY <1>0, <1>6, Zenon DEF Counted, c
    <3>3. nextConnId_' = c + 1 /\ backlog' = backlog - 1 /\ peers' = peers
      BY <1>1, <1>5, Zenon
    <3> QED
      BY <3>1, <3>2, <3>3
  <2>2. ~started_' => loops_' = <<>> /\ peers' = 0
    BY <1>0, <1>1 DEF Counted
  <2>3. \A d \in Conns : conn'[d].state_ = "none" <=> d >= nextConnId_'
    <3>1. \A d \in Conns : d \in Nat
      BY DEF Conns
    <3>2. \A d \in Conns : conn[d].state_ = "none" <=> d >= c
      BY <1>0 DEF Counted, c
    <3>3. conn'[c].state_ # "none"
      BY <1>4
    <3>4. nextConnId_' = c + 1 /\ c \in Nat
      BY <1>5, <1>6, Zenon
    <3>5. \A d \in Conns \ {c} : conn'[d].state_ = "none" <=> d >= c
      BY <1>4, <3>2, Zenon
    <3> QED
      BY <3>1, <3>3, <3>4, <3>5
  <2> QED
    BY <2>1, <2>2, <2>3 DEF Counted
<1>10. FdsOwned(open', conn', Spare', other') /\ SpareFree'
  <2>1. Spare' = Spare /\ Spare \subseteq Fds
    BY <1>0, <1>1, SpareCases DEF Spare
  <2>2. FdsOwned(open \cup {fd}, conn', Spare, other)
    <3>1. FdsOwned(open, conn, Spare, other)
      BY DEF ServerInv
    <3> QED
      BY <1>1, <1>2, <1>4, <1>6, <2>1, <3>1, ConnectionOpened, Zenon
  <2> QED
    BY <1>1, <2>1, <2>2 DEF ServerInv, SpareFree, SpareKept
<1>11. TablesMatch(channels_', conn')
  <2>0. TablesMatch(channels_, conn) /\ channels_ \in Tables
    BY LiveConns DEF ServerInv
  <2>1. CASE l = 0
    <3>1. \A d \in Conns \ {c} : InTable(conn[d]) =>
              conn[d].loop \in Loops /\ conn[d].fd \in Fds \ {fd}
      <4>1. \A d \in Conns : Lives(conn[d]) => conn[d].fd \in open
        BY Zenon DEF ServerInv, FdsOwned
      <4> QED
        BY <1>1, <4>1, LiveConns
    <3>2. TablesMatch(TableSet(channels_, l, fd, c), conn')
      BY <1>1, <1>2, <1>3, <1>4, <1>6, <2>0, <2>1, <3>1, EntryAdded, Zenon
    <3> QED
      BY <1>5, <2>1, <3>2
  <2>2. CASE l # 0
    <3>1. \A d \in Conns : /\ InTable(conn'[d]) <=> InTable(conn[d])
                           /\ InTable(conn[d]) => conn'[d].loop = conn[d].loop
                                                  /\ conn'[d].fd = conn[d].fd
      BY <1>4, <1>6, <2>2, Zenon
    <3>2. TablesMatch(channels_, conn')
      BY <2>0, <3>1, TablesKept
    <3> QED
      BY <1>5, <2>2, <3>2
  <2> QED
    BY <2>1, <2>2
<1> QED
  BY <1>4, <1>8, <1>9, <1>10, <1>11, Zenon DEF ServerInv

\* The steps of the pool and of peers, and those of the acceptor that open and close
\* nothing.
LEMMA QuietKeeps ==
  ASSUME ServerInv,
         \/ Start \/ PeerConnects \/ PeerAborts \/ PollReadable \/ HandleReadFails
         \/ \E n \in Loops : SetThreadNum(n)
  PROVE  ServerInv'
<1>0. TypeOK /\ Counted /\ MaxThreads \in Nat /\ MaxPeers \in Nat
  BY TcpServerAssumption DEF ServerInv
<1>1. /\ UNCHANGED <<connections_, conn, channels_, functors, open, other, idleFd_, stolen, next_,
                     nextConnId_>>
      /\ accepting' = accepting \/ {accepting, accepting'} \subseteq {"idle", "readable"}
  BY Zenon DEF Start, PeerConnects, PeerAborts, PollReadable, HandleReadFails, SetThreadNum,
         connVars, acceptorVars, poolVars
<1>2. started_' \in BOOLEAN /\ stolen' \in BOOLEAN
  <2>1. started_' = TRUE \/ started_' = started_
    BY DEF Start, PeerConnects, PeerAborts, PollReadable, HandleReadFails, SetThreadNum, poolVars
  <2> QED
    BY <1>0, <1>1, <2>1, Zenon DEF TypeOK
<1>3. /\ numThreads_' \in Loops /\ loops_' \in Seq(Loops)
      /\ next_' \in 0 .. IF loops_' = <<>> THEN 0 ELSE Len(loops_') - 1
  <2>1. CASE Start
    <3>1. numThreads_ \in 0 .. MaxThreads /\ numThreads_' = numThreads_ /\ next_ = 0
      <4>1. loops_ = <<>>
        BY <1>0, <2>1 DEF Start, Counted
      <4> QED
        BY <1>0, <2>1, <4>1 DEF Start, TypeOK, Loops
    <3>2. loops_' = [i \in 1 .. numThreads_ |-> i]
      BY <2>1 DEF Start, StartPool
    <3>3. \A i \in 1 .. numThreads_ : i \in Loops
      BY <1>0, <3>1 DEF Loops
    <3>4. loops_' \in Seq(Loops) /\ Len(loops_') = numThreads_
      BY <1>0, <3>1, <3>2, <3>3
    <3>5. next_' \in 0 .. IF loops_' = <<>> THEN 0 ELSE Len(loops_') - 1
      BY <1>0, <1>1, <3>1, <3>4
    <3> QED
      BY <3>1, <3>4, <3>5 DEF Loops
  <2>2. CASE ~Start
    <3>1. loops_' = loops_ /\ numThreads_' \in Loops
      BY <1>0, <2>2, Zenon DEF PeerConnects, PeerAborts, PollReadable, HandleReadFails, SetThreadNum,
                        poolVars, TypeOK
    <3> QED
      BY <1>0, <1>1, <3>1, Zenon DEF TypeOK
  <2> QED
    BY <2>1, <2>2
<1>4. /\ backlog' \in 0 .. MaxPeers /\ peers' \in 0 .. MaxPeers
      /\ nextConnId_' - 1 + backlog' <= peers'
  <2>1. /\ backlog \in 0 .. MaxPeers /\ peers \in 0 .. MaxPeers /\ nextConnId_ \in Nat
        /\ nextConnId_ >= 1 /\ nextConnId_ - 1 + backlog <= peers
    BY <1>0 DEF TypeOK, Counted
  <2>2. \/ peers < MaxPeers /\ peers' = peers + 1 /\ backlog' = backlog + 1
        \/ peers' = peers /\ backlog > 0 /\ backlog' = backlog - 1
        \/ peers' = peers /\ backlog' = backlog
    BY DEF Start, PeerConnects, PeerAborts, PollReadable, HandleReadFails, SetThreadNum,
       acceptorVars
  <2> QED
    BY <1>0, <1>1, <2>1, <2>2
<1>5. TypeOK'
  <2>1. accepting' \in {"idle", "readable", "accept", "close", "open"}
    BY <1>0, <1>1 DEF TypeOK
  <2> QED
    BY <1>0, <1>1, <1>2, <1>3, <1>4, <2>1, Zenon DEF TypeOK
<1>6. Counted'
  <2>1. ~started_' => loops_' = <<>> /\ peers' = 0
    <3>1. \/ started_' = TRUE \/ (started_ /\ started_' = started_)
          \/ started_' = started_ /\ loops_' = loops_ /\ peers' = peers
      BY Zenon DEF Start, PeerConnects, PeerAborts, PollReadable, HandleReadFails, SetThreadNum,
                   poolVars, acceptorVars
    <3>2. ~started_ => loops_ = <<>> /\ peers = 0
      BY <1>0, Zenon DEF Counted
    <3> QED
      BY <3>1, <3>2
  <2> QED
    BY <1>0, <1>1, <1>4, <2>1 DEF Counted
<1>7. ConnInv' /\ SpareFree'
  BY <1>1 DEF ServerInv, ConnInv, SpareFree, SpareKept
<1>8. Spare' = Spare
  BY <1>1, Zenon DEF Spare
<1> QED
  BY <1>1, <1>5, <1>6, <1>7, <1>8 DEF ServerInv

\* The steps around the limit of descriptors.
LEMMA FdStepsKeep ==
  ASSUME ServerInv, HandleReadEmfile \/ AcceptSpare \/ CloseSpare \/ OpenSpare \/ Other
  PROVE  ServerInv'
<1>0. TypeOK /\ Counted
  BY DEF ServerInv
<1>1. UNCHANGED <<started_, numThreads_, loops_, next_, nextConnId_, connections_, conn, channels_,
                  functors, peers>>
  BY Zenon DEF HandleReadEmfile, AcceptSpare, CloseSpare, OpenSpare, Other, poolVars, connVars
<1>2. stolen' \in BOOLEAN
  BY <1>0, Zenon DEF HandleReadEmfile, AcceptSpare, CloseSpare, OpenSpare, Other, TypeOK
<1>3. backlog' = backlog \/ (backlog > 0 /\ backlog' = backlog - 1)
  BY DEF HandleReadEmfile, AcceptSpare, CloseSpare, OpenSpare, Other
<1>4. backlog' \in 0 .. MaxPeers /\ nextConnId_' - 1 + backlog' <= peers'
  <2>1. backlog \in 0 .. MaxPeers /\ peers \in Nat /\ nextConnId_ \in Nat
        /\ nextConnId_ - 1 + backlog <= peers /\ MaxPeers \in Nat
    BY <1>0, TcpServerAssumption DEF TypeOK, Counted
  <2> QED
    BY <1>1, <1>3, <2>1
<1>5. /\ open' \subseteq Fds /\ {idleFd_', other'} \subseteq Fds \cup {none}
      /\ accepting' \in {"idle", "readable", "accept", "close", "open"}
  <2>1. open \subseteq Fds /\ {idleFd_, other} \subseteq Fds \cup {none}
        /\ accepting \in {"idle", "readable", "accept", "close", "open"}
    BY <1>0 DEF TypeOK
  <2>2. NewFd(open) \in Fds \cup {none}
    BY LowestFree
  <2> QED
    BY <2>1, <2>2, Zenon DEF HandleReadEmfile, AcceptSpare, CloseSpare, OpenSpare, Other
<1>6. TypeOK'
  BY <1>0, <1>1, <1>2, <1>4, <1>5, Zenon DEF TypeOK
<1>7. Counted'
  BY <1>0, <1>1, <1>4 DEF Counted
<1>8. FdsOwned(open', conn', Spare', other') /\ SpareFree'
  BY <1>6, AcceptorFds, OtherFds DEF ServerInv
<1>9. ConnInv'
  BY <1>1 DEF ServerInv, ConnInv
<1> QED
  BY <1>1, <1>6, <1>7, <1>8, <1>9 DEF ServerInv

\* The server before it is started.
LEMMA ServerInvInit == Init => ServerInv
<1> SUFFICES ASSUME Init PROVE ServerInv
  OBVIOUS
<1>0. /\ MaxThreads \in Nat /\ MaxFd \in Nat /\ MaxFd >= 1 /\ MaxPeers \in Nat
      /\ started_ \in BOOLEAN /\ stolen \in BOOLEAN
  BY TcpServerAssumption, Zenon DEF Init
<1>1. /\ open = {0, 1} /\ {0, 1} \subseteq Fds /\ 0 \in Loops
      /\ idleFd_ = 1 /\ accepting = "idle" /\ other = none /\ none \notin Fds
  BY <1>0, FdTypes DEF Init, Fds, Loops, acceptSocket_
<1>2. NoConn \in Connection /\ NoConn.state_ = "none" /\ \A c \in Conns : conn[c] = NoConn
  BY <1>1 DEF Init, NoConn, Connection, State
<1>3. /\ conn \in [Conns -> Connection] /\ functors \in [Loops -> Seq(Functor)]
      /\ channels_ \in Tables /\ \A l \in Loops : \A fd \in Fds : channels_[l][fd] = 0
      /\ \A l \in Loops : functors[l] = <<>>
  <2>1. conn \in [Conns -> Connection]
    BY <1>2 DEF Init
  <2>2. functors \in [Loops -> Seq(Functor)] /\ \A l \in Loops : functors[l] = <<>>
    BY DEF Init
  <2>3. channels_ \in Tables /\ \A l \in Loops : \A fd \in Fds : channels_[l][fd] = 0
    BY <1>0 DEF Init, Tables
  <2> QED
    BY <2>1, <2>2, <2>3, Zenon
<1>4. TypeOK
  <2>1. /\ loops_ \in Seq(Loops) /\ loops_ = <<>> /\ next_ = 0
        /\ numThreads_ \in Loops /\ nextConnId_ \in 1 .. MaxPeers + 1
        /\ backlog \in 0 .. MaxPeers /\ peers \in 0 .. MaxPeers
    BY <1>0, <1>1 DEF Init
  <2>2. connections_ \subseteq Conns /\ open \subseteq Fds /\ {idleFd_, other} \subseteq Fds \cup {none}
    BY <1>1 DEF Init
  <2>3. next_ \in 0 .. IF loops_ = <<>> THEN 0 ELSE Len(loops_) - 1
    BY <2>1
  <2> QED
    BY <1>0, <1>1, <1>3, <2>1, <2>2, <2>3 DEF TypeOK, Functor, Connection, State, Tables
<1>5. Counted
  BY <1>0, <1>2 DEF Init, Counted, Conns
<1>6. ConnInv
  <2>1. \A l \in Loops : DOMAIN functors[l] = {}
    BY <1>3
  <2>2. Once(functors) /\ \A l \in Loops : \A f : ~Queued(functors, l, f)
    BY <2>1, Zenon DEF Once, Queued
  <2>3. connections_ = {} /\ \A c \in Conns : conn[c].state_ = "none"
    BY <1>2, Zenon DEF Init
  <2>4. \A c \in Conns : Placed(connections_, conn, functors, c)
    BY <2>3, Zenon DEF Placed
  <2> QED
    BY <2>2, <2>4, Zenon DEF ConnInv
<1>7. FdsOwned(open, conn, Spare, other)
  <2>1. Spare = {1}
    BY <1>1 DEF Spare
  <2>2. \A c \in Conns : ~Lives(conn[c])
    BY <1>2, Zenon DEF Lives
  <2> QED
    <3>1. acceptSocket_ = 0 /\ 0 # 1 /\ other \notin {0, 1}
      <4>1. 0 # 1
        OBVIOUS
      <4> QED
        BY <1>1, <4>1, Zenon DEF acceptSocket_
    <3>2. \A x \in Fds : x \in open <=> x = acceptSocket_ \/ x \in Spare \/ x = other
      BY <1>1, <2>1, <3>1, Zenon
    <3> QED
      BY <1>1, <2>1, <2>2, <3>1, <3>2, Zenon DEF FdsOwned
<1>8. SpareFree
  BY <1>1, Zenon DEF SpareFree, SpareKept, none
<1>9. TablesMatch(channels_, conn)
  BY <1>2, <1>3 DEF TablesMatch
<1> QED
  BY <1>4, <1>5, <1>6, <1>7, <1>8, <1>9 DEF ServerInv

\* Every step keeps the invariant.
LEMMA ServerInvStep ==
  ASSUME ServerInv, [Next]_vars
  PROVE  ServerInv'
<1>1. CASE Start \/ PeerConnects \/ PeerAborts \/ PollReadable \/ HandleReadFails
           \/ \E n \in Loops : SetThreadNum(n)
  BY <1>1, QuietKeeps
<1>2. CASE HandleRead
  BY <1>2, HandleReadKeeps
<1>3. CASE HandleReadEmfile \/ AcceptSpare \/ CloseSpare \/ OpenSpare \/ Other
  BY <1>3, FdStepsKeep
<1>4. ASSUME NEW l \in Loops, RunFunctor(l)
      PROVE  ServerInv'
  <2>1. \/ Head(functors[l])[1] = "connectEstablished"
        \/ Head(functors[l])[1] = "removeConnection"
        \/ Head(functors[l])[1] = "connectDestroyed"
    BY <1>4, Zenon DEF RunFunctor
  <2> QED
    BY <1>4, <2>1, EstablishedKeeps, RemovedKeeps, DestroyedKeeps
<1>5. ASSUME NEW c \in Conns, HandleClose(c)
      PROVE  ServerInv'
  BY <1>5, HandleCloseKeeps
<1>6. CASE UNCHANGED vars
  <2>1. UNCHANGED <<started_, numThreads_, loops_, next_, nextConnId_, connections_, conn, channels_,
                    functors, open, other, idleFd_, accepting, backlog, peers, stolen>>
    BY <1>6 DEF vars, poolVars, connVars, acceptorVars
  <2>2. TypeOK' /\ Counted'
    BY <2>1, Zenon DEF ServerInv, TypeOK, Counted
  <2>3. ConnInv' /\ SpareFree' /\ Spare' = Spare
    BY <2>1, Zenon DEF ServerInv, ConnInv, SpareFree, SpareKept, Spare
  <2> QED
    BY <2>1, <2>2, <2>3 DEF ServerInv
<1> QED
  BY <1>1, <1>2, <1>3, <1>4, <1>5, <1>6 DEF Next, AcceptorStep

\* The inductive invariant holds.
LEMMA ServerInvHolds == Spec => []ServerInv
BY ServerInvInit, ServerInvStep, PTL DEF Spec

\* The server's map, the tables of channels of the loops and the connections that are alive
\* agree, whatever the order in which loops run their functors and descriptors are reused:
\* the asserts of Epoll and of RemoveConnectionInLoop hold.
THEOREM TablesStayInStep == Spec => []TablesAgree
<1>1. ServerInv => TablesAgree
  <2> SUFFICES ASSUME ServerInv PROVE TablesAgree
    OBVIOUS
  <2>0. /\ functors \in [Loops -> Seq(Functor)] /\ 0 \in Loops /\ connections_ \subseteq Conns
        /\ channels_ \in Tables
    BY Shapes, LiveConns DEF ServerInv
  <2>1. EpollAsserts
    <3>1. ASSUME NEW l \in Loops, NEW fd \in Fds
          PROVE  {c \in Conns : conn[c].loop = l /\ conn[c].fd = fd
                                /\ conn[c].state_ \in {"kConnected", "kDisconnected"}}
                     = {channels_[l][fd]} \ {0}
      <4>1. channels_[l][fd] # 0 => channels_[l][fd] \in Conns
        BY <2>0 DEF Tables, Conns
      <4>2. \A c \in Conns : c # 0
        BY DEF Conns
      <4>3. TablesMatch(channels_, conn)
        BY Zenon DEF ServerInv
      <4>4. \A c \in Conns : conn[c].loop = l /\ conn[c].fd = fd /\ InTable(conn[c])
                              => c = channels_[l][fd]
        BY <4>3, Zenon DEF TablesMatch, InTable
      <4>5. channels_[l][fd] # 0 => EntryIs(conn, l, fd, channels_[l][fd])
        BY <4>3, EntryOf, Zenon
      <4> QED
        BY <4>1, <4>2, <4>4, <4>5, Zenon DEF InTable, EntryIs
    <3> QED
      BY <3>1 DEF EpollAsserts
  <2>2. RemoveAssert
    <3>1. \A i \in DOMAIN functors[0] :
             functors[0][i] \in Functor /\ Queued(functors, 0, functors[0][i])
      BY <2>0 DEF Queued
    <3>2. \A i \in DOMAIN functors[0] : functors[0][i][1] = "removeConnection" =>
             functors[0][i][2] \in connections_
      BY <2>0, <3>1, Zenon DEF ServerInv, ConnInv, Match
    <3>3. \A i, j \in DOMAIN functors[0] : functors[0][i] = functors[0][j] => i = j
      BY <2>0, Zenon DEF ServerInv, ConnInv, Once
    <3>4. \A c \in Conns : conn[c].state_ \in {"kConnecting", "kConnected"} => c \in connections_
      BY Zenon DEF ServerInv, ConnInv, Placed
    <3> QED
      BY <3>2, <3>3, <3>4, Zenon DEF RemoveAssert
  <2>3. MapAgrees
    <3>1. \A l \in Loops : \A f : f \in Range(functors[l]) <=> Queued(functors, l, f)
      BY DEF Range, Queued
    <3>2. ASSUME NEW c \in Conns
          PROVE  c \in Alive <=>
                    c \in connections_ \/ \E l \in Loops : Queued(functors, l, <<"connectDestroyed", c>>)
      <4>1. c \in Alive => c \in connections_ \/ Queued(functors, conn[c].loop, <<"connectDestroyed", c>>)
        BY Shapes DEF ServerInv, ConnInv, Placed, Alive, State
      <4>2. conn[c].loop \in Loops
        BY Shapes DEF ServerInv
      <4>3. c \in connections_ => c \in Alive
        BY Zenon DEF ServerInv, ConnInv, Placed, Alive
      <4>4. ASSUME NEW l \in Loops, Queued(functors, l, <<"connectDestroyed", c>>)
            PROVE  c \in Alive
        <5>1. Match(connections_, conn, l, <<"connectDestroyed", c>>)
          BY <4>4, Functors, Zenon DEF ServerInv, ConnInv
        <5> QED
          BY <5>1 DEF Match, Alive
      <4> QED
        BY <4>1, <4>2, <4>3, <4>4
    <3> QED
      BY <3>1, <3>2 DEF MapAgrees
  <2> QED
    BY <2>1, <2>2, <2>3 DEF TablesAgree
<1> QED
  BY <1>1, ServerInvHolds, PTL

\* Disjoint finite sets.
LEMMA DisjointSum ==
  ASSUME NEW S, NEW T, IsFiniteSet(S), IsFiniteSet(T), S \cap T = {}
  PROVE  IsFiniteSet(S \cup T) /\ Cardinality(S \cup T) = Cardinality(S) + Cardinality(T)
<1>1. Cardinality(S \cap T) = 0
  BY FS_EmptySet
<1>2. Cardinality(S) \in Nat /\ Cardinality(T) \in Nat
  BY FS_CardinalityType
<1>3. /\ IsFiniteSet(S \cup T)
      /\ Cardinality(S \cup T) = Cardinality(S) + Cardinality(T) - Cardinality(S \cap T)
  BY FS_Union
<1> QED
  BY <1>1, <1>2, <1>3

\* Descriptors do not leak and are not shared: those in use are the listening socket, one for
\* each live connection, the spare one and the other part's; and the acceptor has its spare
\* one whenever it needs it, unless the other part took it while it was closed.
THEOREM DescriptorsKept == Spec => []DescriptorsAccounted
<1>1. ServerInv => DescriptorsAccounted
  <2> SUFFICES ASSUME ServerInv PROVE DescriptorsAccounted
    OBVIOUS
  <2> DEFINE fds == {conn[c].fd : c \in Alive}
             theirs == {other} \ {none}
             owned == {acceptSocket_} \cup fds \cup Spare \cup theirs
  <2>1. \A c \in Conns : c \in Alive <=> Lives(conn[c])
    BY DEF Alive, Lives
  <2>2. Spare \subseteq Fds /\ {idleFd_, other} \subseteq Fds \cup {none} /\ none \notin Fds
        /\ acceptSocket_ \in Fds
    BY SpareCases, FdTypes, Zenon DEF ServerInv, TypeOK
  <2>3. \A x \in fds : x \in Fds \ (Spare \cup {acceptSocket_, other})
    <3>1. \A c \in Conns : Lives(conn[c]) => conn[c].fd \in Fds \ (Spare \cup {acceptSocket_, other})
      BY Zenon DEF ServerInv, FdsOwned
    <3>2. \A c \in Alive : conn[c].fd \in Fds \ (Spare \cup {acceptSocket_, other})
      BY <2>1, <3>1, Zenon DEF Alive
    <3> QED
      BY <3>2, Zenon
  <2>4. open = owned
    <3>1. \A x : x \in fds <=> \E c \in Conns : Lives(conn[c]) /\ conn[c].fd = x
      BY <2>1, Zenon DEF Alive
    <3>2. owned \subseteq Fds
      BY <2>2, <2>3
    <3>3. open \subseteq Fds
      BY Zenon DEF ServerInv, FdsOwned
    <3> HIDE DEF fds
    <3>4. \A x \in Fds : x \in open <=> x \in owned
      BY <2>2, <3>1, Zenon DEF ServerInv, FdsOwned
    <3> QED
      BY <3>2, <3>3, <3>4
  <2>5. IsFiniteSet(Alive) /\ IsFiniteSet(fds) /\ Cardinality(fds) = Cardinality(Alive)
    <3>1. IsFiniteSet(Alive)
      <4>1. IsFiniteSet(Conns)
        BY FS_Interval, TcpServerAssumption DEF Conns
      <4>2. Alive \in SUBSET Conns
        BY DEF Alive
      <4> QED
        BY <4>1, <4>2, FS_Subset
    <3> DEFINE f == [c \in Alive |-> conn[c].fd]
    <3>2. f \in Bijection(Alive, fds)
      <4>1. f \in [Alive -> fds] /\ \A x \in fds : \E c \in Alive : f[c] = x
        OBVIOUS
      <4>2. \A c, d \in Alive : f[c] = f[d] => c = d
        BY <2>1, Zenon DEF ServerInv, FdsOwned, Alive
      <4> QED
        BY <4>1, <4>2, Zenon DEF Bijection, Injection, Surjection, IsInjective
    <3> QED
      BY <3>1, <3>2, FS_Bijection DEF ExistsBijection
  <2>6. IsFiniteSet(Spare) /\ IsFiniteSet(theirs)
    <3>1. IsFiniteSet({idleFd_}) /\ IsFiniteSet({other})
      BY FS_Singleton, Zenon
    <3>2. Spare \subseteq {idleFd_} /\ theirs \subseteq {other}
      BY DEF Spare
    <3> QED
      BY <3>1, <3>2, FS_Subset
  <2>7. /\ {acceptSocket_} \cap fds = {}
        /\ ({acceptSocket_} \cup fds) \cap Spare = {}
        /\ ({acceptSocket_} \cup fds \cup Spare) \cap theirs = {}
    <3>1. acceptSocket_ \notin Spare \cup {other} /\ other \notin Spare
      BY Zenon DEF ServerInv, FdsOwned
    <3> HIDE DEF fds
    <3> QED
      BY <2>3, <3>1
  <2> HIDE DEF fds, theirs
  <2>8. Cardinality(owned) = 1 + Cardinality(Alive) + Cardinality(Spare) + Cardinality(theirs)
    <3>1. IsFiniteSet({acceptSocket_}) /\ Cardinality({acceptSocket_}) = 1
      BY FS_Singleton, Zenon
    <3>2. /\ IsFiniteSet({acceptSocket_} \cup fds)
          /\ Cardinality({acceptSocket_} \cup fds) = 1 + Cardinality(Alive)
      BY <2>5, <2>7, <3>1, DisjointSum
    <3>3. /\ IsFiniteSet({acceptSocket_} \cup fds \cup Spare)
          /\ Cardinality({acceptSocket_} \cup fds \cup Spare)
                = 1 + Cardinality(Alive) + Cardinality(Spare)
      BY <2>6, <2>7, <3>2, DisjointSum
    <3> QED
      BY <2>6, <2>7, <3>3, DisjointSum
  <2>9. DescriptorsOwned
    BY <2>4, <2>8, Zenon DEF DescriptorsOwned, Spare, fds, theirs
  <2> QED
    BY <2>9 DEF ServerInv, SpareFree, DescriptorsAccounted
<1> QED
  BY <1>1, ServerInvHolds, PTL

(***************************************************************************)
(* Round robin.                                                            *)
(***************************************************************************)
\* The sets of connections given to the loops are finite.
LEMMA GivenFinite ==
  ASSUME NEW cs, NEW l
  PROVE  IsFiniteSet(Given(cs, l)) /\ Cardinality(Given(cs, l)) \in Nat
<1>1. IsFiniteSet(Conns)
  BY FS_Interval, TcpServerAssumption DEF Conns
<1>2. Given(cs, l) \in SUBSET Conns
  BY DEF Given
<1> QED
  BY <1>1, <1>2, FS_Subset, FS_CardinalityType

\* Steps that give no connection to a loop.
LEMMA EvenlyFrame ==
  ASSUME EvenlyGiven, UNCHANGED <<loops_, next_>>,
         \A c \in Conns : /\ conn'[c].state_ = "none" <=> conn[c].state_ = "none"
                          /\ conn'[c].loop = conn[c].loop
  PROVE  EvenlyGiven'
<1>1. \A l : Given(conn', l) = Given(conn, l)
  BY DEF Given
<1> QED
  BY <1>1, Zenon DEF EvenlyGiven

\* A new connection goes to the loop that is behind.
LEMMA EvenlyAccepted ==
  ASSUME ServerInv, EvenlyGiven, HandleRead
  PROVE  EvenlyGiven'
<1>0. TypeOK /\ Counted /\ ConnInv
  BY DEF ServerInv
<1>1. PICK c \in Conns : c = nextConnId_ /\ conn[c].state_ = "none"
  BY <1>0, AcceptedNumber
<1>2. PICK l \in Loops : l = GetNextLoop[1]
  BY <1>0, NextLoop
<1>3. NewFd(open) \in Fds /\ NewConnection(NewFd(open)) /\ loops_' = loops_
  BY LowestFree DEF HandleRead
<1>4. /\ conn'[c].loop = l /\ conn'[c].state_ # "none"
      /\ \A d \in Conns \ {c} : conn'[d] = conn[d]
  BY <1>0, <1>1, <1>2, <1>3, NewConnectionConn, Zenon
<1>5. next_' = GetNextLoop[2]
  BY <1>3, Zenon DEF NewConnection
<1>6. \A k : k # l => Given(conn', k) = Given(conn, k)
  BY <1>1, <1>4 DEF Given
<1>7. Given(conn', l) = Given(conn, l) \cup {c} /\ c \notin Given(conn, l)
  BY <1>1, <1>4 DEF Given
<1>8. CASE loops_ = <<>>
  <2>1. DOMAIN loops_' = {}
    BY <1>3, <1>8
  <2> QED
    BY <2>1 DEF EvenlyGiven
<1>9. CASE loops_ # <<>>
  <2>1. /\ next_ \in Nat /\ next_ + 1 \in DOMAIN loops_ /\ l = loops_[next_ + 1]
        /\ next_' = IF next_ + 1 >= Len(loops_) THEN 0 ELSE next_ + 1
    BY <1>0, <1>2, <1>5, <1>9, NextLoop
  <2>2. DOMAIN loops_ = 1 .. Len(loops_) /\ Len(loops_) \in Nat
    BY <1>0 DEF TypeOK
  <2>3. l = next_ + 1 /\ \A i \in DOMAIN loops_ : loops_[i] = i
    BY <2>1 DEF EvenlyGiven
  <2>4. PICK q \in Nat : \A i \in DOMAIN loops_ :
           Cardinality(Given(conn, i)) = q + IF i <= next_ THEN 1 ELSE 0
    BY DEF EvenlyGiven
  <2>5. Cardinality(Given(conn', l)) = q + 1
    <3>1. Cardinality(Given(conn, l)) = q
      BY <2>1, <2>3, <2>4
    <3> QED
      BY <1>7, <3>1, GivenFinite, FS_AddElement, Zenon
  <2>6. \A i \in DOMAIN loops_ :
           Cardinality(Given(conn', i)) = q + IF i <= next_ + 1 THEN 1 ELSE 0
    <3> SUFFICES ASSUME NEW i \in DOMAIN loops_
                 PROVE  Cardinality(Given(conn', i)) = q + IF i <= next_ + 1 THEN 1 ELSE 0
      OBVIOUS
    <3>1. i \in Nat
      BY <2>2
    <3>2. CASE i = l
      BY <2>1, <2>3, <2>5, <3>2
    <3>3. CASE i # l
      BY <1>6, <2>1, <2>3, <2>4, <3>1, <3>3
    <3> QED
      BY <3>2, <3>3
  <2>7. CASE next_ + 1 >= Len(loops_)
    <3>1. q + 1 \in Nat /\ \A i \in DOMAIN loops_' :
              Cardinality(Given(conn', i)) = (q + 1) + IF i <= next_' THEN 1 ELSE 0
      BY <1>3, <2>1, <2>2, <2>6, <2>7
    <3> QED
      BY <1>3, <2>3, <3>1, Zenon DEF EvenlyGiven
  <2>8. CASE ~(next_ + 1 >= Len(loops_))
    BY <1>3, <2>1, <2>3, <2>6, <2>8, Zenon DEF EvenlyGiven
  <2> QED
    BY <2>7, <2>8
<1> QED
  BY <1>8, <1>9

\* Start makes the pool while there is no connection yet.
LEMMA EvenlyStarted ==
  ASSUME ServerInv, Start
  PROVE  EvenlyGiven'
<1>0. TypeOK /\ Counted
  BY DEF ServerInv
<1>1. /\ loops_' = [i \in 1 .. numThreads_ |-> i] /\ next_' = next_ /\ conn' = conn
      /\ loops_ = <<>> /\ peers = 0
  BY <1>0 DEF Start, StartPool, Counted, connVars
<1>2. nextConnId_ = 1
  <2>1. nextConnId_ \in 1 .. MaxPeers + 1 /\ backlog \in 0 .. MaxPeers
    BY <1>0, Zenon DEF TypeOK
  <2>2. nextConnId_ - 1 + backlog <= peers
    BY <1>0, Zenon DEF Counted
  <2> QED
    BY <1>1, <2>1, <2>2, TcpServerAssumption
<1>3. \A c \in Conns : conn[c].state_ = "none"
  BY <1>0, <1>2 DEF Counted, Conns
<1>4. \A l : Given(conn', l) = {}
  BY <1>1, <1>3, Zenon DEF Given
<1>5. next_' = 0
  BY <1>0, <1>1 DEF TypeOK
<1>6. \A i \in DOMAIN loops_' :
         Cardinality(Given(conn', i)) = 0 + IF i <= next_' THEN 1 ELSE 0
  BY <1>1, <1>4, <1>5, FS_EmptySet
<1> QED
  BY <1>1, <1>6, Zenon DEF EvenlyGiven

\* Every step keeps the loops' shares even.
LEMMA EvenlyStep ==
  ASSUME ServerInv, EvenlyGiven, [Next]_vars
  PROVE  EvenlyGiven'
<1>0. TypeOK /\ ConnInv
  BY DEF ServerInv
<1>1. CASE HandleRead
  BY <1>1, EvenlyAccepted
<1>2. CASE Start
  BY <1>2, EvenlyStarted
<1>3. CASE \/ PeerConnects \/ PeerAborts \/ PollReadable \/ HandleReadFails \/ UNCHANGED vars
           \/ HandleReadEmfile \/ AcceptSpare \/ CloseSpare \/ OpenSpare \/ Other
           \/ \E n \in Loops : SetThreadNum(n)
  <2>1. UNCHANGED <<loops_, next_, conn>>
    BY <1>3, Zenon DEF PeerConnects, PeerAborts, PollReadable, HandleReadFails, HandleReadEmfile,
       AcceptSpare,
                CloseSpare, OpenSpare, Other, SetThreadNum, vars, poolVars, connVars
  <2> QED
    BY <2>1, EvenlyFrame
<1>4. ASSUME NEW c \in Conns, HandleClose(c)
      PROVE  EvenlyGiven'
  <2>1. /\ conn[c].state_ = "kConnected" /\ conn' = [conn EXCEPT ![c].state_ = "kDisconnected"]
        /\ UNCHANGED <<loops_, next_>>
    BY <1>4 DEF HandleClose, poolVars
  <2>2. /\ conn'[c].state_ = "kDisconnected" /\ conn'[c].loop = conn[c].loop
        /\ \A d \in Conns \ {c} : conn'[d] = conn[d]
    BY <1>0, <2>1, SetState, Zenon DEF State
  <2> QED
    BY <2>1, <2>2, EvenlyFrame
<1>5. ASSUME NEW l \in Loops, RunFunctor(l)
      PROVE  EvenlyGiven'
  <2>1. PICK f \in Functor : /\ f = Head(functors[l]) /\ f[2] \in Conns
                             /\ Match(connections_, conn, l, f)
    BY <1>0, <1>5, NextFunctor, Zenon
  <2>2. PICK c \in Conns : c = f[2]
    BY <2>1
  <2>3. UNCHANGED <<loops_, next_>>
    BY <1>5, Zenon DEF RunFunctor, poolVars
  <2>4. CASE f[1] = "connectEstablished"
    <3>1. conn[c].state_ # "none" /\ conn' = [conn EXCEPT ![c] = [conn[c] EXCEPT !.state_ = "kConnected"]]
      BY <1>5, <2>1, <2>2, <2>4, Zenon DEF RunFunctor, ConnectEstablished, Match
    <3>2. /\ conn'[c].state_ = "kConnected" /\ conn'[c].loop = conn[c].loop
          /\ \A d \in Conns \ {c} : conn'[d] = conn[d]
      BY <1>0, <3>1, Shapes DEF Connection
    <3> QED
      BY <2>3, <3>1, <3>2, EvenlyFrame
  <2>5. CASE f[1] = "removeConnection"
    <3>1. conn' = conn
      BY <1>5, <2>1, <2>5, Zenon DEF RunFunctor
    <3> QED
      BY <2>3, <3>1, EvenlyFrame
  <2>6. CASE f[1] = "connectDestroyed"
    <3>1. conn[c].state_ # "none" /\ conn' = [conn EXCEPT ![c].state_ = "freed"]
      BY <1>5, <2>1, <2>2, <2>6, Zenon DEF RunFunctor, ConnectDestroyed, Match
    <3>2. /\ conn'[c].state_ = "freed" /\ conn'[c].loop = conn[c].loop
          /\ \A d \in Conns \ {c} : conn'[d] = conn[d]
      BY <1>0, <3>1, SetState, Zenon DEF State
    <3> QED
      BY <2>3, <3>1, <3>2, EvenlyFrame
  <2> QED
    BY <1>5, <2>1, <2>4, <2>5, <2>6, Zenon DEF RunFunctor
<1> QED
  BY <1>1, <1>2, <1>3, <1>4, <1>5 DEF Next, AcceptorStep

\* New connections are given out evenly: whatever the order in which connections come and
\* go, no loop of the pool has been given two more than another one.
THEOREM SharesStayEven == Spec => []RoundRobin
<1>1. Init => EvenlyGiven
  <2> SUFFICES ASSUME Init PROVE EvenlyGiven
    OBVIOUS
  <2>1. DOMAIN loops_ = {}
    BY DEF Init
  <2> QED
    BY <2>1 DEF EvenlyGiven
<1>2. ServerInv /\ EvenlyGiven => RoundRobin
  <2> SUFFICES ASSUME ServerInv, EvenlyGiven,
                      NEW k \in Range(loops_), NEW l \in Range(loops_)
               PROVE  Cardinality({c \in Conns : conn[c].state_ # "none" /\ conn[c].loop = k})
                      <= Cardinality({c \in Conns : conn[c].state_ # "none" /\ conn[c].loop = l}) + 1
    BY Zenon DEF RoundRobin
  <2>1. k \in DOMAIN loops_ /\ l \in DOMAIN loops_
    BY DEF EvenlyGiven, Range
  <2>2. PICK q \in Nat : \A i \in DOMAIN loops_ :
           Cardinality(Given(conn, i)) = q + IF i <= next_ THEN 1 ELSE 0
    BY DEF EvenlyGiven
  <2>3. Cardinality(Given(conn, k)) <= Cardinality(Given(conn, l)) + 1
    BY <2>1, <2>2
  <2> QED
    BY <2>3 DEF Given
<1> QED
  BY <1>1, <1>2, ServerInvHolds, EvenlyStep, PTL DEF Spec
=============================================================================
